------------------------- MODULE Accumulator_proofs -------------------------
(***************************************************************************)
(* The arithmetic of src/alu.rs, for both operand widths, all operands and *)
(* all flavors.  A word is the sum of its digits, and what a digit loop    *)
(* leaves is put together from what it makes of each digit; the 65C02's    *)
(* correction of the binary difference comes to the same, because a prefix *)
(* of the digits borrows just when the loop does.                          *)
(***************************************************************************)
EXTENDS Accumulator, TLAPS

-----------------------------------------------------------------------------
(* Words.                                                                  *)

Words == {n \in Nat : n <= MASK}

LEMMA Widths ==
    /\ Digits = 2 => MASK = 255 /\ SIGN = 128
    /\ Digits = 4 => MASK = 65535 /\ SIGN = 32768
    /\ Digits = 2 \/ Digits = 4
BY DigitsAssumption DEF MASK, SIGN

\* A sum of two words has a carry and a word.
LEMMA Truncated ==
    ASSUME NEW n \in Int, -MASK - 1 <= n, n <= 2 * MASK + 1
    PROVE  /\ Truncate(n) \in Words
           /\ n < 0 => Truncate(n) = n + MASK + 1
           /\ 0 <= n /\ n <= MASK => Truncate(n) = n
           /\ n > MASK => Truncate(n) = n - MASK - 1
<1>1. CASE Digits = 2
  BY <1>1, Widths DEF Truncate, Words
<1>2. CASE Digits = 4
  BY <1>2, Widths DEF Truncate, Words
<1>3. QED
  BY <1>1, <1>2, Widths

\* The sign bit, also of a number with a carry
LEMMA Signs ==
    ASSUME NEW n \in Int, 0 <= n, n <= 2 * MASK + 1
    PROVE  Negative(n) <=> (SIGN <= n /\ n <= MASK) \/ n >= MASK + 1 + SIGN
<1>1. CASE Digits = 2
  BY <1>1, Widths DEF Negative
<1>2. CASE Digits = 4
  BY <1>2, Widths DEF Negative
<1>3. QED
  BY <1>1, <1>2, Widths

-----------------------------------------------------------------------------
(* Binary mode.                                                            *)

LEMMA AddedOverflow ==
    ASSUME NEW m \in Words, NEW n \in Words, NEW c \in {0, 1}
    PROVE  AddOverflow(m, n, m + n + c) <=> OutOfRange(SignedWord(m) + SignedWord(n) + c)
<1>1. /\ m \in Int /\ 0 <= m /\ m <= MASK /\ n \in Int /\ 0 <= n /\ n <= MASK
      /\ MASK \in Nat /\ SIGN \in Nat /\ MASK + 1 = 2 * SIGN
  BY Widths DEF Words
<1>2. /\ Negative(m) <=> m >= SIGN
      /\ Negative(n) <=> n >= SIGN
  BY <1>1, Signs
<1>3. Negative(m + n + c) <=>
          (SIGN <= m + n + c /\ m + n + c <= MASK) \/ m + n + c >= MASK + 1 + SIGN
  BY <1>1, Signs
<1>4. AddOverflow(m, n, m + n + c)
          <=> (Negative(m) <=> Negative(n)) /\ ~(Negative(m) <=> Negative(m + n + c))
  BY Zenon DEF AddOverflow, Negative
<1>5. QED
  BY <1>1, <1>2, <1>3, <1>4 DEF OutOfRange, SignedWord

LEMMA SubtractedOverflow ==
    ASSUME NEW m \in Words, NEW n \in Words, NEW c \in {0, 1}
    PROVE  SubOverflow(m, n, Truncate(m + (MASK - n) + c))
               <=> OutOfRange(SignedWord(m) - SignedWord(n) - (1 - c))
<1> DEFINE k == m + (MASK - n) + c
           t == Truncate(k)
<1>1. /\ m \in Int /\ 0 <= m /\ m <= MASK /\ n \in Int /\ 0 <= n /\ n <= MASK
      /\ MASK \in Nat /\ SIGN \in Nat /\ MASK + 1 = 2 * SIGN
  BY Widths DEF Words
<1>2. /\ Negative(m) <=> m >= SIGN
      /\ Negative(n) <=> n >= SIGN
  BY <1>1, Signs
<1>3. k \in Int /\ 0 <= k /\ k <= 2 * MASK + 1
  BY <1>1
<1>4. t \in Words /\ (k <= MASK => t = k) /\ (k > MASK => t = k - MASK - 1)
  BY <1>1, <1>3, Truncated
<1> HIDE DEF t
<1>5. Negative(t) <=> t >= SIGN
  BY <1>1, <1>4, Signs DEF Words
<1>6. SubOverflow(m, n, t)
          <=> ~(Negative(m) <=> Negative(n)) /\ ~(Negative(m) <=> Negative(t))
  BY Zenon DEF SubOverflow, Negative
<1>7. SubOverflow(m, n, t) <=> OutOfRange(SignedWord(m) - SignedWord(n) - (1 - c))
  BY <1>1, <1>2, <1>4, <1>5, <1>6 DEF OutOfRange, SignedWord
<1>8. QED
  BY <1>7 DEF t

LEMMA BinaryAdd ==
    ASSUME NEW m \in Words, NEW n \in Words, NEW flags, NEW decimal, Binary(flags, decimal)
    PROVE  LET c == IF "C" \in flags THEN 1 ELSE 0
               sum == Adc(m, n, flags, decimal)
           IN  /\ sum.value + (IF Out("C", sum) THEN MASK + 1 ELSE 0) = m + n + c
               /\ Out("V", sum) <=> OutOfRange(SignedWord(m) + SignedWord(n) + c)
<1> DEFINE c == IF "C" \in flags THEN 1 ELSE 0
           k == m + n + c
<1>1. c \in {0, 1} /\ k \in Int /\ 0 <= k /\ k <= 2 * MASK + 1 /\ MASK \in Nat
  BY Widths DEF Words
<1>2. Adc(m, n, flags, decimal) = WithArithFlags(Truncate(k), k > MASK, AddOverflow(m, n, k))
  BY DEF Adc
<1> HIDE DEF c
<1>3. AddOverflow(m, n, k) <=> OutOfRange(SignedWord(m) + SignedWord(n) + c)
  BY <1>1, AddedOverflow
<1> HIDE DEF k
<1>4. (k <= MASK => Truncate(k) = k) /\ (k > MASK => Truncate(k) = k - MASK - 1)
  BY <1>1, Truncated
<1> DEFINE sum == Adc(m, n, flags, decimal)
<1>5. /\ sum.value = Truncate(k) /\ (Out("C", sum) <=> k > MASK)
      /\ Out("V", sum) <=> AddOverflow(m, n, k)
  BY <1>2 DEF WithArithFlags, WithShiftFlags, Zn, AluResult, Flag, Out
<1> HIDE DEF sum
<1>6. sum.value + (IF Out("C", sum) THEN MASK + 1 ELSE 0) = k
  BY <1>1, <1>4, <1>5
<1>7. Out("V", sum) <=> OutOfRange(SignedWord(m) + SignedWord(n) + c)
  BY <1>3, <1>5
<1>8. QED
  BY <1>6, <1>7 DEF c, k, sum

LEMMA BinarySubtract ==
    ASSUME NEW m \in Words, NEW n \in Words, NEW flags, NEW decimal, Binary(flags, decimal)
    PROVE  LET c == IF "C" \in flags THEN 1 ELSE 0
               difference == Sbc(m, n, flags, decimal)
           IN  /\ difference.value - (IF Out("C", difference) THEN 0 ELSE MASK + 1)
                     = m - n - (1 - c)
               /\ Out("V", difference) <=> OutOfRange(SignedWord(m) - SignedWord(n) - (1 - c))
<1> DEFINE c == IF "C" \in flags THEN 1 ELSE 0
           borrow_in == IF "C" \in flags THEN 0 ELSE 1
           k == m + (MASK - n) + c
           difference == Sbc(m, n, flags, decimal)
<1>1. c \in {0, 1} /\ k \in Int /\ 0 <= k /\ k <= 2 * MASK + 1 /\ MASK \in Nat
  BY Widths DEF Words
<1>2. 1 - borrow_in = c
  OBVIOUS
<1>3. difference = WithArithFlags(Truncate(k), k > MASK, SubOverflow(m, n, Truncate(k)))
  <2>1. difference = WithArithFlags(Truncate(m + (MASK - n) + (1 - borrow_in)),
                                    m + (MASK - n) + (1 - borrow_in) > MASK,
                                    SubOverflow(m, n, Truncate(m + (MASK - n) + (1 - borrow_in))))
    BY Zenon DEF Sbc
  <2>2. QED
    BY <1>2, <2>1, Zenon
<1> HIDE DEF c, borrow_in
<1>4. SubOverflow(m, n, Truncate(k)) <=> OutOfRange(SignedWord(m) - SignedWord(n) - (1 - c))
  BY <1>1, SubtractedOverflow
<1>5. (k <= MASK => Truncate(k) = k) /\ (k > MASK => Truncate(k) = k - MASK - 1)
  <2> HIDE DEF k
  <2>1. QED
    BY <1>1, Truncated
<1>6. /\ difference.value = Truncate(k) /\ (Out("C", difference) <=> k > MASK)
      /\ Out("V", difference) <=> SubOverflow(m, n, Truncate(k))
  BY <1>3 DEF WithArithFlags, WithShiftFlags, Zn, AluResult, Flag, Out
<1> HIDE DEF difference
<1>7. difference.value - (IF Out("C", difference) THEN 0 ELSE MASK + 1) = k - MASK - 1
  <2> HIDE DEF k
  <2>1. QED
    BY <1>1, <1>5, <1>6
<1>8. k - MASK - 1 = m - n - (1 - c)
  BY <1>1 DEF Words
<1>9. QED
  BY <1>4, <1>6, <1>7, <1>8 DEF c, difference

-----------------------------------------------------------------------------
(* Digits.                                                                 *)

\* The digits of a word, and those of a decimal number
Nibble == 0..15
Decimals == 0..9

LEMMA Places == Place(0) = 1 /\ Place(1) = 16 /\ Place(2) = 256 /\ Place(3) = 4096 /\ Place(4) = 65536
BY DEF Place

\* A word is the sum of its digits, and a prefix of it that of the lowest ones.
LEMMA DigitsOf ==
    ASSUME NEW n \in Words
    PROVE  /\ Digit(n, 0) \in Nibble /\ Digit(n, 1) \in Nibble
           /\ Digit(n, 2) \in Nibble /\ Digit(n, 3) \in Nibble
           /\ n % 16 = Digit(n, 0)
           /\ n % 256 = Digit(n, 0) + 16 * Digit(n, 1)
           /\ n % 4096 = Digit(n, 0) + 16 * Digit(n, 1) + 256 * Digit(n, 2)
           /\ n % 65536 = n
           /\ Digits = 2 => n = Digit(n, 0) + 16 * Digit(n, 1)
           /\ n = Digit(n, 0) + 16 * Digit(n, 1) + 256 * Digit(n, 2) + 4096 * Digit(n, 3)
<1>1. n \in Nat /\ n <= 65535 /\ (Digits = 2 => n <= 255)
  BY Widths DEF Words
<1>2. /\ Digit(n, 0) = n % 16 /\ Digit(n, 1) = (n \div 16) % 16
      /\ Digit(n, 2) = (n \div 256) % 16 /\ Digit(n, 3) = (n \div 4096) % 16
  BY <1>1, Places DEF Digit
<1> DEFINE x == n % 16
           y == (n \div 16) % 16
           z == (n \div 256) % 16
           t == (n \div 4096) % 16
<1>3. x \in Nibble /\ y \in Nibble /\ z \in Nibble /\ t \in Nibble
  BY <1>1 DEF Nibble
<1>4. n % 256 = x + 16 * y /\ n % 65536 = n /\ (Digits = 2 => n = x + 16 * y)
  BY <1>1
<1>5. n % 4096 = x + 16 * y + 256 * z
  BY <1>1
<1>6. n = x + 16 * y + 256 * z + 4096 * t
  BY <1>1
<1>7. QED
  BY <1>2, <1>3, <1>4, <1>5, <1>6

\* A word put together from digits has these digits.
Composed(x, y, z, t) == x + 16 * y + 256 * z + 4096 * t

LEMMA DigitsFrom ==
    ASSUME NEW x \in Nibble, NEW y \in Nibble, NEW z \in Nibble, NEW t \in Nibble
    PROVE  /\ Digit(Composed(x, y, z, t), 0) = x /\ Digit(Composed(x, y, z, t), 1) = y
           /\ Digit(Composed(x, y, z, t), 2) = z /\ Digit(Composed(x, y, z, t), 3) = t
<1> DEFINE n == Composed(x, y, z, t)
<1>1. n = x + 16 * y + 256 * z + 4096 * t
  BY DEF Composed
<1>2. n \in Nat /\ n % 16 = x
  BY <1>1 DEF Nibble
<1>3. (n \div 16) % 16 = y
  <2>1. n \div 16 = y + 16 * (z + 16 * t) /\ z + 16 * t \in Nat
    BY <1>1 DEF Nibble
  <2> HIDE DEF n
  <2>2. QED
    BY <2>1 DEF Nibble
<1>4. (n \div 256) % 16 = z
  BY <1>1 DEF Nibble
<1>5. (n \div 4096) % 16 = t
  BY <1>1 DEF Nibble
<1>6. n \div 1 = n
  BY <1>2
<1> HIDE DEF n
<1>7. QED
  BY <1>2, <1>3, <1>4, <1>5, <1>6, Places DEF Digit, n

\* What a turn of the loops makes of two digits and a carry, or a borrow
CarryOut(x, y, c) == IF x + y + c > 9 THEN 1 ELSE 0
SumDigit(x, y, c) == (IF x + y + c > 9 THEN x + y + c + 6 ELSE x + y + c) % 16
BorrowOut(x, y, c) == IF x - y - c < 0 THEN 1 ELSE 0
DifferenceDigit(x, y, c) == (IF x - y - c < 0 THEN x - y - c - 6 ELSE x - y - c) % 16

LEMMA Turns ==
    ASSUME NEW x \in Nibble, NEW y \in Nibble, NEW c \in {0, 1}
    PROVE  /\ CarryOut(x, y, c) \in {0, 1} /\ BorrowOut(x, y, c) \in {0, 1}
           /\ SumDigit(x, y, c) \in Nibble /\ DifferenceDigit(x, y, c) \in Nibble
BY DEF Nibble, CarryOut, BorrowOut, SumDigit, DifferenceDigit

LEMMA DecimalTurns ==
    ASSUME NEW x \in Decimals, NEW y \in Decimals, NEW c \in {0, 1}
    PROVE  /\ CarryOut(x, y, c) \in {0, 1} /\ SumDigit(x, y, c) \in Decimals
           /\ SumDigit(x, y, c) = x + y + c - 10 * CarryOut(x, y, c)
           /\ BorrowOut(x, y, c) \in {0, 1} /\ DifferenceDigit(x, y, c) \in Decimals
           /\ DifferenceDigit(x, y, c) = x - y - c + 10 * BorrowOut(x, y, c)
BY DEF Decimals, CarryOut, SumDigit, BorrowOut, DifferenceDigit

LEMMA AddTurn ==
    ASSUME NEW m, NEW n, NEW acc, NEW digit,
           acc.value \in Int, Place(digit) \in Int,
           Digit(m, digit) \in Nibble, Digit(n, digit) \in Nibble, acc.carry \in {0, 1}
    PROVE  LET turn == AddDigit(m, n, acc, digit)
           IN  /\ turn.value = acc.value
                                  + SumDigit(Digit(m, digit), Digit(n, digit), acc.carry) * Place(digit)
               /\ turn.carry = CarryOut(Digit(m, digit), Digit(n, digit), acc.carry)
               /\ digit = Digits - 1 =>
                     turn.pre_high = acc.value
                         + (Digit(m, digit) + Digit(n, digit) + acc.carry) * Place(digit)
BY DEF Nibble, AddDigit, SumDigit, CarryOut

LEMMA SubTurn ==
    ASSUME NEW m, NEW n, NEW acc, NEW digit,
           acc.value \in Int, Place(digit) \in Int,
           Digit(m, digit) \in Nibble, Digit(n, digit) \in Nibble, acc.carry \in {0, 1}
    PROVE  LET turn == SubDigit(m, n, acc, digit)
           IN  /\ turn.value = acc.value
                      + DifferenceDigit(Digit(m, digit), Digit(n, digit), acc.carry) * Place(digit)
               /\ turn.carry = BorrowOut(Digit(m, digit), Digit(n, digit), acc.carry)
BY DEF Nibble, SubDigit, DifferenceDigit, BorrowOut

\* The loops, digit by digit.  In a loop over bytes the second digit is the top one.
LEMMA AddLoop ==
    ASSUME NEW m \in Words, NEW n \in Words, NEW c \in {0, 1}
    PROVE  LET d0 == SumDigit(Digit(m, 0), Digit(n, 0), c)
               c0 == CarryOut(Digit(m, 0), Digit(n, 0), c)
               d1 == SumDigit(Digit(m, 1), Digit(n, 1), c0)
               c1 == CarryOut(Digit(m, 1), Digit(n, 1), c0)
               d2 == SumDigit(Digit(m, 2), Digit(n, 2), c1)
               c2 == CarryOut(Digit(m, 2), Digit(n, 2), c1)
               d3 == SumDigit(Digit(m, 3), Digit(n, 3), c2)
               c3 == CarryOut(Digit(m, 3), Digit(n, 3), c2)
               loop == AddDigits(m, n, c)
           IN  /\ Digits = 2 =>
                     /\ loop.value = Composed(d0, d1, 0, 0)
                     /\ loop.carry = c1
                     /\ loop.pre_high = d0 + 16 * (Digit(m, 1) + Digit(n, 1) + c0)
               /\ Digits = 4 =>
                     /\ loop.value = Composed(d0, d1, d2, d3)
                     /\ loop.carry = c3
<1> DEFINE d0 == SumDigit(Digit(m, 0), Digit(n, 0), c)
           c0 == CarryOut(Digit(m, 0), Digit(n, 0), c)
           d1 == SumDigit(Digit(m, 1), Digit(n, 1), c0)
           c1 == CarryOut(Digit(m, 1), Digit(n, 1), c0)
           d2 == SumDigit(Digit(m, 2), Digit(n, 2), c1)
           c2 == CarryOut(Digit(m, 2), Digit(n, 2), c1)
           d3 == SumDigit(Digit(m, 3), Digit(n, 3), c2)
           c3 == CarryOut(Digit(m, 3), Digit(n, 3), c2)
           zero == FirstDigit(c)
           one == AddDigit(m, n, zero, 0)
           two == AddDigit(m, n, one, 1)
           three == AddDigit(m, n, two, 2)
           four == AddDigit(m, n, three, 3)
<1>1. /\ Digit(m, 0) \in Nibble /\ Digit(m, 1) \in Nibble /\ Digit(m, 2) \in Nibble /\ Digit(m, 3) \in Nibble
      /\ Digit(n, 0) \in Nibble /\ Digit(n, 1) \in Nibble /\ Digit(n, 2) \in Nibble /\ Digit(n, 3) \in Nibble
  BY DigitsOf
<1>2. zero.value = 0 /\ zero.carry = c
  BY DEF FirstDigit
<1>3. AddDigits(m, n, c) = IF Digits = 2 THEN two ELSE four
  BY DEF AddDigits
<1> HIDE DEF zero
<1>4. /\ d0 \in Nibble /\ c0 \in {0, 1} /\ one.carry = c0
      /\ one.value = 0 + d0 * 1
  <2>1. d0 \in Nibble /\ c0 \in {0, 1}
    BY <1>1, <1>2, Turns
  <2>2. zero.value \in Int /\ zero.carry = c /\ Place(0) = 1
    BY <1>2, Places DEF Nibble
  <2>3. /\ one.carry = c0 /\ one.value = zero.value + d0 * Place(0)
    BY <1>1, <1>2, <2>2, AddTurn
  <2> HIDE DEF one, d0, c0
  <2>4. QED
    BY <1>2, <2>1, <2>2, <2>3 DEF Nibble
<1> HIDE DEF one, d0, c0
<1>5. /\ d1 \in Nibble /\ c1 \in {0, 1} /\ two.carry = c1
      /\ two.value = one.value + d1 * 16
      /\ Digits = 2 =>
            two.pre_high = one.value + (Digit(m, 1) + Digit(n, 1) + c0) * 16
  <2>1. d1 \in Nibble /\ c1 \in {0, 1}
    BY <1>1, <1>4, Turns
  <2>2. one.value \in Int /\ one.carry = c0 /\ Place(1) = 16
    BY <1>4, Places DEF Nibble
  <2>3. /\ two.carry = c1 /\ two.value = one.value + d1 * Place(1)
        /\ Digits = 2 =>
              two.pre_high = one.value + (Digit(m, 1) + Digit(n, 1) + c0) * Place(1)
    BY <1>1, <1>4, <2>2, AddTurn
  <2>4. QED
    BY <2>1, <2>2, <2>3
<1> HIDE DEF two, d1, c1
<1>6. /\ d2 \in Nibble /\ c2 \in {0, 1} /\ three.carry = c2
      /\ three.value = two.value + d2 * 256
  <2>1. d2 \in Nibble /\ c2 \in {0, 1}
    BY <1>1, <1>4, <1>5, Turns
  <2>2. two.value \in Int /\ two.carry = c1 /\ Place(2) = 256
    BY <1>4, <1>5, Places DEF Nibble
  <2>3. /\ three.carry = c2 /\ three.value = two.value + d2 * Place(2)
    BY <1>1, <1>4, <1>5, <2>2, AddTurn
  <2>4. QED
    BY <2>1, <2>2, <2>3
<1> HIDE DEF three, d2, c2
<1>7. /\ d3 \in Nibble /\ c3 \in {0, 1} /\ four.carry = c3
      /\ four.value = three.value + d3 * 4096
  <2>1. d3 \in Nibble /\ c3 \in {0, 1}
    BY <1>1, <1>4, <1>5, <1>6, Turns
  <2>2. three.value \in Int /\ three.carry = c2 /\ Place(3) = 4096
    BY <1>4, <1>5, <1>6, Places DEF Nibble
  <2>3. /\ four.carry = c3 /\ four.value = three.value + d3 * Place(3)
    BY <1>1, <1>4, <1>5, <1>6, <2>2, AddTurn
  <2>4. QED
    BY <2>1, <2>2, <2>3
<1> HIDE DEF four, d3, c3
<1>8. two.value = Composed(d0, d1, 0, 0) /\ four.value = Composed(d0, d1, d2, d3)
  BY ONLY <1>4, <1>5, <1>6, <1>7 DEF Composed, Nibble
<1> DEFINE loop == AddDigits(m, n, c)
<1> HIDE DEF loop
<1>9. Digits = 2 => two.pre_high = d0 + 16 * (Digit(m, 1) + Digit(n, 1) + c0)
  BY <1>1, <1>4, <1>5 DEF Nibble
<1>10. /\ Digits = 2 => loop = two
       /\ Digits = 4 => loop = four
  BY <1>3 DEF loop
<1>11. QED
  BY <1>5, <1>7, <1>8, <1>9, <1>10 DEF loop, d0, c0, d1, c1, d2, c2, d3, c3

LEMMA SubtractLoop ==
    ASSUME NEW m \in Words, NEW n \in Words, NEW c \in {0, 1}
    PROVE  LET d0 == DifferenceDigit(Digit(m, 0), Digit(n, 0), c)
               c0 == BorrowOut(Digit(m, 0), Digit(n, 0), c)
               d1 == DifferenceDigit(Digit(m, 1), Digit(n, 1), c0)
               c1 == BorrowOut(Digit(m, 1), Digit(n, 1), c0)
               d2 == DifferenceDigit(Digit(m, 2), Digit(n, 2), c1)
               c2 == BorrowOut(Digit(m, 2), Digit(n, 2), c1)
               d3 == DifferenceDigit(Digit(m, 3), Digit(n, 3), c2)
               c3 == BorrowOut(Digit(m, 3), Digit(n, 3), c2)
               loop == SubDigits(m, n, c)
           IN  /\ Digits = 2 =>
                     /\ loop.value = Composed(d0, d1, 0, 0)
                     /\ loop.carry = c1
               /\ Digits = 4 =>
                     /\ loop.value = Composed(d0, d1, d2, d3)
                     /\ loop.carry = c3
<1> DEFINE d0 == DifferenceDigit(Digit(m, 0), Digit(n, 0), c)
           c0 == BorrowOut(Digit(m, 0), Digit(n, 0), c)
           d1 == DifferenceDigit(Digit(m, 1), Digit(n, 1), c0)
           c1 == BorrowOut(Digit(m, 1), Digit(n, 1), c0)
           d2 == DifferenceDigit(Digit(m, 2), Digit(n, 2), c1)
           c2 == BorrowOut(Digit(m, 2), Digit(n, 2), c1)
           d3 == DifferenceDigit(Digit(m, 3), Digit(n, 3), c2)
           c3 == BorrowOut(Digit(m, 3), Digit(n, 3), c2)
           zero == FirstDigit(c)
           one == SubDigit(m, n, zero, 0)
           two == SubDigit(m, n, one, 1)
           three == SubDigit(m, n, two, 2)
           four == SubDigit(m, n, three, 3)
<1>1. /\ Digit(m, 0) \in Nibble /\ Digit(m, 1) \in Nibble /\ Digit(m, 2) \in Nibble /\ Digit(m, 3) \in Nibble
      /\ Digit(n, 0) \in Nibble /\ Digit(n, 1) \in Nibble /\ Digit(n, 2) \in Nibble /\ Digit(n, 3) \in Nibble
  BY DigitsOf
<1>2. zero.value = 0 /\ zero.carry = c
  BY DEF FirstDigit
<1>3. SubDigits(m, n, c) = IF Digits = 2 THEN two ELSE four
  BY DEF SubDigits
<1> HIDE DEF zero
<1>4. /\ d0 \in Nibble /\ c0 \in {0, 1} /\ one.carry = c0
      /\ one.value = 0 + d0 * 1
  <2>1. d0 \in Nibble /\ c0 \in {0, 1}
    BY <1>1, <1>2, Turns
  <2>2. zero.value \in Int /\ zero.carry = c /\ Place(0) = 1
    BY <1>2, Places DEF Nibble
  <2>3. /\ one.carry = c0 /\ one.value = zero.value + d0 * Place(0)
    BY <1>1, <1>2, <2>2, SubTurn
  <2> HIDE DEF one, d0, c0
  <2>4. QED
    BY <1>2, <2>1, <2>2, <2>3 DEF Nibble
<1> HIDE DEF one, d0, c0
<1>5. /\ d1 \in Nibble /\ c1 \in {0, 1} /\ two.carry = c1
      /\ two.value = one.value + d1 * 16
  <2>1. d1 \in Nibble /\ c1 \in {0, 1}
    BY <1>1, <1>4, Turns
  <2>2. one.value \in Int /\ one.carry = c0 /\ Place(1) = 16
    BY <1>4, Places DEF Nibble
  <2>3. /\ two.carry = c1 /\ two.value = one.value + d1 * Place(1)
    BY <1>1, <1>4, <2>2, SubTurn
  <2>4. QED
    BY <2>1, <2>2, <2>3
<1> HIDE DEF two, d1, c1
<1>6. /\ d2 \in Nibble /\ c2 \in {0, 1} /\ three.carry = c2
      /\ three.value = two.value + d2 * 256
  <2>1. d2 \in Nibble /\ c2 \in {0, 1}
    BY <1>1, <1>4, <1>5, Turns
  <2>2. two.value \in Int /\ two.carry = c1 /\ Place(2) = 256
    BY <1>4, <1>5, Places DEF Nibble
  <2>3. /\ three.carry = c2 /\ three.value = two.value + d2 * Place(2)
    BY <1>1, <1>4, <1>5, <2>2, SubTurn
  <2>4. QED
    BY <2>1, <2>2, <2>3
<1> HIDE DEF three, d2, c2
<1>7. /\ d3 \in Nibble /\ c3 \in {0, 1} /\ four.carry = c3
      /\ four.value = three.value + d3 * 4096
  <2>1. d3 \in Nibble /\ c3 \in {0, 1}
    BY <1>1, <1>4, <1>5, <1>6, Turns
  <2>2. three.value \in Int /\ three.carry = c2 /\ Place(3) = 4096
    BY <1>4, <1>5, <1>6, Places DEF Nibble
  <2>3. /\ four.carry = c3 /\ four.value = three.value + d3 * Place(3)
    BY <1>1, <1>4, <1>5, <1>6, <2>2, SubTurn
  <2>4. QED
    BY <2>1, <2>2, <2>3
<1> HIDE DEF four, d3, c3
<1>8. two.value = Composed(d0, d1, 0, 0) /\ four.value = Composed(d0, d1, d2, d3)
  BY ONLY <1>4, <1>5, <1>6, <1>7 DEF Composed, Nibble
<1> DEFINE loop == SubDigits(m, n, c)
<1> HIDE DEF loop
<1>9. /\ Digits = 2 => loop = two
      /\ Digits = 4 => loop = four
  BY <1>3 DEF loop
<1>10. QED
  BY <1>1, <1>4, <1>5, <1>7, <1>8, <1>9 DEF loop, d0, c0, d1, c1, d2, c2, d3, c3

-----------------------------------------------------------------------------
(* Decimal operands.                                                       *)

LEMMA DecimalDigits ==
    ASSUME NEW n \in Words, IsBcd(n)
    PROVE  /\ Digit(n, 0) \in Decimals /\ Digit(n, 1) \in Decimals
           /\ Digits = 4 => Digit(n, 2) \in Decimals /\ Digit(n, 3) \in Decimals
           /\ Digits = 2 => Decimal(n) = Digit(n, 0) + 10 * Digit(n, 1) + 0
           /\ Digits = 4 => Decimal(n) = Digit(n, 0) + 10 * Digit(n, 1)
                                         + (100 * Digit(n, 2) + 1000 * Digit(n, 3))
<1>1. /\ Digit(n, 0) \in Nibble /\ Digit(n, 1) \in Nibble
      /\ Digit(n, 2) \in Nibble /\ Digit(n, 3) \in Nibble
  BY DigitsOf
<1>2. /\ Digit(n, 0) < 10 /\ Digit(n, 1) < 10
      /\ Digits = 4 => Digit(n, 2) < 10 /\ Digit(n, 3) < 10
  BY Widths DEF IsBcd
<1>3. QED
  BY <1>1, <1>2 DEF Decimal, Nibble, Decimals

LEMMA DecimalComposed ==
    ASSUME NEW x \in Nibble, NEW y \in Nibble, NEW z \in Nibble, NEW t \in Nibble,
           x <= 9, y <= 9, z <= 9, t <= 9
    PROVE  /\ Digits = 2 => /\ IsBcd(Composed(x, y, z, t))
                            /\ Decimal(Composed(x, y, z, t)) = x + 10 * y + 0
           /\ Digits = 4 => /\ IsBcd(Composed(x, y, z, t))
                            /\ Decimal(Composed(x, y, z, t)) = x + 10 * y + (100 * z + 1000 * t)
<1> DEFINE n == Composed(x, y, z, t)
<1>1. Digit(n, 0) = x /\ Digit(n, 1) = y /\ Digit(n, 2) = z /\ Digit(n, 3) = t
  BY DigitsFrom
<1> HIDE DEF n
<1>2. (Digits = 2 \/ Digits = 4) => IsBcd(n)
  <2>1. ASSUME Digits = 2 \/ Digits = 4, NEW d \in 0..(Digits - 1) PROVE d \in {0, 1, 2, 3}
    BY <2>1
  <2>2. QED
    BY <1>1, <2>1 DEF IsBcd, Nibble
<1>3. /\ Digits = 2 => Decimal(n) = x + 10 * y + 0
      /\ Digits = 4 => Decimal(n) = x + 10 * y + (100 * z + 1000 * t)
  BY <1>1 DEF Decimal
<1>4. QED
  BY <1>2, <1>3 DEF n

LEMMA DecimalAdd ==
    ASSUME NEW m \in Words, NEW n \in Words, NEW c \in {0, 1}, IsBcd(m), IsBcd(n)
    PROVE  LET loop == AddDigits(m, n, c)
           IN  /\ IsBcd(loop.value)
               /\ loop.carry \in {0, 1}
               /\ Decimal(loop.value) + DecimalCarry * loop.carry = Decimal(m) + Decimal(n) + c
<1> DEFINE d0 == SumDigit(Digit(m, 0), Digit(n, 0), c)
           c0 == CarryOut(Digit(m, 0), Digit(n, 0), c)
           d1 == SumDigit(Digit(m, 1), Digit(n, 1), c0)
           c1 == CarryOut(Digit(m, 1), Digit(n, 1), c0)
           d2 == SumDigit(Digit(m, 2), Digit(n, 2), c1)
           c2 == CarryOut(Digit(m, 2), Digit(n, 2), c1)
           d3 == SumDigit(Digit(m, 3), Digit(n, 3), c2)
           c3 == CarryOut(Digit(m, 3), Digit(n, 3), c2)
           loop == AddDigits(m, n, c)
<1>1. /\ Digit(m, 0) \in Decimals /\ Digit(m, 1) \in Decimals
      /\ Digit(n, 0) \in Decimals /\ Digit(n, 1) \in Decimals
      /\ Digits = 4 => /\ Digit(m, 2) \in Decimals /\ Digit(m, 3) \in Decimals
                       /\ Digit(n, 2) \in Decimals /\ Digit(n, 3) \in Decimals
  BY DecimalDigits
<1>2. /\ Digits = 2 => loop.value = Composed(d0, d1, 0, 0) /\ loop.carry = c1
      /\ Digits = 4 => loop.value = Composed(d0, d1, d2, d3) /\ loop.carry = c3
  BY AddLoop
<1> HIDE DEF loop
<1>3. c0 \in {0, 1} /\ d0 \in Decimals
  BY <1>1, DecimalTurns
<1>4. d0 = Digit(m, 0) + Digit(n, 0) + c - 10 * c0
  BY <1>1, DecimalTurns
<1> HIDE DEF d0, c0
<1>5. c1 \in {0, 1} /\ d1 \in Decimals
  BY <1>1, <1>3, DecimalTurns
<1>6. d1 = Digit(m, 1) + Digit(n, 1) + c0 - 10 * c1
  BY <1>1, <1>3, DecimalTurns
<1> HIDE DEF d1, c1
<1>7. /\ Digit(m, 0) \in Int /\ Digit(m, 1) \in Int /\ Digit(n, 0) \in Int /\ Digit(n, 1) \in Int
      /\ c \in Int /\ d0 \in Int /\ c0 \in Int /\ d1 \in Int /\ c1 \in Int
  BY <1>1, <1>3, <1>5 DEF Decimals
<1>8. CASE Digits = 2
  <2>1. IsBcd(loop.value) /\ Decimal(loop.value) = d0 + 10 * d1 + 0
    <3>1. d0 \in Nibble /\ d1 \in Nibble /\ 0 \in Nibble /\ d0 <= 9 /\ d1 <= 9 /\ 0 <= 9
      BY <1>3, <1>5 DEF Nibble, Decimals
    <3>2. QED
      BY <1>2, <1>8, <3>1, DecimalComposed
  <2>2. /\ Decimal(m) = Digit(m, 0) + 10 * Digit(m, 1) + 0
        /\ Decimal(n) = Digit(n, 0) + 10 * Digit(n, 1) + 0
    BY <1>8, DecimalDigits
  <2>3. DecimalCarry = 100 /\ loop.carry = c1
    BY <1>2, <1>8 DEF DecimalCarry
  <2>4. Decimal(loop.value) + 100 * c1 = Decimal(m) + Decimal(n) + c
    BY ONLY <1>4, <1>6, <1>7, <2>1, <2>2
  <2>5. QED
    BY <1>5, <2>1, <2>3, <2>4 DEF loop
<1>9. CASE Digits = 4
  <2>1. c2 \in {0, 1} /\ d2 \in Decimals
    BY <1>1, <1>5, <1>9, DecimalTurns
  <2>2. d2 = Digit(m, 2) + Digit(n, 2) + c1 - 10 * c2
    BY <1>1, <1>5, <1>9, DecimalTurns
  <2> HIDE DEF d2, c2
  <2>3. c3 \in {0, 1} /\ d3 \in Decimals
    BY <1>1, <1>9, <2>1, DecimalTurns
  <2>4. d3 = Digit(m, 3) + Digit(n, 3) + c2 - 10 * c3
    BY <1>1, <1>9, <2>1, DecimalTurns
  <2> HIDE DEF d3, c3
  <2>5. /\ Digit(m, 2) \in Int /\ Digit(m, 3) \in Int /\ Digit(n, 2) \in Int /\ Digit(n, 3) \in Int
        /\ d2 \in Int /\ c2 \in Int /\ d3 \in Int /\ c3 \in Int
    BY <1>1, <1>9, <2>1, <2>3 DEF Decimals
  <2>6. IsBcd(loop.value) /\ Decimal(loop.value) = d0 + 10 * d1 + (100 * d2 + 1000 * d3)
    <3>1. /\ d0 \in Nibble /\ d1 \in Nibble /\ d2 \in Nibble /\ d3 \in Nibble
          /\ d0 <= 9 /\ d1 <= 9 /\ d2 <= 9 /\ d3 <= 9
      BY <1>3, <1>5, <2>1, <2>3 DEF Nibble, Decimals
    <3>2. QED
      BY <1>2, <1>9, <3>1, DecimalComposed
  <2>7. /\ Decimal(m) = Digit(m, 0) + 10 * Digit(m, 1) + (100 * Digit(m, 2) + 1000 * Digit(m, 3))
        /\ Decimal(n) = Digit(n, 0) + 10 * Digit(n, 1) + (100 * Digit(n, 2) + 1000 * Digit(n, 3))
    BY <1>9, DecimalDigits
  <2>8. DecimalCarry = 10000 /\ loop.carry = c3
    BY <1>2, <1>9 DEF DecimalCarry
  <2>9. Decimal(loop.value) + 10000 * c3 = Decimal(m) + Decimal(n) + c
    BY ONLY <1>4, <1>6, <1>7, <2>2, <2>4, <2>5, <2>6, <2>7
  <2>10. QED
    BY <2>3, <2>6, <2>8, <2>9 DEF loop
<1>10. QED
  BY <1>8, <1>9, Widths

LEMMA DecimalSubtract ==
    ASSUME NEW m \in Words, NEW n \in Words, NEW c \in {0, 1}, IsBcd(m), IsBcd(n)
    PROVE  LET loop == SubDigits(m, n, c)
           IN  /\ IsBcd(loop.value)
               /\ loop.carry \in {0, 1}
               /\ Decimal(loop.value) - DecimalCarry * loop.carry = Decimal(m) - Decimal(n) - c
<1> DEFINE d0 == DifferenceDigit(Digit(m, 0), Digit(n, 0), c)
           c0 == BorrowOut(Digit(m, 0), Digit(n, 0), c)
           d1 == DifferenceDigit(Digit(m, 1), Digit(n, 1), c0)
           c1 == BorrowOut(Digit(m, 1), Digit(n, 1), c0)
           d2 == DifferenceDigit(Digit(m, 2), Digit(n, 2), c1)
           c2 == BorrowOut(Digit(m, 2), Digit(n, 2), c1)
           d3 == DifferenceDigit(Digit(m, 3), Digit(n, 3), c2)
           c3 == BorrowOut(Digit(m, 3), Digit(n, 3), c2)
           loop == SubDigits(m, n, c)
<1>1. /\ Digit(m, 0) \in Decimals /\ Digit(m, 1) \in Decimals
      /\ Digit(n, 0) \in Decimals /\ Digit(n, 1) \in Decimals
      /\ Digits = 4 => /\ Digit(m, 2) \in Decimals /\ Digit(m, 3) \in Decimals
                       /\ Digit(n, 2) \in Decimals /\ Digit(n, 3) \in Decimals
  BY DecimalDigits
<1>2. /\ Digits = 2 => loop.value = Composed(d0, d1, 0, 0) /\ loop.carry = c1
      /\ Digits = 4 => loop.value = Composed(d0, d1, d2, d3) /\ loop.carry = c3
  BY SubtractLoop
<1> HIDE DEF loop
<1>3. c0 \in {0, 1} /\ d0 \in Decimals
  BY <1>1, DecimalTurns
<1>4. d0 = Digit(m, 0) - Digit(n, 0) - c + 10 * c0
  BY <1>1, DecimalTurns
<1> HIDE DEF d0, c0
<1>5. c1 \in {0, 1} /\ d1 \in Decimals
  BY <1>1, <1>3, DecimalTurns
<1>6. d1 = Digit(m, 1) - Digit(n, 1) - c0 + 10 * c1
  BY <1>1, <1>3, DecimalTurns
<1> HIDE DEF d1, c1
<1>7. /\ Digit(m, 0) \in Int /\ Digit(m, 1) \in Int /\ Digit(n, 0) \in Int /\ Digit(n, 1) \in Int
      /\ c \in Int /\ d0 \in Int /\ c0 \in Int /\ d1 \in Int /\ c1 \in Int
  BY <1>1, <1>3, <1>5 DEF Decimals
<1>8. CASE Digits = 2
  <2>1. IsBcd(loop.value) /\ Decimal(loop.value) = d0 + 10 * d1 + 0
    <3>1. d0 \in Nibble /\ d1 \in Nibble /\ 0 \in Nibble /\ d0 <= 9 /\ d1 <= 9 /\ 0 <= 9
      BY <1>3, <1>5 DEF Nibble, Decimals
    <3>2. QED
      BY <1>2, <1>8, <3>1, DecimalComposed
  <2>2. /\ Decimal(m) = Digit(m, 0) + 10 * Digit(m, 1) + 0
        /\ Decimal(n) = Digit(n, 0) + 10 * Digit(n, 1) + 0
    BY <1>8, DecimalDigits
  <2>3. DecimalCarry = 100 /\ loop.carry = c1
    BY <1>2, <1>8 DEF DecimalCarry
  <2>4. Decimal(loop.value) - 100 * c1 = Decimal(m) - Decimal(n) - c
    BY ONLY <1>4, <1>6, <1>7, <2>1, <2>2
  <2>5. QED
    BY <1>5, <2>1, <2>3, <2>4 DEF loop
<1>9. CASE Digits = 4
  <2>1. c2 \in {0, 1} /\ d2 \in Decimals
    BY <1>1, <1>5, <1>9, DecimalTurns
  <2>2. d2 = Digit(m, 2) - Digit(n, 2) - c1 + 10 * c2
    BY <1>1, <1>5, <1>9, DecimalTurns
  <2> HIDE DEF d2, c2
  <2>3. c3 \in {0, 1} /\ d3 \in Decimals
    BY <1>1, <1>9, <2>1, DecimalTurns
  <2>4. d3 = Digit(m, 3) - Digit(n, 3) - c2 + 10 * c3
    BY <1>1, <1>9, <2>1, DecimalTurns
  <2> HIDE DEF d3, c3
  <2>5. /\ Digit(m, 2) \in Int /\ Digit(m, 3) \in Int /\ Digit(n, 2) \in Int /\ Digit(n, 3) \in Int
        /\ d2 \in Int /\ c2 \in Int /\ d3 \in Int /\ c3 \in Int
    BY <1>1, <1>9, <2>1, <2>3 DEF Decimals
  <2>6. IsBcd(loop.value) /\ Decimal(loop.value) = d0 + 10 * d1 + (100 * d2 + 1000 * d3)
    <3>1. /\ d0 \in Nibble /\ d1 \in Nibble /\ d2 \in Nibble /\ d3 \in Nibble
          /\ d0 <= 9 /\ d1 <= 9 /\ d2 <= 9 /\ d3 <= 9
      BY <1>3, <1>5, <2>1, <2>3 DEF Nibble, Decimals
    <3>2. QED
      BY <1>2, <1>9, <3>1, DecimalComposed
  <2>7. /\ Decimal(m) = Digit(m, 0) + 10 * Digit(m, 1) + (100 * Digit(m, 2) + 1000 * Digit(m, 3))
        /\ Decimal(n) = Digit(n, 0) + 10 * Digit(n, 1) + (100 * Digit(n, 2) + 1000 * Digit(n, 3))
    BY <1>9, DecimalDigits
  <2>8. DecimalCarry = 10000 /\ loop.carry = c3
    BY <1>2, <1>9 DEF DecimalCarry
  <2>9. Decimal(loop.value) - 10000 * c3 = Decimal(m) - Decimal(n) - c
    BY ONLY <1>4, <1>6, <1>7, <2>2, <2>4, <2>5, <2>6, <2>7
  <2>10. QED
    BY <2>3, <2>6, <2>8, <2>9 DEF loop
<1>10. QED
  BY <1>8, <1>9, Widths

-----------------------------------------------------------------------------
(* The 65C02 corrects the binary difference instead.                       *)

\* A digit borrows just if the difference up to it is negative.
LEMMA BorrowStep ==
    ASSUME NEW w \in {16, 256, 4096}, NEW d \in Int, -w <= d, d < w,
           NEW x \in Nibble, NEW y \in Nibble, NEW b \in {0, 1}, b = 1 <=> d < 0
    PROVE  /\ BorrowOut(x, y, b) = 1 <=> d + w * (x - y) < 0
           /\ -16 * w <= d + w * (x - y) /\ d + w * (x - y) < 16 * w
<1>1. x - y \in Int /\ -15 <= x - y /\ x - y <= 15 /\ x - y - b \in Int
  BY DEF Nibble
<1>2. BorrowOut(x, y, b) = 1 <=> x - y - b < 0
  BY DEF BorrowOut
<1> DEFINE e == x - y
<1> HIDE DEF e
<1>3. e \in Int /\ -15 <= e /\ e <= 15 /\ (BorrowOut(x, y, b) = 1 <=> e - b < 0)
  BY <1>1, <1>2 DEF e
<1>4. /\ e - b < 0 <=> d + w * e < 0
      /\ -16 * w <= d + w * e /\ d + w * e < 16 * w
  <2>1. CASE w = 16
    BY <1>3, <2>1
  <2>2. CASE w = 256
    BY <1>3, <2>2
  <2>3. CASE w = 4096
    BY <1>3, <2>3
  <2>4. QED
    BY <2>1, <2>2, <2>3
<1>5. QED
  BY <1>3, <1>4 DEF e

LEMMA Borrows ==
    ASSUME NEW m \in Words, NEW n \in Words, NEW c \in {0, 1}
    PROVE  LET b0 == BorrowOut(Digit(m, 0), Digit(n, 0), c)
               b1 == BorrowOut(Digit(m, 1), Digit(n, 1), b0)
               b2 == BorrowOut(Digit(m, 2), Digit(n, 2), b1)
               b3 == BorrowOut(Digit(m, 3), Digit(n, 3), b2)
           IN  /\ b0 \in {0, 1} /\ b1 \in {0, 1} /\ b2 \in {0, 1} /\ b3 \in {0, 1}
               /\ b0 = 1 <=> (m % 16) - (n % 16) - c < 0
               /\ b1 = 1 <=> (m % 256) - (n % 256) - c < 0
               /\ b2 = 1 <=> (m % 4096) - (n % 4096) - c < 0
               /\ b3 = 1 <=> (m % 65536) - (n % 65536) - c < 0
<1> DEFINE b0 == BorrowOut(Digit(m, 0), Digit(n, 0), c)
           b1 == BorrowOut(Digit(m, 1), Digit(n, 1), b0)
           b2 == BorrowOut(Digit(m, 2), Digit(n, 2), b1)
           b3 == BorrowOut(Digit(m, 3), Digit(n, 3), b2)
           e0 == (m % 16) - (n % 16) - c
           e1 == (m % 256) - (n % 256) - c
           e2 == (m % 4096) - (n % 4096) - c
           e3 == (m % 65536) - (n % 65536) - c
<1>1. /\ Digit(m, 0) \in Nibble /\ Digit(m, 1) \in Nibble
      /\ Digit(m, 2) \in Nibble /\ Digit(m, 3) \in Nibble
      /\ Digit(n, 0) \in Nibble /\ Digit(n, 1) \in Nibble
      /\ Digit(n, 2) \in Nibble /\ Digit(n, 3) \in Nibble
  BY DigitsOf
<1>2. /\ e0 = Digit(m, 0) - Digit(n, 0) - c
      /\ e1 = e0 + 16 * (Digit(m, 1) - Digit(n, 1))
      /\ e2 = e1 + 256 * (Digit(m, 2) - Digit(n, 2))
      /\ e3 = e2 + 4096 * (Digit(m, 3) - Digit(n, 3))
  <2>1. /\ m % 16 = Digit(m, 0) /\ m % 256 = Digit(m, 0) + 16 * Digit(m, 1)
        /\ m % 4096 = Digit(m, 0) + 16 * Digit(m, 1) + 256 * Digit(m, 2)
        /\ m % 65536 = Digit(m, 0) + 16 * Digit(m, 1) + 256 * Digit(m, 2) + 4096 * Digit(m, 3)
    BY DigitsOf
  <2>2. /\ n % 16 = Digit(n, 0) /\ n % 256 = Digit(n, 0) + 16 * Digit(n, 1)
        /\ n % 4096 = Digit(n, 0) + 16 * Digit(n, 1) + 256 * Digit(n, 2)
        /\ n % 65536 = Digit(n, 0) + 16 * Digit(n, 1) + 256 * Digit(n, 2) + 4096 * Digit(n, 3)
    BY DigitsOf
  <2>3. /\ Digit(m, 0) \in Int /\ Digit(m, 1) \in Int /\ Digit(m, 2) \in Int /\ Digit(m, 3) \in Int
        /\ Digit(n, 0) \in Int /\ Digit(n, 1) \in Int /\ Digit(n, 2) \in Int /\ Digit(n, 3) \in Int
        /\ c \in Int
    BY <1>1 DEF Nibble
  <2>4. QED
    BY ONLY <2>1, <2>2, <2>3
<1> HIDE DEF e0, e1, e2, e3
<1>3. e0 \in Int /\ -16 <= e0 /\ e0 < 16 /\ b0 \in {0, 1} /\ (b0 = 1 <=> e0 < 0)
  <2>1. b0 \in {0, 1} /\ (b0 = 1 <=> Digit(m, 0) - Digit(n, 0) - c < 0)
    BY DEF BorrowOut
  <2>2. /\ Digit(m, 0) - Digit(n, 0) - c \in Int
        /\ -16 <= Digit(m, 0) - Digit(n, 0) - c /\ Digit(m, 0) - Digit(n, 0) - c < 16
    BY <1>1 DEF Nibble
  <2>3. QED
    BY <1>2, <2>1, <2>2
<1> HIDE DEF b0
<1>4. e1 \in Int /\ -256 <= e1 /\ e1 < 256 /\ b1 \in {0, 1} /\ (b1 = 1 <=> e1 < 0)
  <2>1. b1 \in {0, 1}
    BY ZenonT(40), <1>1, <1>3, Turns
  <2>2. e1 \in Int
    BY ONLY <1>1, <1>2, <1>3 DEF Nibble
  <2>3. /\ b1 = 1 <=> e0 + 16 * (Digit(m, 1) - Digit(n, 1)) < 0
        /\ -16 * 16 <= e0 + 16 * (Digit(m, 1) - Digit(n, 1))
        /\ e0 + 16 * (Digit(m, 1) - Digit(n, 1)) < 16 * 16
    BY <1>1, <1>3, BorrowStep
  <2>4. QED
    BY <1>2, <2>1, <2>2, <2>3
<1> HIDE DEF b1
<1>5. e2 \in Int /\ -4096 <= e2 /\ e2 < 4096 /\ b2 \in {0, 1} /\ (b2 = 1 <=> e2 < 0)
  <2>1. b2 \in {0, 1}
    BY ZenonT(40), <1>1, <1>4, Turns
  <2>2. e2 \in Int
    BY ONLY <1>1, <1>2, <1>4 DEF Nibble
  <2>3. /\ b2 = 1 <=> e1 + 256 * (Digit(m, 2) - Digit(n, 2)) < 0
        /\ -16 * 256 <= e1 + 256 * (Digit(m, 2) - Digit(n, 2))
        /\ e1 + 256 * (Digit(m, 2) - Digit(n, 2)) < 16 * 256
    BY <1>1, <1>4, BorrowStep
  <2>4. QED
    BY <1>2, <2>1, <2>2, <2>3
<1> HIDE DEF b2
<1>6. b3 \in {0, 1} /\ (b3 = 1 <=> e3 < 0)
  <2>1. b3 \in {0, 1}
    BY <1>1, <1>5, Turns
  <2>2. b3 = 1 <=> e2 + 4096 * (Digit(m, 3) - Digit(n, 3)) < 0
    BY <1>1, <1>5, BorrowStep
  <2>3. QED
    BY <1>2, <2>1, <2>2
<1>7. QED
  BY <1>3, <1>4, <1>5, <1>6 DEF b0, b1, b2, b3, e0, e1, e2, e3

\* The loop borrows just if the binary subtraction does.
LEMMA LoopBorrow ==
    ASSUME NEW m \in Words, NEW n \in Words, NEW c \in {0, 1}
    PROVE  SubDigits(m, n, c).carry = IF m - n - c < 0 THEN 1 ELSE 0
<1> DEFINE b0 == BorrowOut(Digit(m, 0), Digit(n, 0), c)
           b1 == BorrowOut(Digit(m, 1), Digit(n, 1), b0)
           b2 == BorrowOut(Digit(m, 2), Digit(n, 2), b1)
           b3 == BorrowOut(Digit(m, 3), Digit(n, 3), b2)
<1>1. /\ Digits = 2 => SubDigits(m, n, c).carry = b1
      /\ Digits = 4 => SubDigits(m, n, c).carry = b3
  BY SubtractLoop
<1>2. /\ b1 \in {0, 1} /\ (b1 = 1 <=> (m % 256) - (n % 256) - c < 0)
      /\ b3 \in {0, 1} /\ (b3 = 1 <=> (m % 65536) - (n % 65536) - c < 0)
  BY Borrows
<1> HIDE DEF b1, b3
<1>3. /\ Digits = 2 => m % 256 = m /\ n % 256 = n
      /\ m % 65536 = m /\ n % 65536 = n
  BY Widths DEF Words
<1>4. QED
  BY <1>1, <1>2, <1>3, Widths

LEMMA CmosDecimal ==
    ASSUME NEW m \in Words, NEW n \in Words, NEW c \in {0, 1}, IsBcd(m), IsBcd(n)
    PROVE  CmosCorrection(m, n, c, Truncate(m + (MASK - n) + (1 - c))) = SubDigits(m, n, c).value
<1> DEFINE d0 == DifferenceDigit(Digit(m, 0), Digit(n, 0), c)
           b0 == BorrowOut(Digit(m, 0), Digit(n, 0), c)
           d1 == DifferenceDigit(Digit(m, 1), Digit(n, 1), b0)
           b1 == BorrowOut(Digit(m, 1), Digit(n, 1), b0)
           d2 == DifferenceDigit(Digit(m, 2), Digit(n, 2), b1)
           b2 == BorrowOut(Digit(m, 2), Digit(n, 2), b1)
           d3 == DifferenceDigit(Digit(m, 3), Digit(n, 3), b2)
           b3 == BorrowOut(Digit(m, 3), Digit(n, 3), b2)
           binary == Truncate(m + (MASK - n) + (1 - c))
           value == SubDigits(m, n, c).value
           fix(d) == IF d < Digits /\ (m % Place(d + 1)) - (n % Place(d + 1)) - c < 0
                     THEN 6 * Place(d) ELSE 0
<1>1. /\ Digit(m, 0) \in Decimals /\ Digit(m, 1) \in Decimals
      /\ Digit(n, 0) \in Decimals /\ Digit(n, 1) \in Decimals
      /\ Digits = 4 => /\ Digit(m, 2) \in Decimals /\ Digit(m, 3) \in Decimals
                       /\ Digit(n, 2) \in Decimals /\ Digit(n, 3) \in Decimals
  BY DecimalDigits
<1>2. /\ Digits = 2 => value = Composed(d0, d1, 0, 0)
      /\ Digits = 4 => value = Composed(d0, d1, d2, d3)
  BY SubtractLoop
<1>3. b0 \in {0, 1} /\ b1 \in {0, 1} /\ b2 \in {0, 1} /\ b3 \in {0, 1}
  BY Borrows
<1>4. /\ b0 \in {0, 1} /\ b1 \in {0, 1} /\ b2 \in {0, 1} /\ b3 \in {0, 1}
      /\ b0 = 1 <=> (m % 16) - (n % 16) - c < 0
      /\ b1 = 1 <=> (m % 256) - (n % 256) - c < 0
      /\ b2 = 1 <=> (m % 4096) - (n % 4096) - c < 0
      /\ b3 = 1 <=> (m % 65536) - (n % 65536) - c < 0
  BY Borrows
<1>5. CmosCorrection(m, n, c, binary) = Truncate(binary - fix(0) - fix(1) - fix(2) - fix(3))
  BY DEF CmosCorrection
<1> HIDE DEF value, binary
<1>6. d0 \in Decimals
  BY <1>1, DecimalTurns
<1>7. d0 = Digit(m, 0) - Digit(n, 0) - c + 10 * b0
  BY <1>1, DecimalTurns
<1> HIDE DEF d0, b0
<1>8. d1 \in Decimals
  BY <1>1, <1>4, DecimalTurns
<1>9. d1 = Digit(m, 1) - Digit(n, 1) - b0 + 10 * b1
  BY <1>1, <1>4, DecimalTurns
<1> HIDE DEF d1, b1
<1>10. Digits = 4 => d2 \in Decimals
  BY <1>1, <1>4, DecimalTurns
<1>11. Digits = 4 => d2 = Digit(m, 2) - Digit(n, 2) - b1 + 10 * b2
  BY <1>1, <1>4, DecimalTurns
<1> HIDE DEF d2, b2
<1>12. Digits = 4 => d3 \in Decimals
  BY <1>1, <1>4, DecimalTurns
<1>13. Digits = 4 => d3 = Digit(m, 3) - Digit(n, 3) - b2 + 10 * b3
  BY <1>1, <1>4, DecimalTurns
<1> HIDE DEF d3, b3
<1>14. /\ 0 + 1 = 1 /\ 1 + 1 = 2 /\ 2 + 1 = 3 /\ 3 + 1 = 4
      /\ Place(0) = 1 /\ Place(1) = 16 /\ Place(2) = 256 /\ Place(3) = 4096 /\ Place(4) = 65536
  BY Places
<1>15. /\ m \in Int /\ n \in Int /\ 0 <= m /\ m <= MASK /\ 0 <= n /\ n <= MASK /\ MASK \in Nat
       /\ c \in {0, 1}
       /\ Digits = 2 => MASK = 255 /\ m % 256 = m /\ n % 256 = n
       /\ Digits = 4 => MASK = 65535 /\ m % 65536 = m /\ n % 65536 = n
  BY Widths DEF Words
<1>16. binary = m - n - c + (IF m - n - c < 0 THEN MASK + 1 ELSE 0)
  <2> DEFINE k == m + (MASK - n) + (1 - c)
  <2>1. k \in Int /\ 0 <= k /\ k <= 2 * MASK + 1 /\ k = m - n - c + MASK + 1
    BY <1>15
  <2> HIDE DEF k
  <2>2. (k <= MASK => Truncate(k) = k) /\ (k > MASK => Truncate(k) = k - MASK - 1)
    BY <1>15, <2>1, Truncated
  <2>3. binary = Truncate(k)
    BY DEF binary, k
  <2>4. QED
    BY <1>15, <2>1, <2>2, <2>3
<1>17. CASE Digits = 2
  <2>1. fix(0) = 6 * b0 /\ fix(1) = 96 * b1 /\ fix(2) = 0 /\ fix(3) = 0
    BY <1>4, <1>14, <1>17
  <2> HIDE DEF fix
  <2>2. binary = m - n - c + 256 * b1
    BY <1>4, <1>15, <1>16, <1>17
  <2>3. m = Digit(m, 0) + 16 * Digit(m, 1) /\ n = Digit(n, 0) + 16 * Digit(n, 1)
    BY <1>17, DigitsOf
  <2>4. /\ Digit(m, 0) \in Int /\ Digit(m, 1) \in Int /\ Digit(n, 0) \in Int /\ Digit(n, 1) \in Int
        /\ c \in Int /\ d0 \in Int /\ b0 \in Int /\ d1 \in Int /\ b1 \in Int
    BY <1>1, <1>3, <1>6, <1>8 DEF Decimals
  <2>5. binary - fix(0) - fix(1) - fix(2) - fix(3) = d0 + 16 * d1
    BY ONLY <1>7, <1>9, <2>1, <2>2, <2>3, <2>4
  <2>6. value = d0 + 16 * d1
    BY <1>2, <1>17, <2>4 DEF Composed
  <2>7. value \in Int /\ 0 <= value /\ value <= 255
    BY ONLY <1>6, <1>8, <2>6 DEF Decimals
  <2>8. Truncate(value) = value
    BY <1>15, <1>17, <2>7, Truncated
  <2>9. QED
    BY <1>5, <2>5, <2>6, <2>8 DEF value, binary
<1>18. CASE Digits = 4
  <2>1. fix(0) = 6 * b0 /\ fix(1) = 96 * b1 /\ fix(2) = 1536 * b2 /\ fix(3) = 24576 * b3
    BY <1>4, <1>14, <1>18
  <2> HIDE DEF fix
  <2>2. binary = m - n - c + 65536 * b3
    BY <1>4, <1>15, <1>16, <1>18
  <2>3. /\ m = Digit(m, 0) + 16 * Digit(m, 1) + 256 * Digit(m, 2) + 4096 * Digit(m, 3)
        /\ n = Digit(n, 0) + 16 * Digit(n, 1) + 256 * Digit(n, 2) + 4096 * Digit(n, 3)
    BY DigitsOf
  <2>4. /\ Digit(m, 0) \in Int /\ Digit(m, 1) \in Int /\ Digit(n, 0) \in Int /\ Digit(n, 1) \in Int
        /\ Digit(m, 2) \in Int /\ Digit(m, 3) \in Int /\ Digit(n, 2) \in Int /\ Digit(n, 3) \in Int
        /\ c \in Int /\ d0 \in Int /\ b0 \in Int /\ d1 \in Int /\ b1 \in Int
        /\ d2 \in Int /\ b2 \in Int /\ d3 \in Int /\ b3 \in Int
    BY <1>1, <1>3, <1>6, <1>8, <1>10, <1>12, <1>18 DEF Decimals
  <2>5. /\ d2 = Digit(m, 2) - Digit(n, 2) - b1 + 10 * b2
        /\ d3 = Digit(m, 3) - Digit(n, 3) - b2 + 10 * b3
    BY <1>11, <1>13, <1>18
  <2>6. binary - fix(0) - fix(1) - fix(2) - fix(3) = d0 + 16 * d1 + 256 * d2 + 4096 * d3
    BY ONLY <1>7, <1>9, <2>1, <2>2, <2>3, <2>4, <2>5
  <2>7. value = d0 + 16 * d1 + 256 * d2 + 4096 * d3
    BY <1>2, <1>18, <2>4 DEF Composed
  <2>8. value \in Int /\ 0 <= value /\ value <= 65535
    BY ONLY <1>6, <1>8, <1>10, <1>12, <1>18, <2>7 DEF Decimals
  <2>9. Truncate(value) = value
    BY <1>15, <1>18, <2>8, Truncated
  <2>10. QED
    BY <1>5, <2>6, <2>7, <2>9 DEF value, binary
<1>19. QED
  BY <1>17, <1>18, Widths

-----------------------------------------------------------------------------
(* Decimal mode.                                                           *)

LEMMA AdcInDecimal ==
    ASSUME NEW m \in Words, NEW n \in Words, NEW flags, NEW decimal, ~Binary(flags, decimal)
    PROVE  LET c == IF "C" \in flags THEN 1 ELSE 0
               loop == AddDigits(m, n, c)
               sum == Adc(m, n, flags, decimal)
           IN  /\ sum.value = loop.value
               /\ sum.flags \subseteq {"N", "Z", "C", "V"}
               /\ Out("C", sum) <=> loop.carry # 0
               /\ Out("V", sum) <=> AddOverflow(m, n, loop.pre_high)
               /\ decimal = "Nmos6502" => /\ Out("N", sum) <=> Negative(loop.pre_high)
                                          /\ Out("Z", sum) <=> Truncate(m + n + c) = 0
               /\ decimal # "Nmos6502" => /\ Out("N", sum) <=> Negative(loop.value)
                                          /\ Out("Z", sum) <=> loop.value = 0
<1> DEFINE c == IF "C" \in flags THEN 1 ELSE 0
           loop == AddDigits(m, n, c)
           sum == Adc(m, n, flags, decimal)
           result == WithArithFlags(loop.value, loop.carry # 0, AddOverflow(m, n, loop.pre_high))
<1>1. sum = IF decimal = "Nmos6502"
            THEN [result EXCEPT !.flags =
                     (@ \ {"Z", "N"}) \cup Flag("Z", Truncate(m + n + c) = 0)
                                      \cup Flag("N", Negative(loop.pre_high))]
            ELSE result
  BY Zenon DEF Adc
<1> HIDE DEF c, loop, sum
<1>2. /\ result.value = loop.value
      /\ result.flags = Flag("N", Negative(loop.value)) \cup Flag("Z", loop.value = 0)
                        \cup Flag("C", loop.carry # 0)
                        \cup Flag("V", AddOverflow(m, n, loop.pre_high))
  BY Zenon DEF WithArithFlags, WithShiftFlags, Zn, AluResult
<1>3. result \in [value : {result.value}, flags : {result.flags}, flag_mask : {result.flag_mask}]
  BY Zenon DEF WithArithFlags, AluResult
<1> HIDE DEF result
<1>4. CASE decimal = "Nmos6502"
  <2>1. /\ sum.value = loop.value
        /\ sum.flags = (result.flags \ {"Z", "N"}) \cup Flag("Z", Truncate(m + n + c) = 0)
                                                   \cup Flag("N", Negative(loop.pre_high))
    BY <1>1, <1>2, <1>3, <1>4
  <2>2. QED
    BY <1>2, <1>4, <2>1 DEF Out, Flag, c, loop, sum
<1>5. CASE decimal # "Nmos6502"
  BY <1>1, <1>2, <1>5 DEF Out, Flag, c, loop, sum
<1>6. QED
  BY <1>4, <1>5

LEMMA SbcInDecimal ==
    ASSUME NEW m \in Words, NEW n \in Words, NEW flags, NEW decimal, ~Binary(flags, decimal)
    PROVE  LET borrow == IF "C" \in flags THEN 0 ELSE 1
               loop == SubDigits(m, n, borrow)
               binary == Truncate(m + (MASK - n) + (1 - borrow))
               difference == Sbc(m, n, flags, decimal)
           IN  /\ difference.flags \subseteq {"N", "Z", "C", "V"}
               /\ Out("C", difference) <=> m - n - borrow >= 0
               /\ decimal = "Cmos65C02" =>
                     /\ difference.value = CmosCorrection(m, n, borrow, binary)
                     /\ Out("N", difference) <=> Negative(difference.value)
                     /\ Out("Z", difference) <=> difference.value = 0
               /\ decimal # "Cmos65C02" => difference.value = loop.value
               /\ decimal = "Nmos6502" => /\ Out("N", difference) <=> Negative(binary)
                                          /\ Out("Z", difference) <=> binary = 0
               /\ decimal \in {"Cmos65C02", "Nmos6502"} =>
                     (Out("V", difference) <=> SubOverflow(m, n, binary))
<1> DEFINE borrow == IF "C" \in flags THEN 0 ELSE 1
           loop == SubDigits(m, n, borrow)
           k == m + (MASK - n) + (1 - borrow)
           binary == Truncate(k)
           difference == Sbc(m, n, flags, decimal)
           byBinary == WithArithFlags(binary, k > MASK, SubOverflow(m, n, binary))
           cmos == WithArithFlags(CmosCorrection(m, n, borrow, binary), k > MASK,
                                  SubOverflow(m, n, binary))
           others == WithArithFlags(loop.value, loop.carry = 0, SubOverflow(m, n, loop.pre_high))
<1>1. borrow \in {0, 1} /\ (loop.carry = 0 <=> m - n - borrow >= 0) /\ (k > MASK <=> m - n - borrow >= 0)
  <2>1. borrow \in {0, 1}
    OBVIOUS
  <2> HIDE DEF borrow
  <2>2. m \in Int /\ n \in Int /\ MASK \in Int
    BY Widths DEF Words
  <2>3. loop.carry = IF m - n - borrow < 0 THEN 1 ELSE 0
    BY <2>1, LoopBorrow
  <2> HIDE DEF loop
  <2>4. QED
    BY <2>1, <2>2, <2>3
<1>2. /\ decimal = "Cmos65C02" => difference = cmos
      /\ decimal = "Nmos6502" => difference = [byBinary EXCEPT !.value = loop.value]
      /\ decimal \notin {"Cmos65C02", "Nmos6502"} => difference = others
  <2>1. ("Cmos65C02" = "Nmos6502") = FALSE
    OBVIOUS
  <2>2. QED
    BY <2>1, Zenon DEF Sbc
<1> HIDE DEF borrow, loop, k, binary, difference
<1>3. /\ cmos.value = CmosCorrection(m, n, borrow, binary)
      /\ cmos.flags = Flag("N", Negative(cmos.value)) \cup Flag("Z", cmos.value = 0)
                      \cup Flag("C", k > MASK) \cup Flag("V", SubOverflow(m, n, binary))
  BY Zenon DEF WithArithFlags, WithShiftFlags, Zn, AluResult
<1>4. /\ byBinary.flags = Flag("N", Negative(binary)) \cup Flag("Z", binary = 0)
                          \cup Flag("C", k > MASK) \cup Flag("V", SubOverflow(m, n, binary))
      /\ byBinary \in [value : {byBinary.value}, flags : {byBinary.flags},
                       flag_mask : {byBinary.flag_mask}]
  BY Zenon DEF WithArithFlags, WithShiftFlags, Zn, AluResult
<1>5. /\ others.value = loop.value
      /\ others.flags = Flag("N", Negative(loop.value)) \cup Flag("Z", loop.value = 0)
                        \cup Flag("C", loop.carry = 0)
                        \cup Flag("V", SubOverflow(m, n, loop.pre_high))
  BY Zenon DEF WithArithFlags, WithShiftFlags, Zn, AluResult
<1> HIDE DEF cmos, byBinary, others
<1>6. CASE decimal = "Cmos65C02"
  BY <1>1, <1>2, <1>3, <1>6 DEF Out, Flag, borrow, loop, k, binary, difference
<1>7. CASE decimal = "Nmos6502"
  <2>1. difference.value = loop.value /\ difference.flags = byBinary.flags
    BY <1>2, <1>4, <1>7
  <2>2. QED
    BY <1>1, <1>4, <1>7, <2>1 DEF Out, Flag, borrow, loop, k, binary, difference
<1>8. CASE decimal \notin {"Cmos65C02", "Nmos6502"}
  BY <1>1, <1>2, <1>5, <1>8 DEF Out, Flag, borrow, loop, k, binary, difference
<1>9. QED
  BY <1>6, <1>7, <1>8

\* A state of the accumulator: all the arithmetic asks of it is that it is a word.
Typed ==
    /\ semantics \in Semantics
    /\ a \in Words
    /\ p \subseteq {"C", "D"}

\* The accumulator always holds a word, as wide as the operand type.
THEOREM AccumulatorTyped == Spec => []Typed
<1>1. Operands \subseteq Words
  BY OperandsAssumption, Widths DEF Words
<1>2. Init => Typed
  BY <1>1 DEF Init, Typed
<1>3. Typed /\ [Next]_vars => Typed'
  <2> SUFFICES ASSUME Typed, [Next]_vars PROVE Typed'
    OBVIOUS
  <2>1. CASE \E b \in Operands : AddOperand(b) \/ SubtractOperand(b)
    <3>1. PICK result : Accumulate(result)
      BY <2>1, Zenon DEF AddOperand, SubtractOperand
    <3>2. a' \in Words /\ p' \subseteq {"C", "D"} /\ semantics' = semantics
      BY <1>1, <3>1 DEF Accumulate
    <3>3. QED
      BY <3>2 DEF Typed
  <2>2. CASE SetFlags
    BY <2>2 DEF SetFlags, Typed
  <2>3. CASE UNCHANGED vars
    BY <2>3 DEF vars, Typed
  <2>4. QED
    BY <2>1, <2>2, <2>3 DEF Next
<1>4. QED
  BY <1>2, <1>3, PTL DEF Spec

\* In binary mode, for both widths and any operand: the value and the carry of adc and sbc are
\* the sum and the difference, and V is set exactly when the signed result does not fit.
THEOREM AluBinary == Spec => []BinaryArithmetic
<1>1. Typed => BinaryArithmetic
  <2> SUFFICES ASSUME Typed, Binary(p, semantics), NEW b \in Operands
               PROVE  LET sum == Adc(a, b, p, semantics)
                          difference == Sbc(a, b, p, semantics)
                      IN  /\ sum.value + (IF Out("C", sum) THEN MASK + 1 ELSE 0) = a + b + Carry
                          /\ Out("V", sum) <=> OutOfRange(SignedWord(a) + SignedWord(b) + Carry)
                          /\ difference.value - (IF Out("C", difference) THEN 0 ELSE MASK + 1)
                                = a - b - Borrow
                          /\ Out("V", difference)
                                <=> OutOfRange(SignedWord(a) - SignedWord(b) - Borrow)
    BY Zenon DEF BinaryArithmetic
  <2>1. a \in Words /\ b \in Words
    BY OperandsAssumption, Widths DEF Typed, Words
  <2>2. QED
    BY <2>1, BinaryAdd, BinarySubtract DEF Carry, Borrow
<1>2. QED
  BY <1>1, AccumulatorTyped, PTL

\* In decimal mode, on decimal operands, for both widths: every flavor computes the decimal
\* sum and difference with a decimal carry, whichever way its code corrects the digits.
THEOREM AluDecimal == Spec => []DecimalArithmetic
<1>1. Typed => DecimalArithmetic
  <2> SUFFICES ASSUME Typed, ~Binary(p, semantics), IsBcd(a), NEW b \in Operands, IsBcd(b)
               PROVE  LET sum == Adc(a, b, p, semantics)
                          difference == Sbc(a, b, p, semantics)
                      IN  /\ IsBcd(sum.value) /\ IsBcd(difference.value)
                          /\ Decimal(sum.value) + (IF Out("C", sum) THEN DecimalCarry ELSE 0)
                                = Decimal(a) + Decimal(b) + Carry
                          /\ Decimal(difference.value)
                                - (IF Out("C", difference) THEN 0 ELSE DecimalCarry)
                                = Decimal(a) - Decimal(b) - Borrow
    BY Zenon DEF DecimalArithmetic
  <2> DEFINE sum == Adc(a, b, p, semantics)
             difference == Sbc(a, b, p, semantics)
             added == AddDigits(a, b, Carry)
             subtracted == SubDigits(a, b, Borrow)
  <2>1. /\ a \in Words /\ b \in Words /\ Carry \in {0, 1} /\ Borrow \in {0, 1}
        /\ Borrow = IF "C" \in p THEN 0 ELSE 1
        /\ DecimalCarry \in Nat
    BY OperandsAssumption, Widths DEF Typed, Words, Carry, Borrow, DecimalCarry
  <2>2. sum.value = added.value /\ (Out("C", sum) <=> added.carry # 0)
    BY <2>1, AdcInDecimal DEF Carry
  <2>3. /\ IsBcd(added.value) /\ added.carry \in {0, 1}
        /\ Decimal(added.value) + DecimalCarry * added.carry = Decimal(a) + Decimal(b) + Carry
    BY <2>1, DecimalAdd
  <2>4. /\ Out("C", difference) <=> a - b - Borrow >= 0
        /\ difference.value = subtracted.value
    <3> DEFINE binary == Truncate(a + (MASK - b) + (1 - Borrow))
    <3>1. /\ Out("C", difference) <=> a - b - Borrow >= 0
          /\ semantics = "Cmos65C02" => difference.value = CmosCorrection(a, b, Borrow, binary)
          /\ semantics # "Cmos65C02" => difference.value = subtracted.value
      BY <2>1, SbcInDecimal
    <3>2. CmosCorrection(a, b, Borrow, binary) = subtracted.value
      BY <2>1, CmosDecimal
    <3>3. QED
      BY <3>1, <3>2, Zenon
  <2>5. /\ IsBcd(subtracted.value) /\ subtracted.carry \in {0, 1}
        /\ Decimal(subtracted.value) - DecimalCarry * subtracted.carry
              = Decimal(a) - Decimal(b) - Borrow
    BY <2>1, DecimalSubtract
  <2>6. subtracted.carry = IF a - b - Borrow < 0 THEN 1 ELSE 0
    BY <2>1, LoopBorrow
  <2>7. IsBcd(sum.value) /\ IsBcd(difference.value)
    BY <2>2, <2>3, <2>4, <2>5, Zenon
  <2> HIDE DEF sum, difference, added, subtracted
  <2>8. DecimalCarry * added.carry = (IF Out("C", sum) THEN DecimalCarry ELSE 0)
    BY <2>1, <2>2, <2>3
  <2>9. DecimalCarry * subtracted.carry = (IF Out("C", difference) THEN 0 ELSE DecimalCarry)
    BY <2>1, <2>4, <2>5, <2>6 DEF Words
  <2>10. QED
    BY <2>2, <2>3, <2>4, <2>5, <2>7, <2>8, <2>9 DEF sum, difference
<1>2. QED
  BY <1>1, AccumulatorTyped, PTL

-----------------------------------------------------------------------------
(* Decimal mode on a byte, as it is published for the chips.               *)

LEMMA Halves ==
    ASSUME Digits = 2, NEW n \in Words
    PROVE  /\ Digit(n, 0) \in Nibble /\ Digit(n, 1) \in Nibble
           /\ n = Digit(n, 0) + 16 * Digit(n, 1)
           /\ LowHalf(n) = Digit(n, 0) /\ HighHalf(n) = 16 * Digit(n, 1)
           /\ Negative(n) <=> Digit(n, 1) >= 8
           /\ SignedWord(HighHalf(n)) = 16 * Digit(n, 1) - (IF Digit(n, 1) >= 8 THEN 256 ELSE 0)
<1>1. /\ Digit(n, 0) \in Nibble /\ Digit(n, 1) \in Nibble
      /\ n = Digit(n, 0) + 16 * Digit(n, 1) /\ n % 16 = Digit(n, 0)
  BY DigitsOf
<1>2. LowHalf(n) = Digit(n, 0) /\ HighHalf(n) = 16 * Digit(n, 1)
  BY <1>1 DEF LowHalf, HighHalf, Nibble
<1>3. MASK = 255 /\ SIGN = 128
  BY Widths
<1>4. Negative(n) <=> Digit(n, 1) >= 8
  <2>1. n \in Int /\ 0 <= n /\ n <= 255
    BY <1>3 DEF Words
  <2>2. Negative(n) <=> n >= 128
    BY <1>3, <2>1, Signs
  <2>3. QED
    BY <1>1, <2>2 DEF Nibble
<1>5. QED
  BY <1>1, <1>2, <1>3, <1>4 DEF SignedWord, Nibble

LEMMA ChipAddition ==
    ASSUME Digits = 2, NEW m \in Words, NEW n \in Words, NEW c \in {0, 1}
    PROVE  LET low == LowHalf(m) + LowHalf(n) + c
               fixedLow == IF low >= 10 THEN ((low + 6) % 16) + 16 ELSE low
               high == HighHalf(m) + HighHalf(n) + fixedLow
               signed == SignedWord(HighHalf(m)) + SignedWord(HighHalf(n)) + fixedLow
               loop == AddDigits(m, n, c)
           IN  /\ loop.pre_high = high
               /\ loop.carry # 0 <=> high >= 160
               /\ loop.value = (IF high >= 160 THEN high + 96 ELSE high) % 256
               /\ loop.value \in Words
               /\ AddOverflow(m, n, high) <=> OutOfRange(signed)
<1> DEFINE low == LowHalf(m) + LowHalf(n) + c
           fixedLow == IF low >= 10 THEN ((low + 6) % 16) + 16 ELSE low
           high == HighHalf(m) + HighHalf(n) + fixedLow
           signed == SignedWord(HighHalf(m)) + SignedWord(HighHalf(n)) + fixedLow
           loop == AddDigits(m, n, c)
           x == Digit(m, 1)
           y == Digit(n, 1)
           d0 == SumDigit(Digit(m, 0), Digit(n, 0), c)
           c0 == CarryOut(Digit(m, 0), Digit(n, 0), c)
           d1 == SumDigit(x, y, c0)
           c1 == CarryOut(x, y, c0)
<1>1. MASK = 255 /\ SIGN = 128
  BY Widths
<1>2. /\ Digit(m, 0) \in Nibble /\ x \in Nibble /\ LowHalf(m) = Digit(m, 0)
      /\ HighHalf(m) = 16 * x /\ (Negative(m) <=> x >= 8)
      /\ SignedWord(HighHalf(m)) = 16 * x - (IF x >= 8 THEN 256 ELSE 0)
  BY Halves
<1>3. /\ Digit(n, 0) \in Nibble /\ y \in Nibble /\ LowHalf(n) = Digit(n, 0)
      /\ HighHalf(n) = 16 * y /\ (Negative(n) <=> y >= 8)
      /\ SignedWord(HighHalf(n)) = 16 * y - (IF y >= 8 THEN 256 ELSE 0)
  BY Halves
<1>4. /\ loop.value = Composed(d0, d1, 0, 0) /\ loop.carry = c1
      /\ loop.pre_high = d0 + 16 * (x + y + c0)
  BY AddLoop
<1>5. d0 \in Nibble /\ c0 \in {0, 1}
  BY <1>2, <1>3, Turns
<1>6. fixedLow = d0 + 16 * c0
  BY <1>2, <1>3 DEF SumDigit, CarryOut, Nibble
<1>7. d1 \in Nibble /\ c1 \in {0, 1}
  BY <1>2, <1>3, <1>5, Turns
<1>8. /\ c1 = IF x + y + c0 > 9 THEN 1 ELSE 0
      /\ d1 = (IF x + y + c0 > 9 THEN x + y + c0 + 6 ELSE x + y + c0) % 16
  BY DEF SumDigit, CarryOut
<1> HIDE DEF loop, fixedLow, x, y, d0, c0, d1, c1
<1>9. /\ x \in Int /\ 0 <= x /\ x <= 15 /\ y \in Int /\ 0 <= y /\ y <= 15
      /\ d0 \in Int /\ 0 <= d0 /\ d0 <= 15 /\ d1 \in Int /\ 0 <= d1 /\ d1 <= 15
  BY <1>2, <1>3, <1>5, <1>7 DEF Nibble
<1>10. high = d0 + 16 * (x + y + c0)
  BY <1>2, <1>3, <1>5, <1>6, <1>9
<1>11. signed = d0 + 16 * (x + y + c0) - (IF x >= 8 THEN 256 ELSE 0) - (IF y >= 8 THEN 256 ELSE 0)
  BY <1>2, <1>3, <1>5, <1>6, <1>9
<1> HIDE DEF high, signed
<1>12. high \in Int /\ 0 <= high /\ high <= 511
  BY <1>5, <1>9, <1>10
<1>13. loop.carry # 0 <=> high >= 160
  BY <1>4, <1>5, <1>8, <1>9, <1>10
<1>14. loop.value = d0 + 16 * d1
  BY <1>4, <1>9 DEF Composed
<1>15. d0 + 16 * d1 = (IF high >= 160 THEN high + 96 ELSE high) % 256
  <2> DEFINE s == x + y + c0
  <2>1. s \in Int /\ 0 <= s /\ s <= 31
    BY <1>5, <1>9
  <2>2. d1 = (IF s > 9 THEN s + 6 ELSE s) % 16 /\ high = d0 + 16 * s
    BY <1>8, <1>10
  <2> HIDE DEF s
  <2>3. CASE s <= 9
    BY <1>9, <2>1, <2>2, <2>3
  <2>4. CASE s > 9 /\ s < 26
    <3>1. d1 = s + 6 - 16 \/ d1 = s + 6
      BY <2>1, <2>2, <2>4
    <3>2. QED
      BY <1>9, <2>1, <2>2, <2>4, <3>1
  <2>5. CASE s >= 26
    BY <1>9, <2>1, <2>2, <2>5
  <2>6. QED
    BY <2>1, <2>3, <2>4, <2>5
<1>16. Negative(high) <=> (128 <= high /\ high <= 255) \/ high >= 384
  BY <1>1, <1>12, Signs
<1>17. AddOverflow(m, n, high) <=> OutOfRange(signed)
  <2>1. AddOverflow(m, n, high)
            <=> (Negative(m) <=> Negative(n)) /\ ~(Negative(m) <=> Negative(high))
    BY Zenon DEF AddOverflow, Negative
  <2>2. QED
    BY <1>1, <1>2, <1>3, <1>5, <1>9, <1>10, <1>11, <1>16, <2>1 DEF OutOfRange
<1>18. loop.pre_high = high /\ loop.value \in Words
  BY <1>1, <1>4, <1>9, <1>10, <1>14 DEF Words
<1>19. QED
  BY <1>13, <1>14, <1>15, <1>17, <1>18 DEF loop, high, signed, fixedLow

\* The decimal difference of the NMOS 6502, and that of the 65C02
NmosDifference(m, n, c) ==
    LET low == LowHalf(m) - LowHalf(n) - c
        high == HighHalf(m) - HighHalf(n) + (IF low < 0 THEN ((low - 6) % 16) - 16 ELSE low)
    IN  (IF high < 0 THEN high - 96 ELSE high) % 256
CmosDifference(m, n, c) ==
    LET low == LowHalf(m) - LowHalf(n) - c
        binary == m - n - c
    IN  (binary - (IF binary < 0 THEN 96 ELSE 0) - (IF low < 0 THEN 6 ELSE 0)) % 256

LEMMA ChipSubtraction ==
    ASSUME Digits = 2, NEW m \in Words, NEW n \in Words, NEW c \in {0, 1}
    PROVE  LET truncated == Truncate(m + (MASK - n) + (1 - c))
           IN  /\ SubDigits(m, n, c).value = NmosDifference(m, n, c)
               /\ CmosCorrection(m, n, c, truncated) = CmosDifference(m, n, c)
               /\ truncated = (m - n - c) % 256
               /\ NmosDifference(m, n, c) \in Words /\ CmosDifference(m, n, c) \in Words
               /\ (m - n - c) % 256 \in Words
<1> DEFINE low == LowHalf(m) - LowHalf(n) - c
           fixedLow == IF low < 0 THEN ((low - 6) % 16) - 16 ELSE low
           high == HighHalf(m) - HighHalf(n) + fixedLow
           binary == m - n - c
           cmos == binary - (IF binary < 0 THEN 96 ELSE 0) - (IF low < 0 THEN 6 ELSE 0)
           k == m + (MASK - n) + (1 - c)
           truncated == Truncate(k)
           loop == SubDigits(m, n, c)
           x == Digit(m, 1)
           y == Digit(n, 1)
           d0 == DifferenceDigit(Digit(m, 0), Digit(n, 0), c)
           b0 == BorrowOut(Digit(m, 0), Digit(n, 0), c)
           d1 == DifferenceDigit(x, y, b0)
           fix(d) == IF d < Digits /\ (m % Place(d + 1)) - (n % Place(d + 1)) - c < 0
                     THEN 6 * Place(d) ELSE 0
<1>1. MASK = 255 /\ SIGN = 128 /\ m \in Int /\ 0 <= m /\ m <= 255 /\ n \in Int /\ 0 <= n /\ n <= 255
  BY Widths DEF Words
<1>2. /\ Digit(m, 0) \in Nibble /\ x \in Nibble /\ LowHalf(m) = Digit(m, 0)
      /\ HighHalf(m) = 16 * x
  BY Halves
<1>3. /\ Digit(n, 0) \in Nibble /\ y \in Nibble /\ LowHalf(n) = Digit(n, 0)
      /\ HighHalf(n) = 16 * y
  BY Halves
<1>4. loop.value = Composed(d0, d1, 0, 0)
  BY SubtractLoop
<1>5. d0 \in Nibble /\ b0 \in {0, 1}
  BY <1>2, <1>3, Turns
<1>6. fixedLow = d0 - 16 * b0
  BY <1>2, <1>3 DEF DifferenceDigit, BorrowOut, Nibble
<1>7. d1 \in Nibble
  BY <1>2, <1>3, <1>5, Turns
<1>8. d1 = (IF x - y - b0 < 0 THEN x - y - b0 - 6 ELSE x - y - b0) % 16
  BY DEF DifferenceDigit
<1>9. /\ fix(0) = (IF low < 0 THEN 6 ELSE 0) /\ fix(1) = (IF binary < 0 THEN 96 ELSE 0)
      /\ fix(2) = 0 /\ fix(3) = 0
  <2>1. /\ 0 + 1 = 1 /\ 1 + 1 = 2 /\ 2 + 1 = 3 /\ 3 + 1 = 4
        /\ Place(0) = 1 /\ Place(1) = 16 /\ Place(2) = 256
    BY Places
  <2>2. m % 16 = LowHalf(m) /\ n % 16 = LowHalf(n) /\ m % 256 = m /\ n % 256 = n
    BY <1>1 DEF LowHalf
  <2>3. QED
    BY <2>1, <2>2
<1>10. CmosCorrection(m, n, c, truncated) = Truncate(truncated - fix(0) - fix(1) - fix(2) - fix(3))
  BY DEF CmosCorrection
<1>11. low \in Int
  BY <1>2, <1>3 DEF Nibble
<1> HIDE DEF loop, low, fixedLow, x, y, d0, b0, d1, fix
<1>12. /\ x \in Int /\ 0 <= x /\ x <= 15 /\ y \in Int /\ 0 <= y /\ y <= 15
       /\ d0 \in Int /\ 0 <= d0 /\ d0 <= 15 /\ d1 \in Int /\ 0 <= d1 /\ d1 <= 15
  BY <1>2, <1>3, <1>5, <1>7 DEF Nibble
<1>13. high = d0 + 16 * (x - y - b0)
  BY <1>2, <1>3, <1>5, <1>6, <1>12
<1> HIDE DEF high
<1>14. loop.value = d0 + 16 * d1
  BY <1>4, <1>12 DEF Composed
<1>15. d0 + 16 * d1 = (IF high < 0 THEN high - 96 ELSE high) % 256
  <2> DEFINE s == x - y - b0
  <2>1. s \in Int /\ -16 <= s /\ s <= 15
    BY <1>5, <1>12
  <2>2. d1 = (IF s < 0 THEN s - 6 ELSE s) % 16 /\ high = d0 + 16 * s
    BY <1>8, <1>13
  <2> HIDE DEF s
  <2>3. CASE s >= 0
    BY <1>12, <2>1, <2>2, <2>3
  <2>4. CASE s < 0 /\ s >= -10
    BY <1>12, <2>1, <2>2, <2>4
  <2>5. CASE s < -10
    BY <1>12, <2>1, <2>2, <2>5
  <2>6. QED
    BY <2>1, <2>3, <2>4, <2>5
<1>16. truncated = binary + (IF binary < 0 THEN 256 ELSE 0)
  <2>1. k \in Int /\ 0 <= k /\ k <= 2 * MASK + 1 /\ k = binary + MASK + 1 /\ binary \in Int
    BY <1>1
  <2> HIDE DEF k, binary
  <2>2. (k <= MASK => Truncate(k) = k) /\ (k > MASK => Truncate(k) = k - MASK - 1)
    BY <1>1, <2>1, Truncated
  <2>3. QED
    BY <1>1, <2>1, <2>2
<1>17. binary \in Int /\ -256 <= binary /\ binary <= 255
  BY <1>1
<1> HIDE DEF truncated, binary
<1>18. truncated = binary % 256
  BY <1>16, <1>17
<1>19. CmosCorrection(m, n, c, truncated) = cmos % 256
  <2> DEFINE f == IF low < 0 THEN 6 ELSE 0
             g == IF binary < 0 THEN 96 ELSE 0
  <2>1. f \in Int /\ g \in Int /\ cmos = binary - g - f
    OBVIOUS
  <2>2. CmosCorrection(m, n, c, truncated) = (truncated - f - g - 0 - 0) % 256
    BY <1>1, <1>9, <1>10 DEF Truncate
  <2>3. truncated - f - g - 0 - 0 = cmos \/ truncated - f - g - 0 - 0 = cmos + 256
    BY <1>16, <1>17
  <2>4. cmos \in Int
    BY <1>17, <2>1
  <2> HIDE DEF f, g, cmos
  <2>5. cmos % 256 = (cmos + 256) % 256
    BY <2>4
  <2>6. QED
    BY <2>2, <2>3, <2>5
<1>20. loop.value \in Words /\ binary % 256 \in Words /\ cmos % 256 \in Words
  <2>1. cmos \in Int
    BY <1>17
  <2> HIDE DEF cmos
  <2>2. QED
    BY <1>1, <1>12, <1>14, <1>17, <2>1 DEF Words
<1>21. /\ NmosDifference(m, n, c) = (IF high < 0 THEN high - 96 ELSE high) % 256
       /\ CmosDifference(m, n, c) = cmos % 256
  BY Zenon DEF NmosDifference, CmosDifference, high, fixedLow, low, binary
<1> HIDE DEF cmos
<1>22. loop.value = NmosDifference(m, n, c) /\ NmosDifference(m, n, c) \in Words
  BY <1>14, <1>15, <1>20, <1>21, Zenon
<1>23. CmosCorrection(m, n, c, truncated) = CmosDifference(m, n, c) /\ CmosDifference(m, n, c) \in Words
  BY <1>19, <1>20, <1>21, SMT
<1>24. QED
  BY <1>18, <1>20, <1>22, <1>23, Zenon DEF loop, truncated, binary

\* Decimal mode on any two bytes, decimal or not: the code's loop over digits computes the
\* value and the flags of the published formulas of the NMOS 6502 and the 65C02.
THEOREM AluOfTheChips == ASSUME Digits = 2 PROVE Spec => []DecimalModeOfTheChips
<1>1. ASSUME Typed, ~Binary(p, semantics), semantics # "Wdc65C816", NEW b \in Operands
      PROVE  LET sum == Adc(a, b, p, semantics)
             IN  sum.value = ChipAdc(b).value /\ sum.flags = ChipAdc(b).flags
  <2> DEFINE low == LowHalf(a) + LowHalf(b) + Carry
             fixedLow == IF low >= 10 THEN ((low + 6) % 16) + 16 ELSE low
             high == HighHalf(a) + HighHalf(b) + fixedLow
             signed == SignedWord(HighHalf(a)) + SignedWord(HighHalf(b)) + fixedLow
             value == (IF high >= 160 THEN high + 96 ELSE high) % 256
             nz == IF semantics = "Nmos6502"
                   THEN Flag("N", (high \div 128) % 2 = 1)
                        \cup Flag("Z", (a + b + Carry) % 256 = 0)
                   ELSE Flag("N", value >= 128) \cup Flag("Z", value = 0)
             loop == AddDigits(a, b, Carry)
             sum == Adc(a, b, p, semantics)
  <2>1. a \in Words /\ b \in Words /\ Carry \in {0, 1} /\ MASK = 255 /\ SIGN = 128
    BY <1>1, OperandsAssumption, Widths DEF Typed, Words, Carry
  <2>2. /\ ChipAdc(b).value = value
        /\ ChipAdc(b).flags = nz \cup Flag("C", high >= 160) \cup Flag("V", OutOfRange(signed))
    BY Zenon DEF ChipAdc
  <2>3. /\ loop.pre_high = high /\ (loop.carry # 0 <=> high >= 160)
        /\ loop.value = value /\ loop.value \in Words
        /\ AddOverflow(a, b, high) <=> OutOfRange(signed)
    BY <2>1, ChipAddition
  <2>4. /\ sum.value = loop.value
        /\ sum.flags \subseteq {"N", "Z", "C", "V"}
        /\ Out("C", sum) <=> loop.carry # 0
        /\ Out("V", sum) <=> AddOverflow(a, b, loop.pre_high)
        /\ semantics = "Nmos6502" => /\ Out("N", sum) <=> Negative(loop.pre_high)
                                     /\ Out("Z", sum) <=> Truncate(a + b + Carry) = 0
        /\ semantics # "Nmos6502" => /\ Out("N", sum) <=> Negative(loop.value)
                                     /\ Out("Z", sum) <=> loop.value = 0
    BY <1>1, <2>1, AdcInDecimal DEF Carry
  <2> HIDE DEF high, signed, value, loop, sum
  <2>5. Negative(value) <=> value >= 128
    <3>1. value \in Int /\ 0 <= value /\ value <= 255
      BY <2>1, <2>3 DEF Words
    <3>2. QED
      BY <2>1, <3>1, Signs
  <2>6. /\ Negative(high) <=> (high \div 128) % 2 = 1
        /\ Truncate(a + b + Carry) = (a + b + Carry) % 256
    BY <2>1 DEF Negative, Truncate
  <2>7. \A f : f \in sum.flags <=> f \in ChipAdc(b).flags
    <3>1. ASSUME NEW f PROVE f \in {"N", "Z", "C", "V"} => (f \in sum.flags <=> f \in ChipAdc(b).flags)
      BY <2>2, <2>3, <2>4, <2>5, <2>6 DEF Out, Flag
    <3>2. ChipAdc(b).flags \subseteq {"N", "Z", "C", "V"}
      BY <2>2 DEF Flag
    <3>3. QED
      BY <2>4, <3>1, <3>2
  <2>8. QED
    BY <2>2, <2>3, <2>4, <2>7 DEF sum
<1>2. ASSUME Typed, ~Binary(p, semantics), semantics # "Wdc65C816", NEW b \in Operands
      PROVE  LET difference == Sbc(a, b, p, semantics)
             IN  difference.value = ChipSbc(b).value /\ difference.flags = ChipSbc(b).flags
  <2> DEFINE low == LowHalf(a) - LowHalf(b) - Borrow
             fixedLow == IF low < 0 THEN ((low - 6) % 16) - 16 ELSE low
             high == HighHalf(a) - HighHalf(b) + fixedLow
             binary == a - b - Borrow
             cmos == binary - (IF binary < 0 THEN 96 ELSE 0) - (IF low < 0 THEN 6 ELSE 0)
             value == (IF semantics = "Cmos65C02" THEN cmos
                       ELSE IF high < 0 THEN high - 96 ELSE high) % 256
             nz == IF semantics = "Nmos6502" THEN binary % 256 ELSE value
             signed == SignedWord(a) - SignedWord(b) - Borrow
             k == a + (MASK - b) + (1 - Borrow)
             truncated == Truncate(k)
             loop == SubDigits(a, b, Borrow)
             difference == Sbc(a, b, p, semantics)
  <2>1. semantics \in {"Nmos6502", "Cmos65C02"}
    BY <1>2, SemanticsAssumption DEF Typed, Binary
  <2>2. /\ a \in Words /\ b \in Words /\ Borrow \in {0, 1} /\ MASK = 255 /\ SIGN = 128
    BY <1>2, OperandsAssumption, Widths DEF Typed, Words, Carry, Borrow
  <2>3. /\ ChipSbc(b).value = value
        /\ ChipSbc(b).flags = Flag("N", nz >= 128) \cup Flag("Z", nz = 0)
                              \cup Flag("C", binary >= 0) \cup Flag("V", OutOfRange(signed))
    BY Zenon DEF ChipSbc
  <2>4. /\ loop.value = (IF high < 0 THEN high - 96 ELSE high) % 256
        /\ CmosCorrection(a, b, Borrow, truncated) = cmos % 256
        /\ truncated = binary % 256
        /\ loop.value \in Words /\ binary % 256 \in Words /\ cmos % 256 \in Words
    <3>1. /\ (IF high < 0 THEN high - 96 ELSE high) % 256 = NmosDifference(a, b, Borrow)
          /\ cmos % 256 = CmosDifference(a, b, Borrow)
      BY Zenon DEF NmosDifference, CmosDifference
    <3> HIDE DEF high, cmos
    <3>2. loop.value = NmosDifference(a, b, Borrow)
      BY ZenonT(40), <2>2, ChipSubtraction
    <3>3. CmosCorrection(a, b, Borrow, truncated) = CmosDifference(a, b, Borrow)
      BY ZenonT(40), <2>2, ChipSubtraction
    <3>4. truncated = binary % 256 /\ binary % 256 \in Words
      BY <2>2, ChipSubtraction
    <3>5. NmosDifference(a, b, Borrow) \in Words /\ CmosDifference(a, b, Borrow) \in Words
      BY <2>2, ChipSubtraction
    <3>6. QED
      BY <3>1, <3>2, <3>3, <3>4, <3>5, Zenon
  <2>5. SubOverflow(a, b, truncated) <=> OutOfRange(signed)
    <3>1. 1 - Borrow \in {0, 1} /\ 1 - (1 - Borrow) = Borrow
      BY <2>2
    <3>2. SubOverflow(a, b, truncated)
              <=> OutOfRange(SignedWord(a) - SignedWord(b) - (1 - (1 - Borrow)))
      BY <2>2, <3>1, SubtractedOverflow
    <3>3. QED
      BY <3>1, <3>2
  <2>6. /\ difference.flags \subseteq {"N", "Z", "C", "V"}
        /\ Out("C", difference) <=> binary >= 0
        /\ semantics = "Cmos65C02" =>
              /\ difference.value = CmosCorrection(a, b, Borrow, truncated)
              /\ Out("N", difference) <=> Negative(difference.value)
              /\ Out("Z", difference) <=> difference.value = 0
        /\ semantics # "Cmos65C02" => difference.value = loop.value
        /\ semantics = "Nmos6502" => /\ Out("N", difference) <=> Negative(truncated)
                                     /\ Out("Z", difference) <=> truncated = 0
        /\ Out("V", difference) <=> SubOverflow(a, b, truncated)
    <3> DEFINE borrow == IF "C" \in p THEN 0 ELSE 1
    <3>1. borrow = Borrow
      BY DEF Borrow, Carry
    <3>2. /\ difference.flags \subseteq {"N", "Z", "C", "V"}
          /\ Out("C", difference) <=> a - b - borrow >= 0
          /\ semantics = "Cmos65C02" =>
                /\ difference.value
                      = CmosCorrection(a, b, borrow, Truncate(a + (MASK - b) + (1 - borrow)))
                /\ Out("N", difference) <=> Negative(difference.value)
                /\ Out("Z", difference) <=> difference.value = 0
          /\ semantics # "Cmos65C02" => difference.value = SubDigits(a, b, borrow).value
          /\ semantics = "Nmos6502" =>
                /\ Out("N", difference) <=> Negative(Truncate(a + (MASK - b) + (1 - borrow)))
                /\ Out("Z", difference) <=> Truncate(a + (MASK - b) + (1 - borrow)) = 0
          /\ semantics \in {"Cmos65C02", "Nmos6502"} =>
                (Out("V", difference)
                    <=> SubOverflow(a, b, Truncate(a + (MASK - b) + (1 - borrow))))
      BY <1>2, <2>2, SbcInDecimal
    <3> HIDE DEF borrow, difference
    <3>3. QED
      BY <2>1, <3>1, <3>2, Zenon
  <2> HIDE DEF high, signed, binary, cmos, truncated, loop, difference
  <2>7. ("Nmos6502" = "Cmos65C02") = FALSE
    OBVIOUS
  <2>8. /\ difference.value = value /\ value \in Words
    BY <2>1, <2>4, <2>6, <2>7
  <2> HIDE DEF value
  <2>9. /\ Negative(value) <=> value >= 128
        /\ Negative(binary % 256) <=> binary % 256 >= 128
    <3>1. ASSUME NEW word \in Words PROVE Negative(word) <=> word >= 128
      <4>1. word \in Int /\ 0 <= word /\ word <= 255
        BY <2>2 DEF Words
      <4>2. QED
        BY <2>2, <4>1, Signs
    <3>2. QED
      BY <2>4, <2>8, <3>1
  <2>10. (Out("N", difference) <=> nz >= 128) /\ (Out("Z", difference) <=> nz = 0)
    BY <2>1, <2>4, <2>6, <2>7, <2>8, <2>9
  <2> HIDE DEF nz
  <2>11. \A f : f \in difference.flags <=> f \in ChipSbc(b).flags
    <3>1. ASSUME NEW f
          PROVE f \in {"N", "Z", "C", "V"} => (f \in difference.flags <=> f \in ChipSbc(b).flags)
      BY <2>3, <2>5, <2>6, <2>10 DEF Out, Flag
    <3>2. ChipSbc(b).flags \subseteq {"N", "Z", "C", "V"}
      BY <2>3 DEF Flag
    <3>3. QED
      BY <2>6, <3>1, <3>2
  <2>12. QED
    BY <2>3, <2>8, <2>11 DEF difference
<1>3. Typed => DecimalModeOfTheChips
  BY <1>1, <1>2, Zenon DEF DecimalModeOfTheChips
<1>4. QED
  BY <1>3, AccumulatorTyped, PTL
=============================================================================
