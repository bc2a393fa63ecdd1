-------------------------- MODULE Datapath_proofs ---------------------------
(***************************************************************************)
(* The data path, for every flavor, opcode table, program and test case:   *)
(* the registers and latches keep their types, CpuControl's view of the    *)
(* status is that of the whole register, and a core on a bus is a          *)
(* behaviour of CpuControl, of which its theorems then hold.               *)
(*                                                                         *)
(* The argument is about the effective address.  An index or an increment  *)
(* takes it beyond $FFFF, once: no op behind such an op in a queue adds to *)
(* it again or puts it together from bytes.                                *)
(***************************************************************************)
EXTENDS System, SingleStep, CpuHistory_proofs

-----------------------------------------------------------------------------
(* Bytes.                                                                  *)

LEMMA BitWeights ==
    /\ BitWeight(0) = 1 /\ BitWeight(1) = 2 /\ BitWeight(2) = 4 /\ BitWeight(3) = 8
    /\ BitWeight(4) = 16 /\ BitWeight(5) = 32 /\ BitWeight(6) = 64 /\ BitWeight(7) = 128
    /\ BitWeight(8) = 256 /\ BitWeight(9) = 512 /\ BitWeight(10) = 1024 /\ BitWeight(11) = 2048
    /\ BitWeight(12) = 4096 /\ BitWeight(13) = 8192 /\ BitWeight(14) = 16384
    /\ BitWeight(15) = 32768
BY DEF BitWeight

\* The bits of a byte, and what is made of the bits of bytes
LEMMA ByteBits == ASSUME NEW n \in Byte PROVE Bits(n) \subseteq 0..7
<1> SUFFICES ASSUME NEW i \in 8..15 PROVE (n \div BitWeight(i)) % 2 # 1
  BY DEF Bits
<1>1. BitWeight(i) \in {256, 512, 1024, 2048, 4096, 8192, 16384, 32768}
  BY BitWeights
<1> DEFINE w == BitWeight(i)
<1> HIDE DEF w
<1>2. w \in {256, 512, 1024, 2048, 4096, 8192, 16384, 32768} /\ n \in 0..255
  BY <1>1 DEF Byte, w
<1>3. n \div w = 0
  BY ONLY <1>2
<1>4. QED
  BY <1>3 DEF w

LEMMA ByteFromBits == ASSUME NEW bits, bits \subseteq 0..7 PROVE FromBits(bits) \in Byte
<1> DEFINE part(i) == IF i \in bits THEN BitWeight(i) ELSE 0
<1>1. /\ part(0) \in {0, 1} /\ part(1) \in {0, 2} /\ part(2) \in {0, 4} /\ part(3) \in {0, 8}
      /\ part(4) \in {0, 16} /\ part(5) \in {0, 32} /\ part(6) \in {0, 64}
      /\ part(7) \in {0, 128}
  BY BitWeights
<1>2. /\ part(8) = 0 /\ part(9) = 0 /\ part(10) = 0 /\ part(11) = 0 /\ part(12) = 0
      /\ part(13) = 0 /\ part(14) = 0 /\ part(15) = 0
  OBVIOUS
<1>3. FromBits(bits) = (part(0) + part(1) + part(2) + part(3))
                       + (part(4) + part(5) + part(6) + part(7))
                       + (part(8) + part(9) + part(10) + part(11))
                       + (part(12) + part(13) + part(14) + part(15))
  BY DEF FromBits
<1> HIDE DEF part
<1>4. QED
  BY <1>1, <1>2, <1>3 DEF Byte

LEMMA LogicBytes ==
    ASSUME NEW m \in Byte, NEW n \in Byte
    PROVE  And(m, n) \in Byte /\ Or(m, n) \in Byte /\ AndNot(m, n) \in Byte /\ Xor(m, n) \in Byte
<1>1. Bits(m) \subseteq 0..7 /\ Bits(n) \subseteq 0..7
  BY ByteBits
<1>2. /\ Bits(m) \cap Bits(n) \subseteq 0..7 /\ Bits(m) \cup Bits(n) \subseteq 0..7
      /\ Bits(m) \ Bits(n) \subseteq 0..7
      /\ (Bits(m) \cup Bits(n)) \ (Bits(m) \cap Bits(n)) \subseteq 0..7
  BY <1>1
<1>3. QED
  BY <1>2, ByteFromBits DEF And, Or, AndNot, Xor

LEMMA StatusBytes ==
    /\ \A flags \in SUBSET Flags : StatusByte(flags) \in Byte
    /\ \A byte : FlagsOf(byte) \in SUBSET Flags
<1>1. ASSUME NEW flags \in SUBSET Flags PROVE StatusByte(flags) \in Byte
  <2>1. \A f \in Flags : FlagBit(f) \in 0..7
    BY DEF Flags, FlagBit
  <2>2. {FlagBit(f) : f \in flags} \subseteq 0..7
    BY <2>1
  <2>3. QED
    BY <2>2, ByteFromBits DEF StatusByte
<1>2. QED
  BY <1>1 DEF FlagsOf
-----------------------------------------------------------------------------
(* Results: a byte, and flags other than I and D.                          *)

Arithmetic == {"N", "V", "Z", "C"}
ByteResult(result) ==
    /\ result.value \in Byte
    /\ result.flags \subseteq Arithmetic /\ result.flag_mask \subseteq Arithmetic

LEMMA EightBits ==
    /\ MASK = 255 /\ SIGN = 128
    /\ \A value \in Int : Truncate(value) \in Byte /\ Truncate(value) = value % 256
BY EightBit DEF MASK, SIGN, Truncate, Byte

LEMMA ResultParts ==
    ASSUME NEW value, NEW flags, NEW mask
    PROVE  /\ AluResult(value, flags, mask).value = value
           /\ AluResult(value, flags, mask).flags = flags
           /\ AluResult(value, flags, mask).flag_mask = mask
BY DEF AluResult

LEMMA ZnResult == ASSUME NEW value \in Byte PROVE ByteResult(Zn(value))
BY ResultParts DEF Zn, ByteResult, Arithmetic, Flag

LEMMA ShiftFlagsResult ==
    ASSUME NEW value \in Byte, NEW carry PROVE ByteResult(WithShiftFlags(value, carry))
<1>1. Zn(value).flags \subseteq Arithmetic
  BY ZnResult DEF ByteResult
<1>2. QED
  BY <1>1, ResultParts DEF WithShiftFlags, ByteResult, Arithmetic, Flag

LEMMA ArithFlagsResult ==
    ASSUME NEW value \in Byte, NEW carry, NEW overflow
    PROVE  ByteResult(WithArithFlags(value, carry, overflow))
<1>1. WithShiftFlags(value, carry).flags \subseteq Arithmetic
  BY ShiftFlagsResult DEF ByteResult
<1>2. QED
  BY <1>1, ResultParts DEF WithArithFlags, ByteResult, Arithmetic, Flag

LEMMA ShiftResults ==
    ASSUME NEW value \in Byte, NEW carry \in BOOLEAN
    PROVE  /\ ByteResult(Asl(value)) /\ ByteResult(Lsr(value))
           /\ ByteResult(Rol(value, carry)) /\ ByteResult(Ror(value, carry))
           /\ \A name \in {"Asl", "Lsr", "Rol", "Ror"} :
                 ByteResult(ShiftOf(name, value, carry))
<1>1. Truncate(2 * value) \in Byte /\ Truncate(2 * value + (IF carry THEN 1 ELSE 0)) \in Byte
  BY EightBits DEF Byte
<1>2. value \div 2 \in Byte /\ value \div 2 + (IF carry THEN SIGN ELSE 0) \in Byte
  BY EightBits DEF Byte
<1>3. /\ ByteResult(Asl(value)) /\ ByteResult(Lsr(value))
      /\ ByteResult(Rol(value, carry)) /\ ByteResult(Ror(value, carry))
  BY <1>1, <1>2, ShiftFlagsResult DEF Asl, Lsr, Rol, Ror
<1>4. ASSUME NEW name \in {"Asl", "Lsr", "Rol", "Ror"}
      PROVE  ByteResult(ShiftOf(name, value, carry))
  BY <1>3 DEF ShiftOf
<1>5. QED
  BY <1>3, <1>4

LEMMA CountResults ==
    ASSUME NEW value \in Byte PROVE ByteResult(Inc(value)) /\ ByteResult(Dec(value))
<1>1. Truncate(value + 1) \in Byte /\ Truncate(value - 1) \in Byte
  BY EightBits DEF Byte
<1>2. QED
  BY <1>1, ZnResult DEF Inc, Dec

LEMMA TestResults ==
    ASSUME NEW a \in Byte, NEW value \in Byte
    PROVE  ByteResult(Tsb(a, value)) /\ ByteResult(Trb(a, value))
BY LogicBytes, ResultParts DEF Tsb, Trb, ByteResult, Arithmetic, Flag

\* The decimal loops keep a byte and a carry.
LEMMA DigitTypes ==
    /\ Place(0) = 1 /\ Place(1) = 16
    /\ \A a \in Byte, d \in {0, 1} : Digit(a, d) \in 0..15
<1>1. Place(0) = 1 /\ Place(1) = 16
  BY DEF Place
<1>2. ASSUME NEW a \in Byte, NEW d \in {0, 1} PROVE Digit(a, d) \in 0..15
  <2>1. Place(d) \in {1, 16}
    BY <1>1
  <2> DEFINE w == Place(d)
  <2> HIDE DEF w
  <2>2. (a \div w) % 16 \in 0..15
    BY <2>1 DEF Byte, w
  <2>3. QED
    BY <2>2 DEF Digit, w
<1>3. QED
  BY <1>1, <1>2

LEMMA DecimalSums ==
    ASSUME NEW a \in Byte, NEW b \in Byte, NEW carry \in {0, 1}
    PROVE  AddDigits(a, b, carry).value \in Byte /\ SubDigits(a, b, carry).value \in Byte
<1> DEFINE low == AddDigit(a, b, FirstDigit(carry), 0)
           under == SubDigit(a, b, FirstDigit(carry), 0)
<1>1. FirstDigit(carry).value = 0 /\ FirstDigit(carry).carry = carry
  BY DEF FirstDigit
<1>2. low.value \in 0..15 /\ low.carry \in {0, 1}
  BY <1>1, DigitTypes DEF AddDigit
<1>3. under.value \in 0..15 /\ under.carry \in {0, 1}
  BY <1>1, DigitTypes DEF SubDigit
<1>4. AddDigits(a, b, carry) = AddDigit(a, b, low, 1)
  BY EightBit DEF AddDigits
<1>5. SubDigits(a, b, carry) = SubDigit(a, b, under, 1)
  BY EightBit DEF SubDigits
<1> HIDE DEF low, under
<1>6. AddDigit(a, b, low, 1).value \in Byte
  <2> DEFINE nibble == Digit(a, 1) + Digit(b, 1) + low.carry
             corrected == IF nibble > 9 THEN nibble + 6 ELSE nibble
  <2>1. AddDigit(a, b, low, 1).value = low.value + (corrected % 16) * 16
    BY DigitTypes DEF AddDigit
  <2>2. Digit(a, 1) \in Int /\ Digit(b, 1) \in Int /\ low.carry \in Int
    BY <1>2, DigitTypes
  <2>3. corrected \in Int
    BY <2>2
  <2> HIDE DEF corrected
  <2>4. corrected % 16 \in 0..15
    BY ONLY <2>3
  <2>5. QED
    BY ONLY <1>2, <2>1, <2>4 DEF Byte
<1>7. SubDigit(a, b, under, 1).value \in Byte
  <2> DEFINE nibble == Digit(a, 1) - Digit(b, 1) - under.carry
             corrected == IF nibble < 0 THEN nibble - 6 ELSE nibble
  <2>1. SubDigit(a, b, under, 1).value = under.value + (corrected % 16) * 16
    BY DigitTypes DEF SubDigit
  <2>2. Digit(a, 1) \in Int /\ Digit(b, 1) \in Int /\ under.carry \in Int
    BY <1>3, DigitTypes
  <2>3. corrected \in Int
    BY <2>2
  <2> HIDE DEF corrected
  <2>4. corrected % 16 \in 0..15
    BY ONLY <2>3
  <2>5. QED
    BY ONLY <1>3, <2>1, <2>4 DEF Byte
<1>8. QED
  BY <1>4, <1>5, <1>6, <1>7

LEMMA AdcResult ==
    ASSUME NEW a \in Byte, NEW b \in Byte, NEW flags, NEW semantics
    PROVE  ByteResult(Adc(a, b, flags, semantics))
<1> DEFINE carry_in == IF "C" \in flags THEN 1 ELSE 0
           sum == a + b + carry_in
           decimal == AddDigits(a, b, carry_in)
           binary == WithArithFlags(Truncate(sum), sum > MASK, AddOverflow(a, b, sum))
           result == WithArithFlags(decimal.value, decimal.carry # 0,
                                    AddOverflow(a, b, decimal.pre_high))
           nmos == [result EXCEPT !.flags =
                       (@ \ {"Z", "N"}) \cup Flag("Z", Truncate(sum) = 0)
                                        \cup Flag("N", Negative(decimal.pre_high))]
<1>1. carry_in \in {0, 1} /\ sum \in Int
  BY DEF Byte
<1>2. Truncate(sum) \in Byte /\ decimal.value \in Byte
  BY <1>1, EightBits, DecimalSums
<1>3. ByteResult(binary) /\ ByteResult(result)
  BY <1>2, ArithFlagsResult
<1>4. ByteResult(nmos)
  <2>1. result = AluResult(result.value, result.flags, result.flag_mask)
    BY DEF WithArithFlags, AluResult
  <2> HIDE DEF result, decimal, sum
  <2>2. /\ nmos.value = result.value /\ nmos.flag_mask = result.flag_mask
        /\ nmos.flags = (result.flags \ {"Z", "N"}) \cup Flag("Z", Truncate(sum) = 0)
                                                    \cup Flag("N", Negative(decimal.pre_high))
    BY <2>1 DEF AluResult
  <2> HIDE DEF nmos
  <2>3. QED
    BY <1>3, <2>2 DEF ByteResult, Arithmetic, Flag
<1>5. Adc(a, b, flags, semantics) = IF Binary(flags, semantics) THEN binary
                                    ELSE IF semantics = "Nmos6502" THEN nmos ELSE result
  BY DEF Adc
<1> HIDE DEF binary, nmos, result
<1>6. QED
  BY <1>3, <1>4, <1>5

LEMMA SbcResult ==
    ASSUME NEW a \in Byte, NEW b \in Byte, NEW flags, NEW semantics
    PROVE  ByteResult(Sbc(a, b, flags, semantics))
<1> DEFINE borrow_in == IF "C" \in flags THEN 0 ELSE 1
           sum == a + (MASK - b) + (1 - borrow_in)
           binary == Truncate(sum)
           carry == sum > MASK
           byBinary == WithArithFlags(binary, carry, SubOverflow(a, b, binary))
           decimal == SubDigits(a, b, borrow_in)
           cmos == WithArithFlags(CmosCorrection(a, b, borrow_in, binary), carry,
                                  SubOverflow(a, b, binary))
           nmos == [byBinary EXCEPT !.value = decimal.value]
           other == WithArithFlags(decimal.value, decimal.carry = 0,
                                   SubOverflow(a, b, decimal.pre_high))
<1>1. borrow_in \in {0, 1} /\ sum \in Int
  BY EightBits DEF Byte
<1>2. binary \in Byte /\ decimal.value \in Byte
  BY <1>1, EightBits, DecimalSums
<1>3. CmosCorrection(a, b, borrow_in, binary) \in Byte
  <2> DEFINE fix(d) ==
          IF d < Digits /\ (a % Place(d + 1)) - (b % Place(d + 1)) - borrow_in < 0
          THEN 6 * Place(d) ELSE 0
  <2>1. fix(0) \in Int /\ fix(1) \in Int /\ fix(2) \in Int /\ fix(3) \in Int
    BY EightBit, DigitTypes
  <2>2. CmosCorrection(a, b, borrow_in, binary)
            = Truncate(binary - fix(0) - fix(1) - fix(2) - fix(3))
    BY DEF CmosCorrection
  <2> HIDE DEF fix, binary
  <2>3. binary - fix(0) - fix(1) - fix(2) - fix(3) \in Int
    BY <1>2, <2>1 DEF Byte
  <2>4. QED
    BY <2>2, <2>3, EightBits
<1>4. ByteResult(byBinary) /\ ByteResult(cmos) /\ ByteResult(other)
  BY <1>2, <1>3, ArithFlagsResult
<1>5. ByteResult(nmos)
  <2>1. byBinary = AluResult(byBinary.value, byBinary.flags, byBinary.flag_mask)
    BY DEF WithArithFlags, AluResult
  <2> HIDE DEF byBinary, decimal
  <2>2. /\ nmos.value = decimal.value /\ nmos.flag_mask = byBinary.flag_mask
        /\ nmos.flags = byBinary.flags
    BY <2>1 DEF AluResult
  <2> HIDE DEF nmos
  <2>3. QED
    BY <1>2, <1>4, <2>2 DEF ByteResult, Arithmetic
<1>6. Sbc(a, b, flags, semantics) \in {byBinary, cmos, nmos, other}
  BY DEF Sbc
<1> HIDE DEF byBinary, cmos, nmos, other
<1>7. QED
  BY <1>4, <1>5, <1>6

-----------------------------------------------------------------------------
(* What the effects of instructions do to the core.                        *)

\* The effects leave the address, the branch targets, I and D alone.
Keeps(c, d) ==
    /\ d \in Core
    /\ d.flags \cap {"I", "D"} = c.flags \cap {"I", "D"}
    /\ d.ea = c.ea /\ d.targets = c.targets

LEMMA CoreTypes ==
    ASSUME NEW c \in Core
    PROVE  /\ c.a \in Byte /\ c.x \in Byte /\ c.y \in Byte /\ c.s \in Byte /\ c.pc \in Address
           /\ c.flags \in SUBSET Flags /\ c.ea \in Effective /\ c.ptr \in Address
           /\ c.op0 \in Byte /\ c.signed_offset8 \in SignedByte /\ c.data \in Byte
           /\ c.targets \in Seq(Address)
BY DEF Core

LEMMA SetByte ==
    ASSUME NEW c \in Core, NEW register \in {"a", "x", "y", "s", "op0", "data"}, NEW byte \in Byte
    PROVE  Keeps(c, [c EXCEPT ![register] = byte])
<1>1. Keeps(c, [c EXCEPT !.a = byte]) /\ Keeps(c, [c EXCEPT !.x = byte])
  BY DEF Core, Keeps
<1>2. Keeps(c, [c EXCEPT !.y = byte]) /\ Keeps(c, [c EXCEPT !.s = byte])
  BY DEF Core, Keeps
<1>3. Keeps(c, [c EXCEPT !.op0 = byte]) /\ Keeps(c, [c EXCEPT !.data = byte])
  BY DEF Core, Keeps
<1>4. QED
  BY <1>1, <1>2, <1>3

LEMMA SetFlags1 ==
    ASSUME NEW c \in Core, NEW flags \in SUBSET Flags
    PROVE  /\ [c EXCEPT !.flags = flags] \in Core
           /\ [c EXCEPT !.flags = flags].flags = flags
           /\ [c EXCEPT !.flags = flags].ea = c.ea
           /\ [c EXCEPT !.flags = flags].targets = c.targets
BY DEF Core

LEMMA KeepsOn == ASSUME NEW c, NEW d, NEW e, Keeps(c, d), Keeps(d, e) PROVE Keeps(c, e)
BY DEF Keeps

LEMMA KeepsItself == ASSUME NEW c \in Core PROVE Keeps(c, c)
BY DEF Keeps

LEMMA FlagsKept ==
    ASSUME NEW c \in Core, NEW flags \in SUBSET Flags,
           flags \cap {"I", "D"} = c.flags \cap {"I", "D"}
    PROVE  Keeps(c, [c EXCEPT !.flags = flags])
BY SetFlags1 DEF Keeps

LEMMA ApplyKeeps ==
    ASSUME NEW flags \in SUBSET Flags, NEW result, ByteResult(result)
    PROVE  /\ Apply(result, flags) \in SUBSET Flags
           /\ Apply(result, flags) \cap {"I", "D"} = flags \cap {"I", "D"}
BY DEF ByteResult, Apply, Arithmetic, Flags

LEMMA UpdateKeeps ==
    ASSUME NEW c \in Core, NEW register \in {"a", "x", "y", "op0"}, NEW result, ByteResult(result)
    PROVE  Keeps(c, Update(c, register, result))
<1> DEFINE d == [c EXCEPT ![register] = result.value]
           flags == Apply(result, c.flags)
<1>1. result.value \in Byte
  BY DEF ByteResult
<1>2. Keeps(c, d)
  BY <1>1, SetByte
<1>3. c.flags \in SUBSET Flags
  BY CoreTypes
<1>4. flags \in SUBSET Flags /\ flags \cap {"I", "D"} = c.flags \cap {"I", "D"}
  BY <1>3, ApplyKeeps
<1>5. Update(c, register, result) = [d EXCEPT !.flags = flags]
  BY DEF Update, Core
<1> HIDE DEF d, flags
<1>6. Keeps(d, [d EXCEPT !.flags = flags])
  BY <1>2, <1>4, FlagsKept DEF Keeps
<1>7. QED
  BY <1>2, <1>5, <1>6, KeepsOn

LEMMA SetFlagKeeps ==
    ASSUME NEW c \in Core, NEW flag \in Arithmetic, NEW condition
    PROVE  Keeps(c, SetFlag(c, flag, condition))
<1> DEFINE flags == (c.flags \ {flag}) \cup Flag(flag, condition)
<1>1. c.flags \in SUBSET Flags
  BY CoreTypes
<1>2. flags \in SUBSET Flags /\ flags \cap {"I", "D"} = c.flags \cap {"I", "D"}
  BY <1>1 DEF Flag, Arithmetic, Flags
<1>3. SetFlag(c, flag, condition) = [c EXCEPT !.flags = flags]
  BY DEF SetFlag
<1> HIDE DEF flags
<1>4. QED
  BY <1>2, <1>3, FlagsKept

\* SEI, CLI, SED, CLD and the end of an interrupt entry
LEMMA SetMask ==
    ASSUME NEW c \in Core, NEW flag \in {"I", "D"}, NEW condition \in BOOLEAN
    PROVE  LET d == SetFlag(c, flag, condition)
           IN  /\ d \in Core /\ d.ea = c.ea /\ d.targets = c.targets
               /\ d.flags \cap {"I", "D"} =
                     IF condition THEN (c.flags \cap {"I", "D"}) \cup {flag}
                     ELSE (c.flags \cap {"I", "D"}) \ {flag}
<1> DEFINE flags == (c.flags \ {flag}) \cup Flag(flag, condition)
<1>1. c.flags \in SUBSET Flags
  BY CoreTypes
<1>2. /\ flags \in SUBSET Flags
      /\ flags \cap {"I", "D"} = IF condition THEN (c.flags \cap {"I", "D"}) \cup {flag}
                                 ELSE (c.flags \cap {"I", "D"}) \ {flag}
  BY <1>1 DEF Flag, Flags
<1>3. SetFlag(c, flag, condition) = [c EXCEPT !.flags = flags]
  BY DEF SetFlag
<1> HIDE DEF flags
<1>4. QED
  BY <1>2, <1>3, SetFlags1

LEMMA CompareKeeps ==
    ASSUME NEW c \in Core, NEW byte \in Byte, NEW operand \in Byte
    PROVE  Keeps(c, Compare(c, byte, operand))
<1> DEFINE result == Zn((byte - operand) % 256)
           flags == Apply(result, c.flags)
           d == [c EXCEPT !.flags = flags]
<1>1. (byte - operand) % 256 \in Byte
  BY DEF Byte
<1>2. ByteResult(result)
  BY <1>1, ZnResult
<1>3. c.flags \in SUBSET Flags
  BY CoreTypes
<1>4. Keeps(c, d)
  BY <1>2, <1>3, ApplyKeeps, FlagsKept
<1>5. Compare(c, byte, operand) = SetFlag(d, "C", byte >= operand)
  BY DEF Compare
<1> HIDE DEF d
<1>6. Keeps(d, SetFlag(d, "C", byte >= operand))
  BY <1>4, SetFlagKeeps DEF Keeps, Arithmetic
<1>7. QED
  BY <1>4, <1>5, <1>6, KeepsOn

LEMMA BitTestKeeps ==
    ASSUME NEW c \in Core, NEW immediate PROVE Keeps(c, BitTest(c, immediate))
<1> DEFINE tested == SetFlag(c, "Z", And(c.a, c.op0) = 0)
           flags == (tested.flags \ {"N", "V"}) \cup (FlagsOf(c.op0) \cap {"N", "V"})
           d == [tested EXCEPT !.flags = flags]
<1>1. Keeps(c, tested)
  BY SetFlagKeeps DEF Arithmetic
<1> HIDE DEF tested
<1>2. tested \in Core /\ tested.flags \in SUBSET Flags
  BY <1>1, CoreTypes DEF Keeps
<1>3. flags \in SUBSET Flags /\ flags \cap {"I", "D"} = tested.flags \cap {"I", "D"}
  BY <1>2, StatusBytes DEF Flags
<1> HIDE DEF flags
<1>4. Keeps(tested, d)
  BY <1>2, <1>3, FlagsKept
<1>5. Keeps(c, d)
  BY <1>1, <1>4, KeepsOn
<1>6. BitTest(c, immediate) = IF immediate THEN tested ELSE d
  BY DEF BitTest, tested, flags
<1> HIDE DEF d
<1>7. QED
  BY <1>1, <1>5, <1>6

LEMMA ArrKeeps == ASSUME NEW c \in Core PROVE Keeps(c, Arr(F, c))
<1> DEFINE anded == And(c.a, c.op0)
           rotated == Update(c, "a", Ror(anded, CarryIn(c)))
<1>1. anded \in Byte /\ CarryIn(c) \in BOOLEAN
  BY CoreTypes, LogicBytes DEF CarryIn
<1>2. Keeps(c, rotated)
  BY <1>1, ShiftResults, UpdateKeeps
<1> HIDE DEF rotated
<1>3. rotated \in Core
  BY <1>2 DEF Keeps
<1>4. Keeps(c, RotateMasked(c))
  <2> DEFINE bits == Bits(rotated.a)
             d == SetFlag(rotated, "C", 6 \in bits)
             e == SetFlag(d, "V", (6 \in bits) # (5 \in bits))
  <2>1. Keeps(rotated, d)
    BY <1>3, SetFlagKeeps DEF Arithmetic
  <2>2. RotateMasked(c) = e
    BY DEF RotateMasked, rotated
  <2> HIDE DEF bits, d
  <2>3. Keeps(d, e)
    BY <2>1, SetFlagKeeps DEF Keeps, Arithmetic
  <2>4. QED
    BY <1>2, <2>1, <2>2, <2>3, KeepsOn
<1>5. Keeps(c, RotateMaskedDecimal(c))
  <2> DEFINE fixes(nibble) == nibble + (nibble % 2) > 5
             low == IF fixes(anded % 16) THEN (rotated.a + 6) % 16 ELSE rotated.a % 16
             high == IF fixes(anded \div 16) THEN (rotated.a \div 16) + 6 ELSE rotated.a \div 16
             d == SetFlag(rotated, "N", CarryIn(c))
             e == SetFlag(d, "V", (6 \in Bits(anded)) # (6 \in Bits(rotated.a)))
             g == [e EXCEPT !.a = (16 * high + low) % 256]
             h == SetFlag(g, "C", fixes(anded \div 16))
  <2>1. Keeps(rotated, d)
    BY <1>3, SetFlagKeeps DEF Arithmetic
  <2>2. RotateMaskedDecimal(c) = h
    BY DEF RotateMaskedDecimal, rotated
  <2> HIDE DEF d
  <2>3. Keeps(d, e)
    BY <2>1, SetFlagKeeps DEF Keeps, Arithmetic
  <2>4. (16 * high + low) % 256 \in Byte
    <3>1. rotated.a \in Int
      <4>1. rotated.a \in Byte
        BY <1>3, CoreTypes
      <4>2. QED
        BY <4>1 DEF Byte
    <3> DEFINE ra == rotated.a
    <3>2. low \in Int /\ high \in Int
      <4>1. ra \in Int
        BY <3>1
      <4> HIDE DEF ra, anded
      <4>2. (ra + 6) % 16 \in Int /\ ra % 16 \in Int /\ (ra \div 16) + 6 \in Int /\ ra \div 16 \in Int
        BY <4>1
      <4>3. QED
        BY <4>2 DEF ra
    <3> HIDE DEF low, high
    <3>3. QED
      BY <3>2 DEF Byte
  <2> HIDE DEF e, low, high
  <2>5. Keeps(e, g)
    BY <2>3, <2>4, SetByte DEF Keeps
  <2> HIDE DEF g, fixes
  <2>6. Keeps(g, h)
    BY <2>5, SetFlagKeeps DEF Keeps, Arithmetic
  <2>7. QED
    BY <1>2, <2>1, <2>2, <2>3, <2>5, <2>6, KeepsOn
<1>6. QED
  BY <1>4, <1>5 DEF Arr

LEMMA ByteSteps ==
    ASSUME NEW m \in Byte
    PROVE  /\ (m + 1) % 256 \in Byte /\ (m - 1) % 256 \in Byte
           /\ m % 256 \in Byte /\ m \in Int /\ m % 256 = m
<1>1. m \in Int /\ 0 <= m /\ m <= 255 /\ \A k \in Int : 0 <= k /\ k <= 255 => k \in Byte
  BY DEF Byte
<1>2. /\ (m + 1) % 256 \in Int /\ 0 <= (m + 1) % 256 /\ (m + 1) % 256 <= 255
      /\ (m - 1) % 256 \in Int /\ 0 <= (m - 1) % 256 /\ (m - 1) % 256 <= 255
      /\ m % 256 = m
  BY ONLY <1>1
<1>3. QED
  BY ONLY <1>1, <1>2

LEMMA ByteDifference ==
    ASSUME NEW m \in Byte, NEW n \in Byte PROVE (m - n) % 256 \in Byte
<1>1. /\ m \in Int /\ 0 <= m /\ m <= 255 /\ n \in Int /\ 0 <= n /\ n <= 255
      /\ \A k \in Int : 0 <= k /\ k <= 255 => k \in Byte
  BY DEF Byte
<1>2. (m - n) % 256 \in Int /\ 0 <= (m - n) % 256 /\ (m - n) % 256 <= 255
  BY ONLY <1>1
<1>3. QED
  BY ONLY <1>1, <1>2

\* finish_read, for the mnemonics that do not touch I or D
LEMMA ReadKeeps ==
    ASSUME NEW c \in Core, NEW inst, inst.mnemonic \notin {"Plp", "Brk"}
    PROVE  Keeps(c, ReadEffect(F, inst, c))
<1> DEFINE m == inst.mnemonic
           read == c.op0
           into(register, value) == Update(c, register, Zn(value))
<1>1. /\ c.a \in Byte /\ c.x \in Byte /\ c.y \in Byte /\ c.s \in Byte /\ read \in Byte
      /\ c.flags \in SUBSET Flags
  BY CoreTypes
<1>2. ASSUME NEW register \in {"a", "x", "y"}, NEW value \in Byte
      PROVE  Keeps(c, into(register, value))
  BY <1>2, ZnResult, UpdateKeeps
<1> HIDE DEF into
<1>3. /\ And(c.a, read) \in Byte /\ Xor(c.a, read) \in Byte /\ Or(c.a, read) \in Byte
      /\ And(c.a, c.x) \in Byte /\ And(read, c.s) \in Byte
      /\ And(And(Or(c.a, Magic), c.x), read) \in Byte /\ And(Or(c.a, Magic), read) \in Byte
  <2>1. Magic \in Byte
    BY DEF Magic, Byte
  <2>2. Or(c.a, Magic) \in Byte
    BY <1>1, <2>1, LogicBytes
  <2>3. And(Or(c.a, Magic), c.x) \in Byte
    BY <1>1, <2>2, LogicBytes
  <2>4. QED
    BY <1>1, <2>2, <2>3, LogicBytes
<1>4. ASSUME NEW value \in Byte
      PROVE  LET both == [into("a", value) EXCEPT !.x = value]
             IN  Keeps(c, both) /\ Keeps(c, [both EXCEPT !.s = value])
  <2> DEFINE d == into("a", value)
             both == [d EXCEPT !.x = value]
  <2>1. Keeps(c, d)
    BY <1>2
  <2> HIDE DEF d
  <2>2. Keeps(d, both)
    BY <2>1, SetByte DEF Keeps
  <2>3. Keeps(c, both)
    BY <2>1, <2>2, KeepsOn
  <2> HIDE DEF both
  <2>4. Keeps(both, [both EXCEPT !.s = value])
    BY <2>3, SetByte DEF Keeps
  <2>5. Keeps(c, [both EXCEPT !.s = value])
    BY <2>3, <2>4, KeepsOn
  <2>6. QED
    BY <2>3, <2>5 DEF both, d
<1>5. CASE m \in {"Lda", "Pla", "Ldx", "Plx", "Ldy", "Ply", "And", "Eor", "Ora", "Ane"}
  <2>1. ReadEffect(F, inst, c) \in
            {into("a", read), into("x", read), into("y", read), into("a", And(c.a, read)),
             into("a", Xor(c.a, read)), into("a", Or(c.a, read)),
             into("a", And(And(Or(c.a, Magic), c.x), read))}
    BY <1>5 DEF ReadEffect, into
  <2>2. QED
    BY <1>1, <1>2, <1>3, <2>1
<1>6. CASE m \in {"Adc", "Sbc", "Usbc", "Alr"}
  <2>1. /\ ByteResult(Adc(c.a, read, c.flags, F.DECIMAL))
        /\ ByteResult(Sbc(c.a, read, c.flags, F.DECIMAL))
        /\ ByteResult(Lsr(And(c.a, read)))
    <3>1. TRUE \in BOOLEAN
      OBVIOUS
    <3>2. QED
      BY <1>1, <1>3, <3>1, AdcResult, SbcResult, ShiftResults
  <2>2. ReadEffect(F, inst, c) \in
            {Update(c, "a", Adc(c.a, read, c.flags, F.DECIMAL)),
             Update(c, "a", Sbc(c.a, read, c.flags, F.DECIMAL)),
             Update(c, "a", Lsr(And(c.a, read)))}
    BY <1>6 DEF ReadEffect
  <2>3. QED
    BY <2>1, <2>2, UpdateKeeps
<1>7. CASE m \in {"Cmp", "Cpx", "Cpy"}
  <2>1. ReadEffect(F, inst, c) \in {Compare(c, c.a, read), Compare(c, c.x, read),
                                    Compare(c, c.y, read)}
    BY <1>7 DEF ReadEffect
  <2>2. QED
    BY <1>1, <2>1, CompareKeeps
<1>8. CASE m = "Bit"
  <2>1. ReadEffect(F, inst, c) = BitTest(c, inst.address_mode.kind = "Immediate")
    BY <1>8 DEF ReadEffect
  <2>2. QED
    BY <2>1, BitTestKeeps
<1>9. CASE m = "Anc"
  <2> DEFINE anded == into("a", And(c.a, read))
  <2>1. ReadEffect(F, inst, c) = SetFlag(anded, "C", anded.a >= 128)
    BY <1>9 DEF ReadEffect, into
  <2>2. Keeps(c, anded)
    BY <1>2, <1>3
  <2> HIDE DEF anded
  <2>3. Keeps(anded, SetFlag(anded, "C", anded.a >= 128))
    BY <2>2, SetFlagKeeps DEF Keeps, Arithmetic
  <2>4. QED
    BY <2>1, <2>2, <2>3, KeepsOn
<1>10. CASE m = "Arr"
  <2>1. ReadEffect(F, inst, c) = Arr(F, c)
    BY <1>10 DEF ReadEffect
  <2>2. QED
    BY <2>1, ArrKeeps
<1>11. CASE m \in {"Lxa", "Lax", "Las"}
  <2> DEFINE both(value) == [into("a", value) EXCEPT !.x = value]
  <2>1. ReadEffect(F, inst, c) \in
            {both(And(Or(c.a, Magic), read)), both(read),
             [both(And(read, c.s)) EXCEPT !.s = And(read, c.s)]}
    BY <1>11 DEF ReadEffect, into
  <2>2. /\ Keeps(c, both(And(Or(c.a, Magic), read))) /\ Keeps(c, both(read))
        /\ Keeps(c, [both(And(read, c.s)) EXCEPT !.s = And(read, c.s)])
    BY <1>1, <1>3, <1>4
  <2> HIDE DEF both
  <2>3. QED
    BY <2>1, <2>2
<1>12. CASE m = "Sbx"
  <2> DEFINE compared == Compare(c, And(c.a, c.x), read)
             x == (And(c.a, c.x) - read) % 256
  <2>1. ReadEffect(F, inst, c) = [compared EXCEPT !.x = x]
    BY <1>12 DEF ReadEffect
  <2>2. Keeps(c, compared) /\ x \in Byte
    BY <1>1, <1>3, CompareKeeps, ByteDifference
  <2> HIDE DEF compared, x
  <2>3. Keeps(compared, [compared EXCEPT !.x = x])
    BY <2>2, SetByte DEF Keeps
  <2>4. QED
    BY <2>1, <2>2, <2>3, KeepsOn
<1>13. CASE m \notin {"Lda", "Pla", "Ldx", "Plx", "Ldy", "Ply", "And", "Eor", "Ora", "Ane",
                      "Adc", "Sbc", "Usbc", "Alr", "Cmp", "Cpx", "Cpy", "Bit", "Anc", "Arr",
                      "Lxa", "Lax", "Las", "Sbx"}
  <2>1. ReadEffect(F, inst, c) = c
    BY <1>13 DEF ReadEffect
  <2>2. QED
    BY <2>1, KeepsItself
<1>14. QED
  BY <1>5, <1>6, <1>7, <1>8, <1>9, <1>10, <1>11, <1>12, <1>13

\* PLP and BRK
LEMMA ReadMasks ==
    ASSUME NEW c \in Core, NEW inst, inst.mnemonic \in {"Plp", "Brk"}
    PROVE  LET d == ReadEffect(F, inst, c)
           IN  /\ d \in Core /\ d.ea = c.ea /\ d.targets = c.targets
               /\ inst.mnemonic = "Plp" =>
                     d.flags \cap {"I", "D"} = FlagsOf(c.op0) \cap {"I", "D"}
               /\ inst.mnemonic = "Brk" =>
                     d.flags \cap {"I", "D"} =
                        IF F.DECIMAL = "Cmos65C02" THEN (c.flags \cap {"I", "D"}) \ {"D"}
                        ELSE c.flags \cap {"I", "D"}
<1>1. CASE inst.mnemonic = "Plp"
  <2> DEFINE flags == PulledFlags(c.op0)
  <2>1. ReadEffect(F, inst, c) = [c EXCEPT !.flags = flags]
    BY <1>1 DEF ReadEffect
  <2>2. flags \in SUBSET Flags /\ flags \cap {"I", "D"} = FlagsOf(c.op0) \cap {"I", "D"}
    BY StatusBytes DEF PulledFlags, Flags
  <2> HIDE DEF flags
  <2>3. QED
    BY <1>1, <2>1, <2>2, SetFlags1
<1>2. CASE inst.mnemonic = "Brk"
  <2> DEFINE flags == c.flags \ {"D"}
  <2>1. ReadEffect(F, inst, c) = IF F.DECIMAL = "Cmos65C02" THEN [c EXCEPT !.flags = flags] ELSE c
    BY <1>2 DEF ReadEffect, Break
  <2>2. c.flags \in SUBSET Flags
    BY CoreTypes
  <2>3. flags \in SUBSET Flags /\ flags \cap {"I", "D"} = (c.flags \cap {"I", "D"}) \ {"D"}
    BY <2>2
  <2> HIDE DEF flags
  <2>4. QED
    BY <1>2, <2>1, <2>3, SetFlags1
<1>3. QED
  BY <1>1, <1>2

\* finish_implied
LEMMA ImpliedKeeps ==
    ASSUME NEW c \in Core, NEW name, name \notin {"Cld", "Cli", "Sed", "Sei"}
    PROVE  Keeps(c, ImpliedEffect(name, c))
<1> DEFINE into(register, value) == Update(c, register, Zn(value % 256))
<1>1. c.a \in Byte /\ c.x \in Byte /\ c.y \in Byte /\ c.s \in Byte /\ CarryIn(c) \in BOOLEAN
  BY CoreTypes DEF CarryIn
<1>2. ASSUME NEW register \in {"a", "x", "y"}, NEW value, value % 256 \in Byte
      PROVE  Keeps(c, into(register, value))
  BY <1>2, ZnResult, UpdateKeeps
<1> HIDE DEF into
<1>3. ASSUME NEW register \in {"a", "x", "y"}, NEW byte \in Byte
      PROVE  /\ Keeps(c, into(register, byte)) /\ Keeps(c, into(register, byte + 1))
             /\ Keeps(c, into(register, byte - 1))
  <2>1. byte % 256 \in Byte /\ (byte + 1) % 256 \in Byte /\ (byte - 1) % 256 \in Byte
    BY ByteSteps
  <2>2. QED
    BY <1>2, <1>3, <2>1
<1>4. CASE name \in {"Asl", "Lsr", "Rol", "Ror"}
  <2>1. ImpliedEffect(name, c) = Update(c, "a", ShiftOf(name, c.a, CarryIn(c)))
    BY ZenonT(40), <1>4 DEF ImpliedEffect
  <2>2. QED
    BY <1>1, <1>4, <2>1, ShiftResults, UpdateKeeps
<1>5. CASE name \in {"Clc", "Clv", "Sec"}
  <2>1. ImpliedEffect(name, c) \in {SetFlag(c, "C", FALSE), SetFlag(c, "V", FALSE),
                                        SetFlag(c, "C", TRUE)}
    BY <1>5 DEF ImpliedEffect
  <2>2. QED
    BY <2>1, SetFlagKeeps DEF Arithmetic
<1>6. CASE name \in {"Dec", "Dex", "Dey", "Inc", "Inx", "Iny"}
  <2>1. CASE name = "Dec"
    <3>1. ImpliedEffect(name, c) = into("a", c.a - 1)
      BY <2>1 DEF ImpliedEffect, into
    <3>2. QED
      BY <1>1, <1>3, <3>1
  <2>2. CASE name = "Dex"
    <3>1. ImpliedEffect(name, c) = into("x", c.x - 1)
      BY <2>2 DEF ImpliedEffect, into
    <3>2. QED
      BY <1>1, <1>3, <3>1
  <2>3. CASE name = "Dey"
    <3>1. ImpliedEffect(name, c) = into("y", c.y - 1)
      BY <2>3 DEF ImpliedEffect, into
    <3>2. QED
      BY <1>1, <1>3, <3>1
  <2>4. CASE name = "Inc"
    <3>1. ImpliedEffect(name, c) = into("a", c.a + 1)
      BY <2>4 DEF ImpliedEffect, into
    <3>2. QED
      BY <1>1, <1>3, <3>1
  <2>5. CASE name = "Inx"
    <3>1. ImpliedEffect(name, c) = into("x", c.x + 1)
      BY <2>5 DEF ImpliedEffect, into
    <3>2. QED
      BY <1>1, <1>3, <3>1
  <2>6. CASE name = "Iny"
    <3>1. ImpliedEffect(name, c) = into("y", c.y + 1)
      BY <2>6 DEF ImpliedEffect, into
    <3>2. QED
      BY <1>1, <1>3, <3>1
  <2>7. QED
    BY <1>6, <2>1, <2>2, <2>3, <2>4, <2>5, <2>6
<1>7. CASE name \in {"Tax", "Tay", "Tsx", "Txa", "Tya"}
  <2>1. CASE name = "Tax"
    <3>1. ImpliedEffect(name, c) = into("x", c.a)
      BY <2>1 DEF ImpliedEffect, into
    <3>2. QED
      BY <1>1, <1>3, <3>1
  <2>2. CASE name = "Tay"
    <3>1. ImpliedEffect(name, c) = into("y", c.a)
      BY <2>2 DEF ImpliedEffect, into
    <3>2. QED
      BY <1>1, <1>3, <3>1
  <2>3. CASE name = "Tsx"
    <3>1. ImpliedEffect(name, c) = into("x", c.s)
      BY <2>3 DEF ImpliedEffect, into
    <3>2. QED
      BY <1>1, <1>3, <3>1
  <2>4. CASE name = "Txa"
    <3>1. ImpliedEffect(name, c) = into("a", c.x)
      BY <2>4 DEF ImpliedEffect, into
    <3>2. QED
      BY <1>1, <1>3, <3>1
  <2>5. CASE name = "Tya"
    <3>1. ImpliedEffect(name, c) = into("a", c.y)
      BY <2>5 DEF ImpliedEffect, into
    <3>2. QED
      BY <1>1, <1>3, <3>1
  <2>6. QED
    BY <1>7, <2>1, <2>2, <2>3, <2>4, <2>5
<1>8. CASE name = "Txs"
  <2>1. ImpliedEffect(name, c) = [c EXCEPT !.s = c.x]
    BY <1>8 DEF ImpliedEffect
  <2>2. QED
    BY <1>1, <2>1, SetByte
<1>9. CASE name \notin {"Asl", "Lsr", "Rol", "Ror", "Clc", "Clv", "Sec", "Dec", "Dex", "Dey",
                            "Inc", "Inx", "Iny", "Tax", "Tay", "Tsx", "Txa", "Tya", "Txs"}
  <2>1. ImpliedEffect(name, c) = c
    BY <1>9 DEF ImpliedEffect
  <2>2. QED
    BY <2>1, KeepsItself
<1>10. QED
  BY <1>4, <1>5, <1>6, <1>7, <1>8, <1>9

\* alu_modify
LEMMA BitByte ==
    ASSUME NEW value \in Byte, NEW opcode \in 0..255 PROVE ModifyBit(value, opcode) \in Byte
<1> DEFINE digit == opcode \div 16
<1>1. digit \in 0..15
  OBVIOUS
<1> HIDE DEF digit
<1>2. digit < 8 => BitWeight(digit) \in Byte
  <2>1. digit < 8 => digit \in {0, 1, 2, 3, 4, 5, 6, 7}
    BY <1>1
  <2>2. QED
    BY <2>1, BitWeights DEF Byte
<1>3. ~(digit < 8) => BitWeight(digit - 8) \in Byte
  <2>1. ~(digit < 8) => digit - 8 \in {0, 1, 2, 3, 4, 5, 6, 7}
    BY <1>1
  <2>2. QED
    BY <2>1, BitWeights DEF Byte
<1>4. QED
  BY <1>2, <1>3, LogicBytes DEF ModifyBit, digit

LEMMA ModifyKeeps ==
    ASSUME NEW c \in Core, NEW name, NEW opcode \in 0..255
    PROVE  Keeps(c, ModifyEffect(F, name, opcode, c))
<1> DEFINE shifted(by) == Update(c, "op0", ShiftOf(by, c.op0, CarryIn(c)))
           changed(by) == [c EXCEPT !.op0 = (@ + by) % 256]
<1>1. c.a \in Byte /\ c.op0 \in Byte /\ CarryIn(c) \in BOOLEAN
  BY CoreTypes DEF CarryIn
<1>2. ASSUME NEW by \in {"Asl", "Lsr", "Rol", "Ror"} PROVE Keeps(c, shifted(by))
  BY <1>1, ShiftResults, UpdateKeeps
<1> HIDE DEF shifted
<1>3. Keeps(c, changed(-1)) /\ Keeps(c, changed(1))
  <2>1. (c.op0 + (-1)) % 256 \in Byte /\ (c.op0 + 1) % 256 \in Byte
    <3>1. (c.op0 - 1) % 256 \in Byte /\ (c.op0 + 1) % 256 \in Byte /\ c.op0 \in Int
      BY <1>1, ByteSteps
    <3> DEFINE n == c.op0
    <3>2. n \in Int /\ (n - 1) % 256 \in Byte
      BY <3>1
    <3> HIDE DEF n
    <3>3. n + (-1) = n - 1
      BY <3>2
    <3>4. QED
      BY <3>1, <3>2, <3>3 DEF n
  <2>2. QED
    BY <2>1, SetByte
<1> HIDE DEF changed
<1>4. ASSUME NEW d, Keeps(c, d), NEW value \in Byte PROVE Keeps(c, Update(d, "a", Zn(value)))
  BY <1>4, ZnResult, UpdateKeeps, KeepsOn DEF Keeps
<1>5. CASE name \in {"Asl", "Lsr", "Rol", "Ror"}
  <2>1. ModifyEffect(F, name, opcode, c) = shifted(name)
    BY <1>5 DEF ModifyEffect, shifted
  <2>2. QED
    BY <1>2, <1>5, <2>1
<1>6. CASE name \in {"Inc", "Dec", "Tsb", "Trb"}
  <2>1. ModifyEffect(F, name, opcode, c) \in
            {Update(c, "op0", Inc(c.op0)), Update(c, "op0", Dec(c.op0)),
             Update(c, "op0", Tsb(c.a, c.op0)), Update(c, "op0", Trb(c.a, c.op0))}
    BY <1>6 DEF ModifyEffect
  <2>2. QED
    BY <1>1, <2>1, CountResults, TestResults, UpdateKeeps
<1>7. CASE name \in {"Slo", "Rla", "Sre"}
  <2> DEFINE slo == shifted("Asl")
             rla == shifted("Rol")
             sre == shifted("Lsr")
  <2>1. ModifyEffect(F, name, opcode, c) \in
            {Update(slo, "a", Zn(Or(slo.a, slo.op0))), Update(rla, "a", Zn(And(rla.a, rla.op0))),
             Update(sre, "a", Zn(Xor(sre.a, sre.op0)))}
    BY <1>7 DEF ModifyEffect, shifted
  <2>2. ASSUME NEW d, Keeps(c, d)
        PROVE  Or(d.a, d.op0) \in Byte /\ And(d.a, d.op0) \in Byte /\ Xor(d.a, d.op0) \in Byte
    <3>1. d.a \in Byte /\ d.op0 \in Byte
      BY <2>2, CoreTypes DEF Keeps
    <3>2. QED
      BY <3>1, LogicBytes
  <2>3. Keeps(c, slo) /\ Keeps(c, rla) /\ Keeps(c, sre)
    BY <1>2
  <2> HIDE DEF slo, rla, sre
  <2>4. QED
    BY <1>4, <2>1, <2>2, <2>3
<1>8. CASE name = "Rra"
  <2> DEFINE rotated == Update(c, "op0", Ror(c.op0, CarryIn(c)))
             sum == Adc(rotated.a, rotated.op0, rotated.flags, F.DECIMAL)
  <2>1. ModifyEffect(F, name, opcode, c) = Update(rotated, "a", sum)
    BY <1>8 DEF ModifyEffect, RotateThenAdd
  <2>2. Keeps(c, rotated)
    BY <1>1, ShiftResults, UpdateKeeps
  <2> HIDE DEF rotated
  <2>3. rotated \in Core /\ rotated.a \in Byte /\ rotated.op0 \in Byte
    BY <2>2, CoreTypes DEF Keeps
  <2>4. ByteResult(sum)
    BY <2>3, AdcResult
  <2> HIDE DEF sum
  <2>5. Keeps(rotated, Update(rotated, "a", sum))
    BY <2>3, <2>4, UpdateKeeps
  <2>6. QED
    BY <2>1, <2>2, <2>5, KeepsOn
<1>9. CASE name = "Dcp"
  <2> DEFINE d == changed(-1)
  <2>1. ModifyEffect(F, name, opcode, c) = Compare(d, c.a, d.op0)
    BY <1>9 DEF ModifyEffect, changed
  <2>2. Keeps(c, d)
    BY <1>3
  <2> HIDE DEF d
  <2>3. d \in Core /\ d.op0 \in Byte
    BY <2>2, CoreTypes DEF Keeps
  <2>4. Keeps(d, Compare(d, c.a, d.op0))
    BY <1>1, <2>3, CompareKeeps
  <2>5. QED
    BY <2>1, <2>2, <2>4, KeepsOn
<1>10. CASE name = "Isc"
  <2> DEFINE d == changed(1)
             difference == Sbc(c.a, d.op0, c.flags, F.DECIMAL)
  <2>1. ModifyEffect(F, name, opcode, c) = Update(d, "a", difference)
    BY <1>10 DEF ModifyEffect, changed
  <2>2. Keeps(c, d)
    BY <1>3
  <2> HIDE DEF d
  <2>3. d \in Core /\ d.op0 \in Byte
    BY <2>2, CoreTypes DEF Keeps
  <2>4. ByteResult(difference)
    BY <1>1, <2>3, SbcResult
  <2> HIDE DEF difference
  <2>5. Keeps(d, Update(d, "a", difference))
    BY <2>3, <2>4, UpdateKeeps
  <2>6. QED
    BY <2>1, <2>2, <2>5, KeepsOn
<1>11. CASE name \notin {"Asl", "Lsr", "Rol", "Ror", "Inc", "Dec", "Tsb", "Trb", "Slo", "Rla",
                             "Sre", "Rra", "Dcp", "Isc"}
  <2>1. ModifyEffect(F, name, opcode, c) = [c EXCEPT !.op0 = ModifyBit(c.op0, opcode)]
    BY <1>11 DEF ModifyEffect
  <2>2. QED
    BY <1>1, <2>1, BitByte, SetByte
<1>12. QED
  BY <1>5, <1>6, <1>7, <1>8, <1>9, <1>10, <1>11

-----------------------------------------------------------------------------
(* What a finished instruction leaves.                                     *)

\* A change that leaves the address and the branch targets alone, and makes the status mask
KeepsBut(c, d, mask) ==
    d \in Core /\ d.flags \cap {"I", "D"} = mask /\ d.ea = c.ea /\ d.targets = c.targets

\* The status CpuControl leaves is that of the register.
LEMMA RetireKeeps ==
    ASSUME NEW c \in Core
    PROVE  KeepsBut(c, Retire(c), Finished(c.flags \cap {"I", "D"},
                                           FlagsOf(c.op0) \cap {"I", "D"}))
<1> DEFINE m == current_inst.mnemonic
           status == c.flags \cap {"I", "D"}
           pulled == FlagsOf(c.op0) \cap {"I", "D"}
           reads == current_inst.memory_action = "Read"
           d == IF reads THEN ReadEffect(F, current_inst, c) ELSE c
           read == IF reads THEN FinishRead(status, pulled) ELSE status
           k == current_inst.address_mode.kind
<1>1. KeepsBut(c, d, read)
  <2>1. CASE ~reads
    BY <2>1 DEF KeepsBut
  <2>2. CASE reads /\ m \notin {"Plp", "Brk"}
    <3>1. d = ReadEffect(F, current_inst, c) /\ read = status
      BY <2>2 DEF FinishRead
    <3>2. Keeps(c, ReadEffect(F, current_inst, c))
      BY <2>2, ReadKeeps
    <3>3. QED
      BY <3>1, <3>2 DEF Keeps, KeepsBut
  <2>3. CASE reads /\ m \in {"Plp", "Brk"}
    <3> DEFINE e == ReadEffect(F, current_inst, c)
    <3>1. d = e
      BY <2>3
    <3>2. /\ e \in Core /\ e.ea = c.ea /\ e.targets = c.targets
          /\ m = "Plp" => e.flags \cap {"I", "D"} = pulled
          /\ m = "Brk" => e.flags \cap {"I", "D"} =
                             IF F.DECIMAL = "Cmos65C02" THEN status \ {"D"} ELSE status
      BY <2>3, ReadMasks
    <3>3. /\ m = "Plp" => read = pulled
          /\ m = "Brk" => read = IF F.DECIMAL = "Cmos65C02" THEN status \ {"D"} ELSE status
      BY <2>3 DEF FinishRead
    <3> HIDE DEF d, e, read, status, pulled
    <3>4. QED
      BY <2>3, <3>1, <3>2, <3>3 DEF KeepsBut
  <2>4. QED
    BY <2>1, <2>2, <2>3
<1> HIDE DEF d, read
<1>2. /\ Retire(c) = CASE k = "Implied" -> ImpliedEffect(m, d)
                       [] k = "Brk" -> SetFlag(d, "I", TRUE)
                       [] OTHER -> d
      /\ Finished(status, pulled) = CASE k = "Implied" -> FinishImplied(read)
                                      [] k = "Brk" -> read \cup {"I"}
                                      [] OTHER -> read
  BY DEF Retire, Finished, d, read
<1>3. d \in Core /\ d.flags \cap {"I", "D"} = read
  BY <1>1 DEF KeepsBut
<1>4. CASE k = "Brk"
  <2> DEFINE e == SetFlag(d, "I", TRUE)
  <2>1. Retire(c) = e /\ Finished(status, pulled) = read \cup {"I"}
    BY <1>2, <1>4
  <2>2. /\ e \in Core /\ e.ea = d.ea /\ e.targets = d.targets
        /\ e.flags \cap {"I", "D"} = (d.flags \cap {"I", "D"}) \cup {"I"}
    BY <1>3, SetMask
  <2> HIDE DEF e, status, pulled
  <2>3. QED
    BY <1>1, <1>3, <2>1, <2>2 DEF KeepsBut, status, pulled
<1>5. CASE k = "Implied" /\ m \notin {"Cld", "Cli", "Sed", "Sei"}
  <2>1. Retire(c) = ImpliedEffect(m, d) /\ Finished(status, pulled) = read
    BY <1>2, <1>5 DEF FinishImplied
  <2>2. Keeps(d, ImpliedEffect(m, d))
    BY <1>3, <1>5, ImpliedKeeps
  <2>3. QED
    BY <1>1, <1>3, <2>1, <2>2 DEF KeepsBut, Keeps
<1>6. CASE k = "Implied" /\ m \in {"Cld", "Cli", "Sed", "Sei"}
  <2> DEFINE flag == IF m \in {"Cld", "Sed"} THEN "D" ELSE "I"
             condition == m \in {"Sed", "Sei"}
             e == SetFlag(d, flag, condition)
  <2>1. Retire(c) = e
    <3>1. CASE m = "Cld"
      <4>1. ImpliedEffect(m, d) = SetFlag(d, "D", FALSE) /\ condition = FALSE /\ flag = "D"
        BY <3>1 DEF ImpliedEffect
      <4>2. QED
        BY <1>2, <1>6, <4>1
    <3>2. CASE m = "Cli"
      <4>1. ImpliedEffect(m, d) = SetFlag(d, "I", FALSE) /\ condition = FALSE /\ flag = "I"
        BY <3>2 DEF ImpliedEffect
      <4>2. QED
        BY <1>2, <1>6, <4>1
    <3>3. CASE m = "Sed"
      BY <1>2, <1>6, <3>3 DEF ImpliedEffect
    <3>4. CASE m = "Sei"
      BY <1>2, <1>6, <3>4 DEF ImpliedEffect
    <3>5. QED
      BY <1>6, <3>1, <3>2, <3>3, <3>4
  <2>2. Finished(status, pulled) = IF condition THEN read \cup {flag} ELSE read \ {flag}
    BY <1>2, <1>6 DEF FinishImplied
  <2>3. flag \in {"I", "D"} /\ condition \in BOOLEAN
    BY <1>6
  <2> HIDE DEF flag, condition
  <2>4. /\ e \in Core /\ e.ea = d.ea /\ e.targets = d.targets
        /\ e.flags \cap {"I", "D"} =
              IF condition THEN (d.flags \cap {"I", "D"}) \cup {flag}
              ELSE (d.flags \cap {"I", "D"}) \ {flag}
    BY <1>3, <2>3, SetMask
  <2> HIDE DEF e, status, pulled
  <2>5. QED
    BY <1>1, <1>3, <2>1, <2>2, <2>4 DEF KeepsBut, status, pulled
<1>7. CASE k \notin {"Implied", "Brk"}
  <2>1. Retire(c) = d /\ Finished(status, pulled) = read
    BY <1>2, <1>7
  <2>2. QED
    BY <1>1, <2>1
<1>8. QED
  BY <1>4, <1>5, <1>6, <1>7

-----------------------------------------------------------------------------
(* Addresses.                                                              *)

LEMMA WordTypes ==
    /\ \A n \in Nat : Low(n) \in Byte /\ High(n) \in Byte
    /\ \A n \in Address : n \in Nat /\ n \in Effective
    /\ \A n \in Effective : n \in Nat
    /\ \A b \in Byte : b \in Nat /\ b <= 255
<1>1. \A n \in Nat : n % 256 \in Byte /\ (n \div 256) % 256 \in Byte
  <2> TAKE n \in Nat
  <2>1. \A k \in Int : 0 <= k % 256 /\ k % 256 <= 255 /\ k % 256 \in Int
    OBVIOUS
  <2>2. n \div 256 \in Int
    OBVIOUS
  <2>3. \A k \in Int : 0 <= k /\ k <= 255 => k \in Byte
    BY DEF Byte
  <2>4. QED
    BY <2>1, <2>2, <2>3
<1>2. QED
  BY <1>1 DEF Low, High, Address, Effective, Byte

LEMMA WordParts ==
    ASSUME NEW n \in Address, NEW b \in Byte
    PROVE  WithLow(n, b) \in Address /\ WithHigh(n, b) \in Address
<1> DEFINE q == n \div 256
           r == n % 256
<1>1. n \in Nat /\ n < 65536 /\ b \in Nat /\ b <= 255
  BY DEF Address, Byte
<1>2. /\ q \in Nat /\ r \in Nat /\ n = 256 * q + r /\ r <= 255 /\ q <= 255
      /\ q % 256 = q
  BY <1>1
<1> HIDE DEF q, r
<1>3. /\ n - r + b \in Nat /\ n - r + b < 65536
      /\ n + 256 * (b - q) \in Nat /\ n + 256 * (b - q) < 65536
  BY <1>1, <1>2
<1>4. Low(n) = r /\ High(n) = q
  BY <1>2 DEF Low, High, q, r
<1>5. QED
  BY <1>3, <1>4 DEF WithLow, WithHigh, Address

LEMMA WordSums ==
    /\ \A n \in Int : n % 65536 \in Address /\ n % 256 \in Byte
    /\ \A lo \in Byte, hi \in Byte : Word(lo, hi) \in Address
    /\ \A b \in Byte : Signed(b) \in SignedByte
<1>1. \A n \in Int : n % 65536 \in Address
  BY DEF Address
<1>2. \A n \in Int : n % 256 \in Byte
  <2> TAKE n \in Int
  <2>1. n % 256 \in Int /\ 0 <= n % 256 /\ n % 256 <= 255
    OBVIOUS
  <2>2. QED
    BY <2>1 DEF Byte
<1>3. \A lo \in Byte, hi \in Byte : Word(lo, hi) \in Address
  <2> TAKE lo \in Byte, hi \in Byte
  <2>1. lo \in Nat /\ lo <= 255 /\ hi \in Nat /\ hi <= 255
    BY WordTypes
  <2>2. lo + 256 * hi \in Nat /\ lo + 256 * hi < 65536
    BY <2>1
  <2>3. QED
    BY <2>2 DEF Word, Address
<1>4. \A b \in Byte : Signed(b) \in SignedByte
  <2> TAKE b \in Byte
  <2>1. b \in Nat /\ b <= 255
    BY WordTypes
  <2>2. QED
    BY <2>1 DEF Signed, SignedByte
<1>5. QED
  BY <1>1, <1>2, <1>3, <1>4

\* Changes that leave I and D and the branch targets alone
Moves(c, d) == d \in Core /\ d.flags = c.flags /\ d.targets = c.targets

LEMMA SetLatches ==
    ASSUME NEW c \in Core
    PROVE  /\ \A b \in Byte : /\ Moves(c, [c EXCEPT !.s = b]) /\ [c EXCEPT !.s = b].ea = c.ea
                              /\ Moves(c, [c EXCEPT !.op0 = b]) /\ [c EXCEPT !.op0 = b].ea = c.ea
                              /\ Moves(c, [c EXCEPT !.data = b])
                              /\ [c EXCEPT !.data = b].ea = c.ea
                              /\ [c EXCEPT !.data = b].data = b
                              /\ [c EXCEPT !.data = b].flags = c.flags
           /\ \A n \in Address : /\ Moves(c, [c EXCEPT !.pc = n]) /\ [c EXCEPT !.pc = n].ea = c.ea
                                 /\ Moves(c, [c EXCEPT !.ptr = n])
                                 /\ [c EXCEPT !.ptr = n].ea = c.ea
           /\ \A n \in Effective : Moves(c, [c EXCEPT !.ea = n]) /\ [c EXCEPT !.ea = n].ea = n
           /\ \A n \in SignedByte : /\ Moves(c, [c EXCEPT !.signed_offset8 = n])
                                   /\ [c EXCEPT !.signed_offset8 = n].ea = c.ea
<1>1. ASSUME NEW b \in Byte
      PROVE  /\ Moves(c, [c EXCEPT !.s = b]) /\ [c EXCEPT !.s = b].ea = c.ea
             /\ Moves(c, [c EXCEPT !.op0 = b]) /\ [c EXCEPT !.op0 = b].ea = c.ea
             /\ Moves(c, [c EXCEPT !.data = b])
             /\ [c EXCEPT !.data = b].ea = c.ea
             /\ [c EXCEPT !.data = b].data = b
             /\ [c EXCEPT !.data = b].flags = c.flags
  BY DEF Core, Moves
<1>2. ASSUME NEW n \in Address
      PROVE  /\ Moves(c, [c EXCEPT !.pc = n]) /\ [c EXCEPT !.pc = n].ea = c.ea
             /\ Moves(c, [c EXCEPT !.ptr = n]) /\ [c EXCEPT !.ptr = n].ea = c.ea
  BY DEF Core, Moves
<1>3. ASSUME NEW n \in Effective PROVE Moves(c, [c EXCEPT !.ea = n]) /\ [c EXCEPT !.ea = n].ea = n
  BY DEF Core, Moves
<1>4. ASSUME NEW n \in SignedByte
      PROVE  /\ Moves(c, [c EXCEPT !.signed_offset8 = n])
             /\ [c EXCEPT !.signed_offset8 = n].ea = c.ea
  BY DEF Core, Moves
<1>5. QED
  BY <1>1, <1>2, <1>3, <1>4

LEMMA StoredNonsense ==
    ASSUME NEW c \in Core, NEW a \in Byte, NEW offset, NEW op_reg \in Byte
    PROVE  LET d == HPlusOneNonsense(c, a, offset, op_reg)
           IN  Moves(c, d) /\ d.ea \in Address
<1> DEFINE low == Low(c.ea)
           wrapped == low < offset
           eff_hi == (High(c.ea) - (IF wrapped THEN 1 ELSE 0)) % 256
           value == And(And(a, op_reg), (eff_hi + 1) % 256)
           word == Word(low, IF wrapped THEN value ELSE eff_hi)
<1>1. c.ea \in Nat
  BY CoreTypes, WordTypes
<1>2. low \in Byte /\ High(c.ea) \in Byte
  BY <1>1, WordTypes
<1>3. eff_hi \in Byte
  <2> DEFINE n == High(c.ea) - (IF wrapped THEN 1 ELSE 0)
  <2>1. n \in Int
    BY <1>2, WordTypes
  <2> HIDE DEF n
  <2>2. n % 256 \in Byte
    BY <2>1, WordSums
  <2>3. QED
    BY <2>2 DEF n
<1>4. value \in Byte
  <2>1. And(a, op_reg) \in Byte
    BY LogicBytes
  <2>2. (eff_hi + 1) % 256 \in Byte
    BY <1>3, ByteSteps
  <2> HIDE DEF eff_hi
  <2>3. QED
    BY <2>1, <2>2, LogicBytes
<1>5. HPlusOneNonsense(c, a, offset, op_reg) = [[c EXCEPT !.data = value] EXCEPT !.ea = word]
  BY DEF HPlusOneNonsense
<1> HIDE DEF eff_hi, value, wrapped, low
<1>6. word \in Address
  BY <1>2, <1>3, <1>4, WordSums
<1> HIDE DEF word
<1>7. word \in Effective
  BY <1>6, WordTypes
<1> DEFINE d == [c EXCEPT !.data = value]
<1>8. Moves(c, d)
  BY <1>4, SetLatches
<1> HIDE DEF d
<1>9. Moves(d, [d EXCEPT !.ea = word]) /\ [d EXCEPT !.ea = word].ea = word
  BY <1>7, <1>8, SetLatches DEF Moves
<1>10. QED
  BY <1>5, <1>6, <1>8, <1>9 DEF Moves, d

\* alu_prepare_store
LEMMA StoreKeeps ==
    ASSUME NEW c \in Core, NEW inst
    PROVE  LET d == PrepareStore(inst, c)
           IN  Moves(c, d) /\ (d.ea = c.ea \/ d.ea \in Address)
<1> DEFINE store(value) == [c EXCEPT !.data = value]
           m == inst.mnemonic
           d == PrepareStore(inst, c)
           Done(e) == Moves(c, e) /\ (e.ea = c.ea \/ e.ea \in Address)
<1>1. /\ c.a \in Byte /\ c.x \in Byte /\ c.y \in Byte /\ c.op0 \in Byte /\ c.s \in Byte
      /\ 0 \in Byte /\ 255 \in Byte
  BY CoreTypes DEF Byte
<1>2. And(c.a, c.x) \in Byte /\ StatusByte(c.flags \cup {"B"}) \in Byte
  <2>1. c.flags \cup {"B"} \in SUBSET Flags
    BY CoreTypes DEF Flags
  <2>2. QED
    BY <1>1, <2>1, LogicBytes, StatusBytes
<1>3. ASSUME NEW value \in Byte PROVE Done(store(value))
  BY SetLatches
<1> HIDE DEF store
<1>4. ASSUME NEW e \in Core, Moves(c, e), NEW a \in Byte, NEW offset, NEW op_reg \in Byte
      PROVE  Done(HPlusOneNonsense(e, a, offset, op_reg))
  BY <1>4, StoredNonsense DEF Moves
<1>5. Moves(c, c) /\ Done(c)
  BY DEF Moves
<1> DEFINE pulled == [c EXCEPT !.s = And(c.a, c.x)]
           sha == HPlusOneNonsense(c, c.a, c.y, c.x)
           tas == HPlusOneNonsense(pulled, c.a, c.y, c.x)
           shy == HPlusOneNonsense(c, 255, c.x, c.y)
           shx == HPlusOneNonsense(c, 255, c.y, c.x)
<1>6. d \in {store(c.op0), store(c.a), store(c.x), store(c.y), store(0),
             store(StatusByte(c.flags \cup {"B"})), store(And(c.a, c.x)), sha, tas, shy, shx, c}
  BY DEF PrepareStore, store
<1>7. Moves(c, pulled)
  BY <1>2, SetLatches
<1> HIDE DEF d, pulled, Done
<1>8. Done(sha) /\ Done(tas) /\ Done(shy) /\ Done(shx)
  BY <1>1, <1>4, <1>5, <1>7 DEF Moves
<1> HIDE DEF sha, tas, shy, shx
<1>9. Done(d)
  BY <1>1, <1>2, <1>3, <1>5, <1>6, <1>8
<1>10. QED
  BY <1>9 DEF Done, d

LEMMA LatchWritten ==
    ASSUME NEW c \in Core, NEW byte \in Byte,
           NEW latch \in {"None", "EaLo", "EaHi", "Op0", "PtrLo", "PtrHi", "PcLo", "PcHi",
                          "Status", "SignedOffset8"},
           latch \in {"EaLo", "EaHi"} => c.ea \in Address
    PROVE  LET d == WriteLatch(c, latch, byte)
           IN  /\ d \in Core /\ d.targets = c.targets /\ d.data = c.data
               /\ latch # "Status" => d.flags = c.flags
               /\ IF latch \in {"EaLo", "EaHi"} THEN d.ea \in Address ELSE d.ea = c.ea
<1> DEFINE d == WriteLatch(c, latch, byte)
           lo(n) == WithLow(n, byte)
           hi(n) == WithHigh(n, byte)
<1>1. /\ c.pc \in Address /\ c.ptr \in Address /\ c.ea \in Effective
      /\ Signed(byte) \in SignedByte
  BY CoreTypes, WordSums
<1>2. ASSUME NEW n \in Address PROVE lo(n) \in Address /\ hi(n) \in Address
  BY WordParts
<1> HIDE DEF lo, hi
<1>3. \A n \in Address : n \in Effective
  BY WordTypes
<1>4. CASE latch = "None"
  BY <1>4 DEF WriteLatch
<1>5. CASE latch = "EaLo"
  <2>1. d = [c EXCEPT !.ea = lo(c.ea)] /\ lo(c.ea) \in Address /\ lo(c.ea) \in Effective
    BY <1>2, <1>3, <1>5 DEF WriteLatch, lo
  <2> HIDE DEF d
  <2>2. d \in Core /\ d.targets = c.targets /\ d.data = c.data /\ d.flags = c.flags
        /\ d.ea = lo(c.ea)
    BY <2>1 DEF Core
  <2>3. QED
    BY <1>5, <2>1, <2>2 DEF d
<1>6. CASE latch = "EaHi"
  <2>1. d = [c EXCEPT !.ea = hi(c.ea)] /\ hi(c.ea) \in Address /\ hi(c.ea) \in Effective
    BY <1>2, <1>3, <1>6 DEF WriteLatch, hi
  <2> HIDE DEF d
  <2>2. d \in Core /\ d.targets = c.targets /\ d.data = c.data /\ d.flags = c.flags
        /\ d.ea = hi(c.ea)
    BY <2>1 DEF Core
  <2>3. QED
    BY <1>6, <2>1, <2>2 DEF d
<1>7. CASE latch = "Op0"
  <2>1. d = [c EXCEPT !.op0 = byte]
    BY <1>7 DEF WriteLatch
  <2> HIDE DEF d
  <2>2. QED
    BY <1>7, <2>1 DEF Core, d
<1>8. CASE latch \in {"PtrLo", "PtrHi"}
  <2> DEFINE n == IF latch = "PtrLo" THEN lo(c.ptr) ELSE hi(c.ptr)
  <2>1. d = [c EXCEPT !.ptr = n] /\ n \in Address
    BY <1>1, <1>2, <1>8 DEF WriteLatch, lo, hi
  <2> HIDE DEF d, n
  <2>2. d \in Core /\ d.targets = c.targets /\ d.data = c.data /\ d.flags = c.flags
        /\ d.ea = c.ea
    BY <2>1 DEF Core
  <2>3. QED
    BY <1>8, <2>2 DEF d
<1>9. CASE latch \in {"PcLo", "PcHi"}
  <2> DEFINE n == IF latch = "PcLo" THEN lo(c.pc) ELSE hi(c.pc)
  <2>1. d = [c EXCEPT !.pc = n] /\ n \in Address
    BY <1>1, <1>2, <1>9 DEF WriteLatch, lo, hi
  <2> HIDE DEF d, n
  <2>2. d \in Core /\ d.targets = c.targets /\ d.data = c.data /\ d.flags = c.flags
        /\ d.ea = c.ea
    BY <2>1 DEF Core
  <2>3. QED
    BY <1>9, <2>2 DEF d
<1>10. CASE latch = "Status"
  <2> DEFINE flags == PulledFlags(byte)
  <2>1. d = [c EXCEPT !.flags = flags] /\ flags \in SUBSET Flags
    BY <1>10, StatusBytes DEF WriteLatch, PulledFlags, Flags
  <2> HIDE DEF d, flags
  <2>2. d \in Core /\ d.targets = c.targets /\ d.data = c.data /\ d.ea = c.ea
    BY <2>1 DEF Core
  <2>3. QED
    BY <1>10, <2>2 DEF d
<1>11. CASE latch = "SignedOffset8"
  <2> DEFINE n == Signed(byte)
  <2> HIDE DEF n
  <2>0. n \in SignedByte
    BY WordSums DEF n
  <2>1. d = [c EXCEPT !.signed_offset8 = n]
    BY <1>11 DEF WriteLatch, n
  <2> HIDE DEF d
  <2>2. Moves(c, d) /\ d.ea = c.ea
    BY <2>0, <2>1, SetLatches
  <2>3. d.data = c.data
    BY <2>1 DEF Core
  <2>4. QED
    BY <1>11, <2>2, <2>3 DEF Moves, d
<1>12. QED
  BY <1>4, <1>5, <1>6, <1>7, <1>8, <1>9, <1>10, <1>11

\* add_offset
LEMMA LatchAdded ==
    ASSUME NEW c \in Core, NEW offset \in Byte, NEW latch \in {"Pc", "Sp", "Ea", "EaLo", "PtrLo"},
           latch = "Ea" => c.ea + offset \in Effective,
           latch = "EaLo" => c.ea \in Address
    PROVE  LET d == AddToLatch(c, latch, offset)
           IN  /\ Moves(c, d) /\ d.data = c.data /\ d.op0 = c.op0
               /\ d.ea = CASE latch = "Ea" -> c.ea + offset
                           [] latch = "EaLo" -> WithLow(c.ea, (Low(c.ea) + offset) % 256)
                           [] OTHER -> c.ea
               /\ latch = "EaLo" => d.ea \in Address
<1> DEFINE d == AddToLatch(c, latch, offset)
           low(n) == WithLow(n, (Low(n) + offset) % 256)
<1>1. c.pc \in Address /\ c.ptr \in Address /\ c.ea \in Effective /\ c.s \in Byte
  BY CoreTypes
<1>2. ASSUME NEW n \in Address PROVE low(n) \in Address
  <2>1. Low(n) \in Byte
    BY WordTypes
  <2>2. (Low(n) + offset) % 256 \in Byte
    BY <2>1, WordSums, WordTypes
  <2>3. QED
    BY <2>2, WordParts
<1>3. (c.pc + offset) % 65536 \in Address /\ (c.s + offset) % 256 \in Byte
  <2>1. c.pc + offset \in Int /\ c.s + offset \in Int
    BY <1>1, WordTypes
  <2>2. QED
    BY <2>1, WordSums
<1>4. \A n \in Address : n \in Effective
  BY WordTypes
<1> HIDE DEF low
<1>5. CASE latch = "Pc"
  <2> DEFINE n == (c.pc + offset) % 65536
  <2>1. d = [c EXCEPT !.pc = n] /\ n \in Address
    BY <1>3, <1>5 DEF AddToLatch
  <2> HIDE DEF d, n
  <2>2. QED
    BY <1>5, <2>1 DEF Core, Moves, d
<1>6. CASE latch = "Sp"
  <2> DEFINE n == (c.s + offset) % 256
  <2>1. d = [c EXCEPT !.s = n] /\ n \in Byte
    BY <1>3, <1>6 DEF AddToLatch
  <2> HIDE DEF d, n
  <2>2. QED
    BY <1>6, <2>1 DEF Core, Moves, d
<1>7. CASE latch = "Ea"
  <2> DEFINE n == c.ea + offset
  <2>1. d = [c EXCEPT !.ea = n] /\ n \in Effective
    BY <1>7 DEF AddToLatch
  <2> HIDE DEF d, n
  <2>2. Moves(c, d) /\ d.data = c.data /\ d.op0 = c.op0 /\ d.ea = n
    BY <2>1 DEF Core, Moves
  <2>3. QED
    BY <1>7, <2>2 DEF d, n
<1>8. CASE latch = "EaLo"
  <2> DEFINE n == low(c.ea)
  <2>1. d = [c EXCEPT !.ea = n] /\ n \in Effective /\ n \in Address
    BY <1>2, <1>4, <1>8 DEF AddToLatch, low
  <2> HIDE DEF d, n
  <2>2. Moves(c, d) /\ d.data = c.data /\ d.op0 = c.op0 /\ d.ea = n
    BY <2>1 DEF Core, Moves
  <2>3. QED
    BY <1>8, <2>1, <2>2 DEF d, n, low
<1>9. CASE latch = "PtrLo"
  <2> DEFINE n == low(c.ptr)
  <2>1. d = [c EXCEPT !.ptr = n] /\ n \in Address
    BY <1>1, <1>2, <1>9 DEF AddToLatch, low
  <2> HIDE DEF d, n
  <2>2. QED
    BY <1>9, <2>1 DEF Core, Moves, d
<1>10. QED
  BY <1>5, <1>6, <1>7, <1>8, <1>9

-----------------------------------------------------------------------------
(* The micro-ops, by what they do to the effective address.                *)

\* Ops that put the address together from bytes
Builds ==
    {op \in MicroOp :
        /\ op.bus.read
        /\ op.inc_src => op.bus.addr \in {"Pc", "PtrLo"}
        /\ \/ op.local_latch \in {"EaLo", "EaHi"} /\ op.alu.op \in {"None", "SwapEaPc"}
           \/ /\ op.local_latch = "None" /\ ~op.inc_src
              /\ op.alu.op = "AddOffset" /\ op.alu.latch = "EaLo"}

\* Ops that add an index which may carry
Indexes ==
    {op \in MicroOp :
        /\ op.bus.read /\ ~op.inc_src
        /\ \/ /\ op.bus.addr = "Ea" /\ op.local_latch = "Op0"
              /\ op.alu.op = "OffsetWithExtraCycle"
           \/ /\ op.bus.addr = "Pc" /\ op.local_latch = "None"
              /\ op.alu.op = "SpecialAddOffset"}

\* Ops that go on to the next byte
Increments ==
    {op \in MicroOp :
        /\ op.bus.read /\ op.bus.addr = "Ea" /\ op.inc_src
        /\ op.local_latch \in {"PcLo", "PcHi"} /\ op.alu.op = "None"}

\* Ops that leave it alone, or swap it with PC
Others ==
    {op \in MicroOp :
        /\ op.local_latch \in IF op.bus.read
                              THEN {"None", "Op0", "PtrLo", "PtrHi", "PcLo", "PcHi", "Status",
                                    "SignedOffset8"}
                              ELSE {"None", "PcLo", "PcHi", "Status", "BrkStatus"}
        /\ op.inc_src => op.bus.addr \in {"Pc", "Sp", "PtrLo"}
        /\ op.alu.op \notin {"OffsetWithExtraCycle", "SpecialAddOffset"}
        /\ op.alu.op \in {"AddOffset", "IncLatch"} => op.alu.latch = "PtrLo"}

LEMMA ClassesApart ==
    ASSUME NEW op
    PROVE  /\ op \in Builds => op \notin Indexes /\ op \notin Increments /\ op \notin Others
           /\ op \in Indexes => op \notin Increments /\ op \notin Others
           /\ op \in Increments => op \notin Others
BY DEF Builds, Indexes, Increments, Others

\* The addresses after one index
IndexedOnce == {n \in Nat : n < 65536 + 255}

LEMMA EffectiveSums ==
    /\ \A n \in Address, b \in Byte : n + b \in IndexedOnce
    /\ \A n \in Address : n \in IndexedOnce
    /\ \A n \in IndexedOnce : n + 1 \in Effective /\ n \in Effective
<1>1. \A n \in Address, b \in Byte : n + b \in IndexedOnce
  <2> TAKE n \in Address, b \in Byte
  <2>1. n \in Nat /\ n < 65536 /\ b \in Nat /\ b <= 255
    BY WordTypes DEF Address
  <2>2. QED
    BY <2>1 DEF IndexedOnce
<1>2. QED
  BY <1>1 DEF IndexedOnce, Address, Effective

\* What an op needs of the effective address
Fitting(op, ea) ==
    /\ op \in Builds \cup Indexes => ea \in Address
    /\ op \in Increments => ea \in IndexedOnce

-----------------------------------------------------------------------------
(* One micro-op.                                                           *)

\* The access, but for the op whose index may take a cycle of its own
LEMMA AccessMade ==
    ASSUME NEW c \in Core, NEW op \in Builds \cup Increments \cup Others,
           Fitting(op, c.ea), NEW byte \in Byte
    PROVE  LET ready == BeforeAccess(c, op)
               done == AfterAccess(ready, op, byte)
           IN  /\ ready \in Core /\ done \in Core /\ done.targets = c.targets
               /\ done.flags = c.flags \/ (op.bus.read /\ op.local_latch = "Status")
               /\ op \in Builds => done.ea \in Address
               /\ op \in Increments => done.ea = c.ea + 1
               /\ op \in Others => done.ea = c.ea \/ done.ea \in Address
<1> DEFINE ready == BeforeAccess(c, op)
           read == [ready EXCEPT !.data = byte]
           moved == IF op.bus.read THEN WriteLatch(read, op.local_latch, byte)
                    ELSE [ready EXCEPT !.data = ReadLatch(ready, op.local_latch)]
           done == AfterAccess(ready, op, byte)
<1>0. op \in MicroOp /\ op.bus.read \in BOOLEAN /\ op.inc_src \in BOOLEAN
  BY DEF Builds, Increments, Others, MicroOp, BusCycleType
<1>1. Moves(c, ready) /\ (ready.ea = c.ea \/ (~op.bus.read /\ ready.ea \in Address))
  <2>1. op.alu.op # "OffsetWithExtraCycle"
    BY DEF Builds, Increments, Others
  <2>2. ready = IF op.bus.read THEN c ELSE PrepareStore(current_inst, c)
    BY <2>1 DEF BeforeAccess
  <2> HIDE DEF ready
  <2>3. CASE op.bus.read
    BY <2>2, <2>3 DEF Moves
  <2>4. CASE ~op.bus.read
    BY <2>2, <2>4, StoreKeeps
  <2>5. QED
    BY <2>3, <2>4
<1>2. done = IF op.inc_src THEN AddToLatch(moved, op.bus.addr, 1) ELSE moved
  BY DEF AfterAccess
<1> HIDE DEF ready, done
<1>3. ready \in Core
  BY <1>1 DEF Moves
<1>4. /\ moved \in Core /\ moved.targets = c.targets
      /\ moved.flags = c.flags \/ (op.bus.read /\ op.local_latch = "Status")
      /\ op \in Builds => moved.ea \in Address
      /\ op \in Increments => moved.ea = c.ea
      /\ op \in Others => moved.ea = c.ea \/ moved.ea \in Address
  <2>1. CASE op.bus.read
    <3>1. /\ op.local_latch \in {"None", "EaLo", "EaHi", "Op0", "PtrLo", "PtrHi", "PcLo", "PcHi",
                                 "Status", "SignedOffset8"}
          /\ op \notin Builds => op.local_latch \notin {"EaLo", "EaHi"}
      BY <2>1, ClassesApart DEF Builds, Increments, Others
    <3>2. ready.ea = c.ea /\ (op \in Builds => c.ea \in Address)
      BY <1>1, <2>1 DEF Fitting
    <3>3. Moves(ready, read) /\ read.ea = ready.ea
      BY <1>3, SetLatches
    <3>4. moved = WriteLatch(read, op.local_latch, byte)
      BY <2>1
    <3> HIDE DEF read, moved
    <3>5. /\ read \in Core /\ read.ea = c.ea /\ read.targets = c.targets /\ read.flags = c.flags
      BY <1>1, <3>2, <3>3 DEF Moves
    <3> DEFINE latch == op.local_latch
    <3>6. latch \in {"EaLo", "EaHi"} => read.ea \in Address
      BY <3>1, <3>2, <3>5
    <3>7. /\ moved \in Core /\ moved.targets = read.targets
          /\ latch # "Status" => moved.flags = read.flags
          /\ IF latch \in {"EaLo", "EaHi"} THEN moved.ea \in Address ELSE moved.ea = read.ea
      BY <3>1, <3>4, <3>5, <3>6, LatchWritten
    <3>8. moved.ea = c.ea \/ (op \in Builds /\ moved.ea \in Address)
      BY <3>1, <3>5, <3>7
    <3>9. QED
      BY <2>1, <3>2, <3>5, <3>7, <3>8, ClassesApart
  <2>2. CASE ~op.bus.read
    <3>1. op \in Others /\ op \notin Builds /\ op \notin Increments
      BY <2>2, ClassesApart DEF Builds, Increments
    <3>2. op.local_latch \in {"None", "PcLo", "PcHi", "Status", "BrkStatus"}
      BY <2>2, <3>1 DEF Others
    <3> DEFINE b == ReadLatch(ready, op.local_latch)
    <3>3. b \in Byte
      <4>1. ready.data \in Byte /\ Low(ready.pc) \in Byte /\ High(ready.pc) \in Byte
        BY <1>3, CoreTypes, WordTypes
      <4>2. ready.flags \in SUBSET Flags /\ ready.flags \cup {"B", "U"} \in SUBSET Flags
        BY <1>3, CoreTypes DEF Flags
      <4>3. StatusByte(ready.flags) \in Byte /\ StatusByte(ready.flags \cup {"B", "U"}) \in Byte
        BY <4>2, StatusBytes
      <4>4. QED
        BY <3>2, <4>1, <4>3 DEF ReadLatch
    <3>4. moved = [ready EXCEPT !.data = b]
      BY <2>2
    <3> HIDE DEF b, moved
    <3>5. Moves(ready, moved) /\ moved.ea = ready.ea
      BY <1>3, <3>3, <3>4, SetLatches
    <3>6. QED
      BY <1>1, <3>1, <3>5 DEF Moves
  <2>3. QED
    BY <2>1, <2>2
<1> HIDE DEF moved
<1>5. CASE ~op.inc_src
  <2>1. done = moved /\ op \notin Increments
    BY <1>2, <1>5 DEF Increments
  <2>2. QED
    BY <1>3, <1>4, <2>1 DEF ready, done
<1>6. CASE op.inc_src
  <2> DEFINE addr == op.bus.addr
  <2>1. /\ addr \in {"Pc", "Sp", "Ea", "PtrLo"}
        /\ addr = "Ea" <=> op \in Increments
    BY <1>6, ClassesApart DEF Builds, Increments, Others
  <2>2. addr = "Ea" => moved.ea + 1 \in Effective /\ moved.ea = c.ea
    <3> SUFFICES ASSUME addr = "Ea" PROVE moved.ea + 1 \in Effective /\ moved.ea = c.ea
      OBVIOUS
    <3>1. op \in Increments
      BY <2>1
    <3>2. c.ea \in IndexedOnce
      BY <3>1 DEF Fitting
    <3>3. QED
      BY <1>4, <3>1, <3>2, EffectiveSums
  <2>3. 1 \in Byte
    BY DEF Byte
  <2>4. done = AddToLatch(moved, addr, 1)
    BY <1>2, <1>6
  <2>5. /\ Moves(moved, AddToLatch(moved, addr, 1))
        /\ addr = "Ea" => AddToLatch(moved, addr, 1).ea = moved.ea + 1
        /\ addr # "Ea" => AddToLatch(moved, addr, 1).ea = moved.ea
    BY <1>4, <2>1, <2>2, <2>3, LatchAdded
  <2>6. op \in Others \/ op \in Builds => op \notin Increments
    BY ClassesApart
  <2> HIDE DEF addr
  <2>7. Moves(moved, done) /\ (addr = "Ea" => done.ea = moved.ea + 1)
        /\ (addr # "Ea" => done.ea = moved.ea)
    BY <2>4, <2>5
  <2>8. QED
    BY <1>3, <1>4, <2>1, <2>2, <2>6, <2>7 DEF Moves, ready, done
<1>7. QED
  BY <1>0, <1>5, <1>6

\* The operation after the access, but for the index that may take a cycle of its own
LEMMA AluMade ==
    ASSUME NEW d \in Core, NEW op \in Builds \cup Increments \cup Others \cup Indexes,
           op.alu.op # "OffsetWithExtraCycle",
           op.alu.op = "SetPc" => d.targets # << >>,
           op \in Builds \cup Indexes => d.ea \in Address,
           current_opcode \in 0..255
    PROVE  LET e == AluEffect(d, op)
           IN  /\ e \in Core /\ e.flags \cap {"I", "D"} = d.flags \cap {"I", "D"}
               /\ e.targets = CASE op.alu.op = "SetPc" -> Tail(d.targets)
                                [] op.alu.op = "Branch" /\ Taken(op, d) -> BranchTargets(d)
                                [] OTHER -> d.targets
               /\ op.alu.op # "Modify" => e.op0 = d.op0
               /\ op \in Builds => e.ea \in Address
               /\ op \in Indexes => e.ea \in IndexedOnce
               /\ op \in Increments => e.ea = d.ea
               /\ op \in Others => e.ea = d.ea \/ e.ea \in Address
<1> DEFINE e == AluEffect(d, op)
           o == op.alu.op
<1>1. /\ d.pc \in Address /\ d.ptr \in Address /\ d.ea \in Effective /\ d.s \in Byte
      /\ d.x \in Byte /\ d.y \in Byte /\ d.targets \in Seq(Address)
  BY CoreTypes
<1>0. d.ea \in Nat /\ d.pc \in Nat /\ d.ptr \in Nat
  BY <1>1, WordTypes
<1>2. o \in {"None", "AddOffset", "DecSp", "Modify", "SwapEaPc", "IncLatch", "Branch", "SetPc",
             "Jam", "FixPtr", "SpecialAddOffset"}
  <2>1. op \in MicroOp
    BY DEF Builds, Increments, Others, Indexes
  <2>2. QED
    BY <2>1 DEF MicroOp, AluOpType
<1>3. /\ op \in Builds => o \in {"None", "SwapEaPc", "AddOffset"}
      /\ op \in Indexes <=> o = "SpecialAddOffset"
      /\ op \in Increments => o = "None"
      /\ o = "AddOffset" => op.alu.latch = IF op \in Builds THEN "EaLo" ELSE "PtrLo"
      /\ o = "IncLatch" => op.alu.latch = "PtrLo"
  BY ClassesApart DEF Builds, Increments, Others, Indexes
<1>4. d.ea \in Address /\ op \in Indexes => d.ea + d.x \in IndexedOnce
  BY <1>1, EffectiveSums
<1>5. CASE o \in {"None", "Jam"}
  <2>1. e = d
    BY <1>5 DEF AluEffect
  <2>2. QED
    BY <1>3, <1>5, <2>1
<1>6. CASE o \in {"AddOffset", "IncLatch"}
  <2> DEFINE latch == op.alu.latch
             offset == IF o = "IncLatch" THEN 1 ELSE IndexRegister(d, op.alu.offset)
  <2>1. e = AddToLatch(d, latch, offset)
    BY <1>6 DEF AluEffect
  <2>2. offset \in Byte
    BY <1>1 DEF IndexRegister, Byte
  <2> HIDE DEF offset, e
  <2>3. latch \in {"EaLo", "PtrLo"} /\ (latch = "EaLo" <=> op \in Builds)
        /\ op \notin Indexes /\ op \notin Increments
    BY <1>3, <1>6
  <2>4. /\ Moves(d, e) /\ e.op0 = d.op0
        /\ latch = "EaLo" => e.ea \in Address
        /\ latch = "PtrLo" => e.ea = d.ea
    BY <2>1, <2>2, <2>3, LatchAdded
  <2>5. QED
    BY <1>6, <2>3, <2>4 DEF Moves, e
<1>7. CASE o = "DecSp"
  <2> DEFINE s == (d.s - 1) % 256
  <2>1. e = [d EXCEPT !.s = s]
    BY <1>7 DEF AluEffect
  <2>2. s \in Byte
    BY <1>1, ByteSteps
  <2> HIDE DEF s, e
  <2>3. e \in Core /\ e.flags = d.flags /\ e.targets = d.targets /\ e.op0 = d.op0 /\ e.ea = d.ea
    BY <2>1, <2>2 DEF Core
  <2>4. QED
    BY <1>3, <1>7, <2>3 DEF e
<1>8. CASE o = "Modify"
  <2>1. e = ModifyEffect(F, current_inst.mnemonic, current_opcode, d)
    BY <1>8 DEF AluEffect
  <2>2. Keeps(d, ModifyEffect(F, current_inst.mnemonic, current_opcode, d))
    BY ModifyKeeps
  <2> HIDE DEF e
  <2>3. QED
    BY <1>3, <1>8, <2>1, <2>2 DEF Keeps, e
<1>9. CASE o = "SwapEaPc"
  <2> DEFINE n == d.ea % 65536
             pc == d.pc
  <2>1. e = [d EXCEPT !.pc = n, !.ea = pc]
    BY <1>9 DEF AluEffect
  <2>2. n \in Address /\ pc \in Address /\ pc \in Effective
    <3> DEFINE ea == d.ea
    <3>1. ea \in Int
      BY <1>0
    <3> HIDE DEF ea
    <3>2. ea % 65536 \in Address
      BY <3>1, WordSums
    <3>3. n \in Address
      BY <3>2 DEF ea
    <3> HIDE DEF n
    <3>4. QED
      BY <1>1, <3>3, WordTypes
  <2> HIDE DEF n, e, pc
  <2>3. e \in Core /\ e.flags = d.flags /\ e.targets = d.targets /\ e.op0 = d.op0 /\ e.ea = pc
    BY <2>1, <2>2 DEF Core
  <2>4. QED
    BY <1>3, <1>9, <2>2, <2>3 DEF e
<1>10. CASE o = "Branch"
  <2> DEFINE targets == BranchTargets(d)
  <2>1. e = IF Taken(op, d) THEN [d EXCEPT !.targets = targets] ELSE d
    BY <1>10 DEF AluEffect
  <2>2. targets \in Seq(Address)
    <3>1. BranchTarget(d) \in Address
      <4>1. d.signed_offset8 \in Int
        BY CoreTypes DEF SignedByte
      <4>2. d.pc + d.signed_offset8 \in Int
        BY <1>0, <4>1
      <4>3. QED
        BY <4>2, WordSums DEF BranchTarget
    <3>2. WithLow(d.pc, Low(BranchTarget(d))) \in Address
      BY <1>1, <3>1, WordTypes, WordParts
    <3>3. QED
      BY <3>1, <3>2 DEF BranchTargets
  <2> HIDE DEF targets, e
  <2>3. CASE Taken(op, d)
    <3>1. /\ e \in Core /\ e.flags = d.flags /\ e.targets = targets /\ e.op0 = d.op0
          /\ e.ea = d.ea
      BY <2>1, <2>2, <2>3 DEF Core
    <3>2. QED
      BY <1>3, <1>10, <2>3, <3>1 DEF e, targets
  <2>4. CASE ~Taken(op, d)
    BY <1>3, <1>10, <2>1, <2>4 DEF e
  <2>5. QED
    BY <2>3, <2>4
<1>11. CASE o = "SetPc"
  <2> DEFINE n == Head(d.targets)
             rest == Tail(d.targets)
  <2>1. e = [d EXCEPT !.pc = n, !.targets = rest]
    BY <1>11 DEF AluEffect
  <2>2. n \in Address /\ rest \in Seq(Address)
    BY <1>1, <1>11, HeadTailProperties
  <2> HIDE DEF n, rest, e
  <2>3. e \in Core /\ e.flags = d.flags /\ e.targets = rest /\ e.op0 = d.op0 /\ e.ea = d.ea
    BY <2>1, <2>2 DEF Core
  <2>4. QED
    BY <1>3, <1>11, <2>3 DEF e, rest
<1>12. CASE o = "FixPtr"
  <2> DEFINE n == (d.ptr + 256) % 65536
  <2>1. e = [d EXCEPT !.ptr = n] \/ e = d
    BY <1>12 DEF AluEffect
  <2>2. n \in Address
    <3>1. d.ptr + 256 \in Int
      BY <1>0
    <3>2. QED
      BY <3>1, WordSums
  <2> HIDE DEF n, e
  <2>3. e \in Core /\ e.flags = d.flags /\ e.targets = d.targets /\ e.op0 = d.op0 /\ e.ea = d.ea
    BY <2>1, <2>2 DEF Core
  <2>4. QED
    BY <1>3, <1>12, <2>3 DEF e
<1>13. CASE o = "SpecialAddOffset"
  <2> DEFINE n == d.ea + d.x
  <2>1. e = [d EXCEPT !.ea = n]
    BY <1>13 DEF AluEffect
  <2>2. n \in IndexedOnce /\ n \in Effective
    BY <1>3, <1>4, <1>13, EffectiveSums
  <2> HIDE DEF n, e
  <2>3. e \in Core /\ e.flags = d.flags /\ e.targets = d.targets /\ e.op0 = d.op0 /\ e.ea = n
    BY <2>1, <2>2 DEF Core
  <2>4. QED
    BY <1>3, <1>13, <2>2, <2>3, ClassesApart DEF e
<1>14. QED
  BY <1>2, <1>5, <1>6, <1>7, <1>8, <1>9, <1>10, <1>11, <1>12, <1>13

\* The index that may take a cycle of its own
LEMMA OffsetMade ==
    ASSUME core \in Core, core.ea \in Address, NEW op \in Indexes,
           op.alu.op = "OffsetWithExtraCycle", NEW byte \in Byte
    PROVE  LET ready == BeforeAccess(core, op)
               done == AfterAccess(ready, op, byte)
               e == AluEffect(done, op)
           IN  /\ e \in Core /\ e.flags = core.flags /\ e.targets = core.targets
               /\ e.ea \in IndexedOnce /\ e.op0 = done.op0
               /\ done.flags = core.flags /\ done.data = byte
               /\ AccessAddress(ready, op) \in Effective \cup {-1}
<1> DEFINE offset == op.alu.offset
           index == IndexRegister(core, offset)
           unfixed == Unfixed(core, offset)
           target == TargetEa(core, offset)
           dummy == NeedsDummy(unfixed # target)
           x == IF dummy THEN DummyEa(core, unfixed) ELSE unfixed
           ready == BeforeAccess(core, op)
           done == AfterAccess(ready, op, byte)
           e == AluEffect(done, op)
<1>1. /\ op.bus.read /\ ~op.inc_src /\ op.bus.addr = "Ea" /\ op.local_latch = "Op0"
  BY DEF Indexes
<1>2. index \in Byte
  BY CoreTypes DEF IndexRegister, Byte
<1>3. unfixed \in Address
  <2>1. Low(core.ea) \in Byte
    BY WordTypes
  <2> DEFINE n == Low(core.ea) + index
  <2>2. n \in Int
    BY <1>2, <2>1, WordTypes
  <2> HIDE DEF n
  <2>3. n % 256 \in Byte
    BY <2>2, WordSums
  <2>4. QED
    BY <2>3, WordParts DEF n, Unfixed
<1>4. target \in IndexedOnce /\ target \in Effective
  BY <1>2, EffectiveSums DEF TargetEa
<1>5. x \in Effective \cup {-1}
  <2>1. core.pc \in Nat /\ core.pc < 65536
    <3>1. core.pc \in Address
      BY CoreTypes
    <3>2. QED
      BY <3>1 DEF Address
  <2>2. core.pc - 1 \in Effective \cup {-1}
    BY <2>1 DEF Effective
  <2>3. QED
    BY <1>3, <2>2, WordTypes DEF DummyEa
<1>6. ready = [core EXCEPT !.ea = x]
  BY <1>1 DEF BeforeAccess
<1>7. done = [[ready EXCEPT !.data = byte] EXCEPT !.op0 = byte]
  BY <1>1 DEF AfterAccess, WriteLatch
<1>8. e = IF dummy THEN [done EXCEPT !.ea = target] ELSE done
  BY DEF AluEffect, Crosses
<1>9. AccessAddress(ready, op) = ready.ea - 0
  BY <1>1 DEF AccessAddress, AddressOf
<1>10. ~dummy => x = unfixed
  OBVIOUS
<1> HIDE DEF index, unfixed, target, dummy, x, ready, done, e
<1>11. /\ ready.ea = x /\ done.flags = core.flags /\ done.data = byte /\ done.op0 = byte
  BY <1>6, <1>7 DEF Core
<1>12. AccessAddress(ready, op) = x
  <2>1. x \in Int
    BY <1>5, WordTypes
  <2>2. x - 0 = x
    BY <2>1
  <2>3. QED
    BY <1>9, <1>11, <2>2
<1>13. CASE dummy
  <2>1. e = [done EXCEPT !.ea = target]
    BY <1>8, <1>13
  <2>2. /\ e \in Core /\ e.flags = core.flags /\ e.targets = core.targets /\ e.ea = target
        /\ e.op0 = byte
    BY <1>4, <1>6, <1>7, <2>1 DEF Core
  <2>3. QED
    BY <1>4, <1>5, <1>11, <1>12, <2>2 DEF e, done, ready
<1>14. CASE ~dummy
  <2>1. e = done /\ x = unfixed
    BY <1>8, <1>10, <1>14
  <2>2. unfixed \in IndexedOnce /\ unfixed \in Effective
    BY <1>3, EffectiveSums
  <2>3. /\ e \in Core /\ e.flags = core.flags /\ e.targets = core.targets /\ e.ea = unfixed
    BY <1>6, <1>7, <2>1, <2>2 DEF Core
  <2>4. QED
    BY <1>5, <1>11, <1>12, <2>1, <2>2, <2>3 DEF e, done, ready
<1>15. QED
  BY <1>13, <1>14

LEMMA AddressTypes ==
    ASSUME NEW c \in Core, NEW op \in MicroOp, op.bus.addr \in Addressable,
           op.alu.op = "SpecialAddOffset" => op.bus.addr = "Pc"
    PROVE  AccessAddress(c, op) \in Effective \cup {-1}
<1> DEFINE addr == AddressOf(op.bus.addr, c)
           n == IF op.alu.op = "SpecialAddOffset" THEN 1 ELSE 0
<1>1. c.pc \in Address /\ c.ptr \in Address /\ c.ea \in Effective /\ c.s \in Byte
  BY CoreTypes
<1>2. /\ c.pc \in Nat /\ c.ptr \in Nat /\ c.ea \in Nat /\ c.s \in Nat /\ c.s <= 255
      /\ c.pc < 65536
  BY <1>1, WordTypes DEF Address
<1>3. Low(c.ea) \in Nat /\ Low(c.ea) <= 255 /\ Low(c.ptr) \in Nat /\ Low(c.ptr) <= 255
  BY <1>2, WordTypes
<1>4. 256 + c.s \in Effective
  BY <1>2 DEF Effective
<1>5. Low(c.ea) \in Effective /\ Low(c.ptr) \in Effective
  BY <1>3 DEF Effective
<1>6. 65530 \in Effective /\ 65531 \in Effective /\ 65534 \in Effective /\ 65535 \in Effective
  BY DEF Effective
<1>7. addr \in {c.pc, 256 + c.s, c.ea, Low(c.ea), c.ptr, Low(c.ptr), 65530, 65531, 65534, 65535}
  BY DEF AddressOf, Addressable, VectorAddresses
<1>8. addr \in Effective
  BY <1>1, <1>4, <1>5, <1>6, <1>7, WordTypes
<1>9. AccessAddress(c, op) = addr - n
  BY DEF AccessAddress
<1>10. CASE op.alu.op = "SpecialAddOffset"
  <2>1. addr = c.pc /\ n = 1
    BY <1>10 DEF AddressOf
  <2>2. c.pc - 1 \in Effective \cup {-1}
    BY <1>2 DEF Effective
  <2>3. QED
    BY <1>9, <2>1, <2>2
<1>11. CASE op.alu.op # "SpecialAddOffset"
  <2>1. n = 0 /\ addr \in Nat
    BY <1>8, <1>11, WordTypes
  <2> HIDE DEF addr, n
  <2>2. addr - n = addr
    BY <2>1
  <2>3. QED
    BY <1>8, <1>9, <2>2
<1>12. QED
  BY <1>10, <1>11

\* What an op leaves: `e` of the core, `done` of the core after the access, `addr` the
\* address accessed.
Executed(op, addr, done, e) ==
    /\ e \in Core /\ addr \in Effective \cup {-1} /\ done.data \in Byte
    /\ done.flags = core.flags \/ (op.bus.read /\ op.local_latch = "Status")
    /\ e.flags \cap {"I", "D"} = done.flags \cap {"I", "D"}
    /\ op.alu.op # "Modify" => e.op0 = done.op0
    /\ op.alu.op = "Branch" => done \in Core
    /\ e.targets = CASE op.alu.op = "SetPc" -> Tail(core.targets)
                     [] op.alu.op = "Branch" /\ Taken(op, done) -> BranchTargets(done)
                     [] OTHER -> core.targets
    /\ op \in Builds => e.ea \in Address
    /\ op \in Indexes => e.ea \in IndexedOnce
    /\ op \in Others => e.ea = core.ea \/ e.ea \in Address

LEMMA OpMade ==
    ASSUME core \in Core, NEW op \in Builds \cup Indexes \cup Increments \cup Others,
           Fitting(op, core.ea), op.bus.addr \in Addressable,
           op.alu.op = "SetPc" => core.targets # << >>,
           current_opcode \in 0..255, NEW byte \in Byte
    PROVE  LET ready == BeforeAccess(core, op)
               done == AfterAccess(ready, op, byte)
           IN  Executed(op, AccessAddress(ready, op), done, AluEffect(done, op))
<1> DEFINE ready == BeforeAccess(core, op)
           done == AfterAccess(ready, op, byte)
           addr == AccessAddress(ready, op)
           e == AluEffect(done, op)
<1>1. op \in Builds \cup Indexes => core.ea \in Address
  BY DEF Fitting
<1>2. CASE op.alu.op = "OffsetWithExtraCycle"
  <2>1. op \in Indexes
    BY <1>2, ClassesApart DEF Builds, Increments, Others
  <2>2. op \notin Builds /\ op \notin Increments /\ op \notin Others
    BY <2>1, ClassesApart
  <2>3. /\ e \in Core /\ e.flags = core.flags /\ e.targets = core.targets
        /\ e.ea \in IndexedOnce /\ e.op0 = done.op0
        /\ done.flags = core.flags /\ done.data = byte
        /\ addr \in Effective \cup {-1}
    BY <1>1, <1>2, <2>1, OffsetMade
  <2> HIDE DEF e, done, addr
  <2>4. Executed(op, addr, done, e)
    BY <1>2, <2>2, <2>3 DEF Executed
  <2>5. QED
    BY <2>4 DEF e, done, addr
<1>3. CASE op \in Indexes /\ op.alu.op = "SpecialAddOffset"
  <2>0. /\ op \notin Builds /\ op \notin Increments /\ op \notin Others /\ op \in MicroOp
        /\ op.bus.addr = "Pc"
    BY <1>3, ClassesApart DEF Indexes
  <2>1. ready = core
    BY <1>3 DEF BeforeAccess, Indexes
  <2>2. done = [core EXCEPT !.data = byte]
    BY <1>3, <2>1 DEF AfterAccess, WriteLatch, Indexes
  <2> HIDE DEF ready
  <2>3. addr \in Effective \cup {-1}
    BY <2>0, <2>1, AddressTypes
  <2> HIDE DEF done, addr
  <2>4. /\ done \in Core /\ done.ea = core.ea /\ done.data = byte /\ done.flags = core.flags
        /\ done.targets = core.targets
    BY <2>2, SetLatches DEF Moves
  <2>5. /\ e \in Core /\ e.flags \cap {"I", "D"} = done.flags \cap {"I", "D"}
        /\ e.targets = done.targets /\ e.op0 = done.op0 /\ e.ea \in IndexedOnce
    BY <1>1, <1>3, <2>4, AluMade
  <2> HIDE DEF e
  <2>6. Executed(op, addr, done, e)
    BY <1>3, <2>0, <2>3, <2>4, <2>5 DEF Executed
  <2>7. QED
    BY <2>6 DEF e, done, addr, ready
<1>4. CASE op \notin Indexes
  <2>0. op \in Builds \cup Increments \cup Others /\ op \in MicroOp
    BY <1>4 DEF Builds, Increments, Others
  <2>1. op.alu.op \notin {"OffsetWithExtraCycle", "SpecialAddOffset"}
    BY <2>0 DEF Builds, Increments, Others
  <2>2. /\ ready \in Core /\ done \in Core /\ done.targets = core.targets
        /\ done.flags = core.flags \/ (op.bus.read /\ op.local_latch = "Status")
        /\ op \in Builds => done.ea \in Address
        /\ op \in Others => done.ea = core.ea \/ done.ea \in Address
    BY <2>0, AccessMade
  <2> HIDE DEF ready
  <2>3. addr \in Effective \cup {-1}
    BY <2>0, <2>1, <2>2, AddressTypes
  <2> HIDE DEF done, addr
  <2>4. /\ e \in Core /\ e.flags \cap {"I", "D"} = done.flags \cap {"I", "D"}
        /\ e.targets = CASE op.alu.op = "SetPc" -> Tail(done.targets)
                         [] op.alu.op = "Branch" /\ Taken(op, done) -> BranchTargets(done)
                         [] OTHER -> done.targets
        /\ op.alu.op # "Modify" => e.op0 = done.op0
        /\ op \in Builds => e.ea \in Address
        /\ op \in Others => e.ea = done.ea \/ e.ea \in Address
    BY <1>4, <2>0, <2>1, <2>2, AluMade
  <2>5. done.data \in Byte
    BY <2>2, CoreTypes
  <2> HIDE DEF e
  <2>6. Executed(op, addr, done, e)
    BY <1>4, <2>2, <2>3, <2>4, <2>5 DEF Executed
  <2>7. QED
    BY <2>6 DEF e, done, addr, ready
<1>5. QED
  BY <1>2, <1>3, <1>4 DEF Indexes

-----------------------------------------------------------------------------
(* The order of the ops of a queue.                                        *)

\* Ops of an instruction that do not add to the effective address
Free(act) ==
    {op \in Others :
        op.alu.op # "SetPc" /\ (op.alu.op = "Modify" => act = "ReadModifyWrite")}
Settled(act) == Builds \cup Free(act)

\* Once an index or an increment has been added, nothing is put together from the address
\* any more, and an increment is the last.
InOrder(act, s) ==
    /\ \A i \in 1..Len(s) :
          /\ s[i] \in Builds \cup Indexes \cup Increments \cup Others
          /\ s[i].alu.op = "Modify" => act = "ReadModifyWrite"
    /\ \A i, j \in 1..Len(s) :
          i < j => /\ s[i] \in Indexes => s[j] \in Increments \cup Others
                   /\ s[i] \in Increments => s[j] \in Others
Unbranched(s) == \A i \in 1..Len(s) : s[i].alu.op # "SetPc"

LEMMA ReadClasses ==
    ASSUME NEW act
    PROVE  /\ \A src \in Latch, dest \in {"EaLo", "EaHi"} : ReadOp(src, dest, FALSE) \in Builds
           /\ \A src \in {"Pc", "PtrLo"}, dest \in {"EaLo", "EaHi"} :
                 ReadOp(src, dest, TRUE) \in Builds
           /\ \A src \in Latch, dest \in {"None", "Op0", "PtrLo", "PtrHi", "PcLo", "PcHi", "Status"} :
                 ReadOp(src, dest, FALSE) \in Free(act)
           /\ \A src \in {"Pc", "Sp", "PtrLo"},
                 dest \in {"None", "Op0", "PtrLo", "PtrHi", "PcLo", "PcHi", "Status"} :
                 ReadOp(src, dest, TRUE) \in Free(act)
           /\ ReadOp("Ea", "PcLo", TRUE) \in Increments
           /\ \A src \in Latch : DummyRead(src) \in Free(act)
<1>1. \A src \in Latch, dest \in Latch, inc \in BOOLEAN :
          Shape(ReadOp(src, dest, inc), src, TRUE, inc, dest, "None")
  BY Shapes
<1>2. \A src \in Latch : Shape(DummyRead(src), src, TRUE, FALSE, "None", "None")
  BY Shapes
<1>3. /\ {"EaLo", "EaHi", "None", "Op0", "PtrLo", "PtrHi", "PcLo", "PcHi", "Status"} \subseteq Latch
      /\ {"Pc", "Sp", "PtrLo", "Ea"} \subseteq Latch
  BY DEF Latch
<1>4. \A src \in Latch, dest \in {"EaLo", "EaHi"} : ReadOp(src, dest, FALSE) \in Builds
  <2> TAKE src \in Latch, dest \in {"EaLo", "EaHi"}
  <2>1. Shape(ReadOp(src, dest, FALSE), src, TRUE, FALSE, dest, "None")
    BY <1>1, <1>3
  <2>2. QED
    BY <2>1 DEF Shape, Builds
<1>5. \A src \in {"Pc", "PtrLo"}, dest \in {"EaLo", "EaHi"} : ReadOp(src, dest, TRUE) \in Builds
  <2> TAKE src \in {"Pc", "PtrLo"}, dest \in {"EaLo", "EaHi"}
  <2>1. Shape(ReadOp(src, dest, TRUE), src, TRUE, TRUE, dest, "None")
    BY <1>1, <1>3
  <2>2. QED
    BY <2>1 DEF Shape, Builds
<1>6. \A src \in Latch, dest \in {"None", "Op0", "PtrLo", "PtrHi", "PcLo", "PcHi", "Status"} :
          ReadOp(src, dest, FALSE) \in Free(act)
  <2> TAKE src \in Latch, dest \in {"None", "Op0", "PtrLo", "PtrHi", "PcLo", "PcHi", "Status"}
  <2>1. Shape(ReadOp(src, dest, FALSE), src, TRUE, FALSE, dest, "None")
    BY <1>1, <1>3
  <2>2. QED
    BY <2>1 DEF Shape, Free, Others
<1>7. \A src \in {"Pc", "Sp", "PtrLo"},
          dest \in {"None", "Op0", "PtrLo", "PtrHi", "PcLo", "PcHi", "Status"} :
          ReadOp(src, dest, TRUE) \in Free(act)
  <2> TAKE src \in {"Pc", "Sp", "PtrLo"},
           dest \in {"None", "Op0", "PtrLo", "PtrHi", "PcLo", "PcHi", "Status"}
  <2>1. Shape(ReadOp(src, dest, TRUE), src, TRUE, TRUE, dest, "None")
    BY <1>1, <1>3
  <2>2. QED
    BY <2>1 DEF Shape, Free, Others
<1>8. ReadOp("Ea", "PcLo", TRUE) \in Increments
  <2>1. Shape(ReadOp("Ea", "PcLo", TRUE), "Ea", TRUE, TRUE, "PcLo", "None")
    BY <1>1, <1>3
  <2>2. QED
    BY <2>1 DEF Shape, Increments
<1>9. \A src \in Latch : DummyRead(src) \in Free(act)
  BY <1>2 DEF Shape, Free, Others
<1>10. QED
  BY <1>4, <1>5, <1>6, <1>7, <1>8, <1>9

LEMMA OpClasses ==
    ASSUME NEW act
    PROVE  /\ \A src \in {"PcHi", "PcLo", "Status", "BrkStatus"} : PushOp(src) \in Free(act)
           /\ \A offset \in OffsetType : /\ ReadAndOffset("EaLo", offset) \in Builds
                                         /\ ReadAndOffset("PtrLo", offset) \in Free(act)
                                         /\ OffsetOptFix(offset) \in Indexes
           /\ AluWrite \in Free(act) /\ AluPush \in Free(act)
           /\ \A read \in BOOLEAN : AluModify(read) \in Free("ReadModifyWrite")
           /\ ReadPtr1("PcLo") \in Free(act) /\ ReadInvPtr2("PcHi") \in Free(act)
           /\ \A inc \in BOOLEAN : ReadPcThen(inc, "EaHi", "SwapEaPc") \in Builds
           /\ ReadPcThen(FALSE, "None", "SpecialAddOffset") \in Indexes
           /\ ReadPcThen(TRUE, "SignedOffset8", "Branch") \in Free(act)
           /\ Op(Cycle("FFFF", FALSE, FALSE, TRUE), FALSE, "None", Alu("Jam")) \in Free(act)
           /\ ReadPcSetPc(0) \in Others
<1>1. {"PcHi", "PcLo", "Status", "BrkStatus", "EaHi", "None", "SignedOffset8"} \subseteq Latch
  BY DEF Latch
<1>2. \A src \in {"PcHi", "PcLo", "Status", "BrkStatus"} : PushOp(src) \in Free(act)
  <2> TAKE src \in {"PcHi", "PcLo", "Status", "BrkStatus"}
  <2>1. Shape(PushOp(src), "Sp", FALSE, FALSE, src, "DecSp")
    BY <1>1, Shapes
  <2>2. QED
    BY <2>1 DEF Shape, Free, Others
<1>3. ASSUME NEW offset \in OffsetType
      PROVE  /\ ReadAndOffset("EaLo", offset) \in Builds
             /\ ReadAndOffset("PtrLo", offset) \in Free(act)
             /\ OffsetOptFix(offset) \in Indexes
  <2>1. /\ Shape(ReadAndOffset("EaLo", offset), "EaLo", TRUE, FALSE, "None", "AddOffset")
        /\ Shape(ReadAndOffset("PtrLo", offset), "PtrLo", TRUE, FALSE, "None", "AddOffset")
        /\ Shape(OffsetOptFix(offset), "Ea", TRUE, FALSE, "Op0", "OffsetWithExtraCycle")
    BY Shapes
  <2>2. \A src : ReadAndOffset(src, offset).alu.latch = src
    BY DEF ReadAndOffset, Op, Alu
  <2>3. QED
    BY <2>1, <2>2 DEF Shape, Free, Others, Builds, Indexes
<1>4. AluWrite \in Free(act) /\ AluPush \in Free(act)
  BY Shapes DEF Shape, Free, Others
<1>5. \A read \in BOOLEAN : AluModify(read) \in Free("ReadModifyWrite")
  <2> TAKE read \in BOOLEAN
  <2>1. Shape(AluModify(read), "Ea", read, FALSE, "None", "Modify")
    BY Shapes
  <2>2. QED
    BY <2>1 DEF Shape, Free, Others
<1>6. ReadPtr1("PcLo") \in Free(act)
  <2>1. Shape(ReadPtr1("PcLo"), "Ptr", TRUE, FALSE, "PcLo", "IncLatch")
    BY <1>1, Shapes
  <2>2. ReadPtr1("PcLo").alu.latch = "PtrLo"
    BY DEF ReadPtr1, IncPtrLo, Op, Alu
  <2>3. QED
    BY <2>1, <2>2 DEF Shape, Free, Others
<1>7. ReadInvPtr2("PcHi") \in Free(act)
  <2>1. Shape(ReadInvPtr2("PcHi"), "Ptr", TRUE, FALSE, "PcHi", "FixPtr")
    BY <1>1, Shapes
  <2>2. QED
    BY <2>1 DEF Shape, Free, Others
<1>8. \A inc \in BOOLEAN : ReadPcThen(inc, "EaHi", "SwapEaPc") \in Builds
  <2> TAKE inc \in BOOLEAN
  <2>1. Shape(ReadPcThen(inc, "EaHi", "SwapEaPc"), "Pc", TRUE, inc, "EaHi", "SwapEaPc")
    BY <1>1, Shapes
  <2>2. QED
    BY <2>1 DEF Shape, Builds
<1>9. ReadPcThen(FALSE, "None", "SpecialAddOffset") \in Indexes
  <2>1. Shape(ReadPcThen(FALSE, "None", "SpecialAddOffset"), "Pc", TRUE, FALSE, "None",
              "SpecialAddOffset")
    BY <1>1, Shapes
  <2>2. QED
    BY <2>1 DEF Shape, Indexes
<1>10. ReadPcThen(TRUE, "SignedOffset8", "Branch") \in Free(act)
  <2>1. Shape(ReadPcThen(TRUE, "SignedOffset8", "Branch"), "Pc", TRUE, TRUE, "SignedOffset8",
              "Branch")
    BY <1>1, Shapes
  <2>2. QED
    BY <2>1 DEF Shape, Free, Others
<1>11. Op(Cycle("FFFF", FALSE, FALSE, TRUE), FALSE, "None", Alu("Jam")) \in Free(act)
  BY Shapes DEF Shape, Free, Others
<1>12. ReadPcSetPc(0) \in Others
  BY Shapes DEF Shape, Others
<1>13. QED
  BY <1>2, <1>3, <1>4, <1>5, <1>6, <1>7, <1>8, <1>9, <1>10, <1>11, <1>12


Orderly(act, s) == InOrder(act, s) /\ Unbranched(s)

LEMMA ClassAlus ==
    ASSUME NEW act, NEW op
    PROVE  /\ op \in Builds \cup Indexes \cup Increments => op.alu.op \notin {"Modify", "SetPc"}
           /\ op \in Free(act) =>
                 /\ op \in Others /\ op.alu.op # "SetPc"
                 /\ op.alu.op = "Modify" => act = "ReadModifyWrite"
BY DEF Builds, Indexes, Increments, Free

LEMMA SettledOrder ==
    ASSUME NEW act, NEW s \in Seq(Settled(act)) PROVE Orderly(act, s)
<1>1. ASSUME NEW i \in 1..Len(s)
      PROVE  /\ s[i] \in Builds \cup Others /\ s[i] \notin Indexes /\ s[i] \notin Increments
             /\ s[i].alu.op # "SetPc"
             /\ s[i].alu.op = "Modify" => act = "ReadModifyWrite"
  <2>1. s[i] \in Builds \cup Free(act)
    BY ElementOfSeq DEF Settled
  <2>2. QED
    BY <2>1, ClassAlus, ClassesApart
<1>2. QED
  BY <1>1 DEF Orderly, InOrder, Unbranched

\* One index, then the access
LEMMA IndexedOrder ==
    ASSUME NEW act, NEW u \in Seq(Settled(act)), NEW o \in Indexes,
           NEW v \in Seq(Free(act))
    PROVE  Orderly(act, u \o << o >> \o v)
<1> DEFINE h == u \o << o >>
           q == h \o v
           m == Len(u)
           n == Len(v)
<1>1. m \in Nat /\ n \in Nat
  BY LenProperties
<1>2. /\ Settled(act) \subseteq Builds \cup Others /\ Free(act) \subseteq Others
  BY ClassAlus DEF Settled
<1> DEFINE All == Builds \cup Indexes \cup Others
<1>3. u \in Seq(All) /\ << o >> \in Seq(All) /\ v \in Seq(All) /\ Len(<< o >>) = 1
  <2>1. Settled(act) \subseteq All /\ Free(act) \subseteq All /\ o \in All
    BY <1>2
  <2>2. << o >> \in Seq(All) /\ Len(<< o >>) = 1
    BY <2>1, Tuples
  <2> HIDE DEF All
  <2>3. QED
    BY <2>1, <2>2, SeqMonotonic
<1> HIDE DEF All
<1>4. /\ h \in Seq(All) /\ Len(h) = m + 1
      /\ \A i \in 1..(m + 1) : h[i] = IF i <= m THEN u[i] ELSE o
  <2>1. /\ h \in Seq(All) /\ Len(h) = m + Len(<< o >>)
        /\ \A i \in 1..(m + Len(<< o >>)) : h[i] = IF i <= m THEN u[i] ELSE << o >>[i - m]
    BY <1>3, ConcatProperties
  <2> HIDE DEF h, m
  <2>2. Len(h) = m + 1
    BY <1>3, <2>1
  <2>3. ASSUME NEW i \in 1..(m + 1) PROVE h[i] = IF i <= m THEN u[i] ELSE o
    <3>1. h[i] = IF i <= m THEN u[i] ELSE << o >>[i - m]
      BY <1>3, <2>1
    <3>2. ~(i <= m) => i - m = 1
      BY <1>1
    <3>3. << o >>[1] = o
      OBVIOUS
    <3>4. QED
      BY <3>1, <3>2, <3>3
  <2>4. QED
    BY <2>1, <2>2, <2>3
<1> HIDE DEF h
<1>5. /\ Len(q) = m + 1 + n
      /\ \A i \in 1..(m + 1 + n) : q[i] = IF i <= m + 1 THEN h[i] ELSE v[i - (m + 1)]
  <2>1. /\ Len(q) = Len(h) + Len(v)
        /\ \A i \in 1..(Len(h) + Len(v)) : q[i] = IF i <= Len(h) THEN h[i] ELSE v[i - Len(h)]
    BY ZenonT(40), <1>3, <1>4, ConcatProperties
  <2> HIDE DEF q, m
  <2>2. Len(h) = m + 1 /\ Len(v) = n
    BY <1>4
  <2> HIDE DEF n
  <2>3. QED
    BY ONLY <2>1, <2>2
<1> HIDE DEF q
<1>6. /\ \A i \in 1..m : u[i] \in Settled(act)
      /\ \A i \in 1..n : v[i] \in Free(act)
  BY ElementOfSeq
<1> HIDE DEF m, n
<1>7. ASSUME NEW i \in 1..(m + 1 + n)
      PROVE  /\ i <= m => q[i] \in Settled(act)
             /\ i = m + 1 => q[i] = o
             /\ i > m + 1 => q[i] \in Free(act)
  <2>1. i <= m => q[i] \in Settled(act)
    BY <1>1, <1>4, <1>5, <1>6
  <2>2. i = m + 1 => q[i] = o
    BY <1>1, <1>4, <1>5
  <2>3. i > m + 1 => q[i] \in Free(act)
    BY <1>1, <1>5, <1>6
  <2>4. QED
    BY <2>1, <2>2, <2>3
<1>8. ASSUME NEW i \in 1..(m + 1 + n)
      PROVE  /\ q[i] \in Builds \cup Indexes \cup Others
             /\ q[i] \notin Increments
             /\ q[i] \in Indexes => i = m + 1
             /\ i > m + 1 => q[i] \in Others
             /\ q[i].alu.op # "SetPc"
             /\ q[i].alu.op = "Modify" => act = "ReadModifyWrite"
  <2>1. CASE i <= m
    <3>1. q[i] \in Builds \cup Free(act)
      BY <1>7, <2>1 DEF Settled
    <3>2. ~(i > m + 1)
      BY <1>1, <2>1
    <3>3. QED
      BY <3>1, <3>2, ClassAlus, ClassesApart
  <2>2. CASE i = m + 1
    <3>1. q[i] \in Indexes /\ ~(i > m + 1)
      BY <1>1, <1>7, <2>2
    <3>2. QED
      BY <2>2, <3>1, ClassAlus, ClassesApart
  <2>3. CASE i > m + 1
    <3>1. q[i] \in Free(act)
      BY <1>7, <2>3
    <3>2. QED
      BY <3>1, ClassAlus, ClassesApart
  <2>4. QED
    BY <1>1, <2>1, <2>2, <2>3
<1>9. ASSUME NEW i \in 1..(m + 1 + n), NEW j \in 1..(m + 1 + n), i < j, q[i] \in Indexes
      PROVE  q[j] \in Others
  <2>1. j > m + 1
    BY <1>1, <1>8, <1>9
  <2>2. QED
    BY <1>8, <2>1
<1>10. Orderly(act, q)
  BY <1>5, <1>8, <1>9 DEF Orderly, InOrder, Unbranched
<1>11. QED
  BY <1>10 DEF q, h

LEMMA FinishFree ==
    ASSUME NEW act \in MemoryAction PROVE FinishAction(F, act) \in Seq(Free(act))
<1> DEFINE read == ReadOp("Ea", "Op0", FALSE)
           modify == AluModify(~F.RMW_DUMMY_WRITE)
           s == FinishAction(F, act)
<1>1. read \in Free(act) /\ AluWrite \in Free(act)
  BY ReadClasses, OpClasses DEF Latch
<1>2. act = "ReadModifyWrite" => modify \in Free(act)
  BY OpClasses, FlavorAssumption DEF FlavorType
<1>3. \/ act = "Read" /\ s = << read >>
      \/ act = "Write" /\ s = << AluWrite >>
      \/ act = "ReadModifyWrite" /\ s = << read, modify, AluWrite >>
  BY DEF FinishAction, MemoryAction
<1> DEFINE S == Free(act)
<1>4. /\ read \in S /\ AluWrite \in S
      /\ act = "ReadModifyWrite" => modify \in S
  BY <1>1, <1>2
<1> HIDE DEF read, modify, s, S
<1>5. s \in Seq(S)
  <2>1. CASE act = "Read" /\ s = << read >>
    BY <1>4, <2>1, Tuples
  <2>2. CASE act = "Write" /\ s = << AluWrite >>
    BY <1>4, <2>2, Tuples
  <2>3. CASE act = "ReadModifyWrite" /\ s = << read, modify, AluWrite >>
    BY <1>4, <2>3, Tuples
  <2>4. QED
    BY <1>3, <2>1, <2>2, <2>3
<1>6. QED
  BY <1>5 DEF s, S

LEMMA SettledTuples ==
    ASSUME NEW act
    PROVE  /\ << >> \in Seq(Settled(act))
           /\ \A a \in Settled(act) : << a >> \in Seq(Settled(act))
           /\ \A a, b \in Settled(act) : << a, b >> \in Seq(Settled(act))
           /\ \A a, b, c \in Settled(act) : << a, b, c >> \in Seq(Settled(act))
           /\ \A a, b, c, d \in Settled(act) : << a, b, c, d >> \in Seq(Settled(act))
           /\ \A a, b, c, d, e \in Settled(act) : << a, b, c, d, e >> \in Seq(Settled(act))
           /\ \A a, b, c, d, e, f \in Settled(act) :
                 << a, b, c, d, e, f >> \in Seq(Settled(act))
           /\ \A s, t \in Seq(Settled(act)) : s \o t \in Seq(Settled(act))
           /\ \A s \in Seq(Free(act)) : s \in Seq(Settled(act))
<1> DEFINE S == Settled(act)
           R == Free(act)
<1>1. R \subseteq S
  BY DEF Settled
<1> HIDE DEF S, R
<1>2. << >> \in Seq(S)
  BY EmptySeq
<1>3. \A s, t \in Seq(S) : s \o t \in Seq(S)
  BY ConcatProperties
<1>4. \A s \in Seq(R) : s \in Seq(S)
  BY <1>1, SeqMonotonic
<1>5. QED
  BY <1>2, <1>3, <1>4, Tuples DEF S, R

\* The reads the emitters are made of
LEMMA SettledReads ==
    ASSUME NEW act
    PROVE  /\ \A src \in {"Pc", "PtrLo"}, dest \in {"EaLo", "EaHi"}, inc \in BOOLEAN :
                 ReadOp(src, dest, inc) \in Settled(act)
           /\ \A src \in {"Pc", "Sp", "PtrLo"},
                 dest \in {"None", "Op0", "PtrLo", "PtrHi", "PcLo", "PcHi", "Status"},
                 inc \in BOOLEAN : ReadOp(src, dest, inc) \in Settled(act)
           /\ \A src \in VectorAddresses \cup {"Ea", "Ptr"},
                 dest \in {"None", "Op0", "PtrLo", "PtrHi", "PcLo", "PcHi", "Status"} :
                 ReadOp(src, dest, FALSE) \in Settled(act)
           /\ DummyRead("Pc") \in Settled(act) /\ DummyRead("None") \in Settled(act)
<1>1. {"Pc", "PtrLo", "Sp", "None", "Ea", "Ptr"} \cup VectorAddresses \subseteq Latch
  BY DEF Latch
<1>2. ASSUME NEW src \in {"Pc", "PtrLo"}, NEW dest \in {"EaLo", "EaHi"}, NEW inc \in BOOLEAN
      PROVE  ReadOp(src, dest, inc) \in Settled(act)
  <2>1. CASE inc
    <3>1. inc = TRUE
      BY <2>1
    <3>2. QED
      BY <3>1, ReadClasses DEF Settled
  <2>2. CASE ~inc
    <3>1. inc = FALSE
      BY <2>2
    <3>2. QED
      BY <1>1, <3>1, ReadClasses DEF Settled
  <2>3. QED
    BY <2>1, <2>2
<1>3. ASSUME NEW src \in {"Pc", "Sp", "PtrLo"},
             NEW dest \in {"None", "Op0", "PtrLo", "PtrHi", "PcLo", "PcHi", "Status"},
             NEW inc \in BOOLEAN
      PROVE  ReadOp(src, dest, inc) \in Settled(act)
  <2>1. CASE inc
    <3>1. inc = TRUE
      BY <2>1
    <3>2. QED
      BY <3>1, ReadClasses DEF Settled
  <2>2. CASE ~inc
    <3>1. inc = FALSE
      BY <2>2
    <3>2. QED
      BY <1>1, <3>1, ReadClasses DEF Settled
  <2>3. QED
    BY <2>1, <2>2
<1>4. \A src \in VectorAddresses \cup {"Ea", "Ptr"},
         dest \in {"None", "Op0", "PtrLo", "PtrHi", "PcLo", "PcHi", "Status"} :
         ReadOp(src, dest, FALSE) \in Settled(act)
  BY <1>1, ReadClasses DEF Settled
<1>5. DummyRead("Pc") \in Settled(act) /\ DummyRead("None") \in Settled(act)
  BY <1>1, ReadClasses DEF Settled
<1>6. QED
  BY <1>2, <1>3, <1>4, <1>5

LEMMA SettledEmitters ==
    ASSUME NEW act
    PROVE  /\ EmitImplied \in Seq(Settled(act)) /\ EmitImmediate \in Seq(Settled(act))
           /\ EmitJmpAbs \in Seq(Settled(act)) /\ EmitBranchRel \in Seq(Settled(act))
           /\ \A a \in MemoryAction : EmitStack(a) \in Seq(Settled(act))
           /\ EmitJsr \in Seq(Settled(act)) /\ EmitRts \in Seq(Settled(act))
           /\ EmitRti \in Seq(Settled(act)) /\ EmitBranchDpRel \in Seq(Settled(act))
           /\ EmitJmpInd(F) \in Seq(Settled(act))
           /\ EmitJam \in Seq(Settled(act))
           /\ \A interrupt \in {"Brk", "Irq", "Nmi"} : EmitInt(interrupt) \in Seq(Settled(act))
<1> DEFINE S == Settled(act)
<1>1. /\ PushOp("PcHi") \in S /\ PushOp("PcLo") \in S
      /\ PushOp("Status") \in S /\ PushOp("BrkStatus") \in S
      /\ AluPush \in S
      /\ ReadPtr1("PcLo") \in S /\ ReadInvPtr2("PcHi") \in S
      /\ ReadPcThen(TRUE, "EaHi", "SwapEaPc") \in S
      /\ ReadPcThen(FALSE, "EaHi", "SwapEaPc") \in S
      /\ ReadPcThen(TRUE, "SignedOffset8", "Branch") \in S
      /\ Op(Cycle("FFFF", FALSE, FALSE, TRUE), FALSE, "None", Alu("Jam")) \in S
  BY OpClasses DEF Settled
<1>2. /\ \A src \in {"Pc", "PtrLo"}, dest \in {"EaLo", "EaHi"}, inc \in BOOLEAN :
                 ReadOp(src, dest, inc) \in S
      /\ \A src \in {"Pc", "Sp", "PtrLo"},
            dest \in {"None", "Op0", "PtrLo", "PtrHi", "PcLo", "PcHi", "Status"},
            inc \in BOOLEAN : ReadOp(src, dest, inc) \in S
      /\ \A src \in VectorAddresses \cup {"Ea", "Ptr"},
            dest \in {"None", "Op0", "PtrLo", "PtrHi", "PcLo", "PcHi", "Status"} :
            ReadOp(src, dest, FALSE) \in S
      /\ DummyRead("Pc") \in S /\ DummyRead("None") \in S
  BY SettledReads
<1>3. /\ << >> \in Seq(S)
      /\ \A a \in S : << a >> \in Seq(S)
      /\ \A a, b \in S : << a, b >> \in Seq(S)
      /\ \A a, b, c \in S : << a, b, c >> \in Seq(S)
      /\ \A a, b, c, d \in S : << a, b, c, d >> \in Seq(S)
      /\ \A a, b, c, d, e \in S : << a, b, c, d, e >> \in Seq(S)
      /\ \A a, b, c, d, e, f \in S : << a, b, c, d, e, f >> \in Seq(S)
      /\ \A s, t \in Seq(S) : s \o t \in Seq(S)
  BY SettledTuples
<1> HIDE DEF S
<1>4. EmitImplied \in Seq(S) /\ EmitImmediate \in Seq(S)
  BY <1>2, <1>3 DEF EmitImplied, EmitImmediate
<1>5. EmitJmpAbs \in Seq(S) /\ EmitBranchRel \in Seq(S)
  BY <1>1, <1>2, <1>3 DEF EmitJmpAbs, EmitBranchRel
<1>6. \A a \in MemoryAction : EmitStack(a) \in Seq(S)
  BY <1>1, <1>2, <1>3 DEF EmitStack
<1>7. EmitJsr \in Seq(S)
  BY <1>1, <1>2, <1>3 DEF EmitJsr
<1>8. EmitRts \in Seq(S)
  BY <1>2, <1>3 DEF EmitRts
<1>9. EmitRti \in Seq(S)
  BY <1>2, <1>3 DEF EmitRti
<1>10. EmitBranchDpRel \in Seq(S)
  BY <1>1, <1>2, <1>3 DEF EmitBranchDpRel
<1>11. EmitJmpInd(F) \in Seq(S)
  <2> DEFINE s == << ReadOp("Pc", "PtrLo", TRUE), ReadOp("Pc", "PtrHi", FALSE), ReadPtr1("PcLo") >>
             m == IF F.Micro = "Micro65C02" THEN << ReadInvPtr2("PcHi") >> ELSE << >>
             t == << ReadOp("Ptr", "PcHi", FALSE) >>
  <2>1. s \in Seq(S) /\ m \in Seq(S) /\ t \in Seq(S)
    BY <1>1, <1>2, <1>3
  <2>2. EmitJmpInd(F) = (s \o m) \o t
    BY DEF EmitJmpInd
  <2> HIDE DEF s, m, t
  <2>3. QED
    BY <1>3, <2>1, <2>2
<1>12. EmitJam \in Seq(S)
  BY <1>1, <1>2, <1>3 DEF EmitJam, VectorAddresses
<1>13. ASSUME NEW interrupt \in {"Brk", "Irq", "Nmi"} PROVE EmitInt(interrupt) \in Seq(S)
  <2> DEFINE a == ReadOp("Pc", "None", interrupt = "Brk")
             d == PushOp(IF interrupt = "Brk" THEN "BrkStatus" ELSE "Status")
             e == ReadOp(IF interrupt = "Nmi" THEN "FFFA" ELSE "FFFE", "PcLo", FALSE)
             f == ReadOp(IF interrupt = "Nmi" THEN "FFFB" ELSE "FFFF", "PcHi", FALSE)
  <2>1. a \in S
    <3>1. (interrupt = "Brk") \in BOOLEAN
      OBVIOUS
    <3>2. QED
      BY <1>2, <3>1
  <2>2. d \in S /\ e \in S /\ f \in S
    BY <1>1, <1>2 DEF VectorAddresses
  <2>3. EmitInt(interrupt) = << a, PushOp("PcHi"), PushOp("PcLo"), d, e, f >>
    BY DEF EmitInt
  <2> HIDE DEF a, d, e, f
  <2>4. QED
    BY <1>1, <1>3, <2>1, <2>2, <2>3
<1>14. QED
  BY <1>4, <1>5, <1>6, <1>7, <1>8, <1>9, <1>10, <1>11, <1>12, <1>13 DEF S

LEMMA SettledNop ==
    ASSUME NEW act, NEW bytes, NEW cycles, << bytes, cycles >> \in NopShapes
    PROVE  EmitCmosNop(bytes, cycles) \in Seq(Settled(act))
<1> DEFINE S == Settled(act)
<1>1. ReadOp("Pc", "None", TRUE) \in S /\ ReadOp("Pc", "None", FALSE) \in S
  BY SettledReads
<1>2. \A a, b \in S : << a, b >> \in Seq(S)
  BY SettledTuples
<1> HIDE DEF S
<1>3. CASE bytes = 3 /\ cycles = 3
  BY <1>1, <1>2, <1>3 DEF EmitCmosNop, S
<1>4. CASE ~(bytes = 3 /\ cycles = 3)
  <2> DEFINE s == [i \in 1..(cycles - 1) |-> ReadOp("Pc", "None", i \in {1, 3})]
  <2>1. ASSUME NEW i \in 1..(cycles - 1) PROVE ReadOp("Pc", "None", i \in {1, 3}) \in S
    <3>1. CASE i \in {1, 3}
      <4>1. (i \in {1, 3}) = TRUE
        BY <3>1
      <4>2. QED
        BY <1>1, <4>1
    <3>2. CASE i \notin {1, 3}
      <4>1. (i \in {1, 3}) = FALSE
        BY <3>2
      <4>2. QED
        BY <1>1, <4>1
    <3>3. QED
      BY <3>1, <3>2
  <2>2. s \in [1..(cycles - 1) -> S]
    BY <2>1
  <2>3. cycles - 1 \in Nat
    BY DEF NopShapes
  <2>4. s \in Seq(S)
    BY <2>2, <2>3
  <2>5. EmitCmosNop(bytes, cycles) = s
    BY <1>4 DEF EmitCmosNop
  <2> HIDE DEF s
  <2>6. QED
    BY <2>4, <2>5 DEF S
<1>5. QED
  BY <1>3, <1>4

LEMMA DpOrder ==
    ASSUME NEW act \in MemoryAction, NEW offset \in OffsetType
    PROVE  Orderly(act, EmitDp(F, act, offset))
<1> DEFINE S == Settled(act)
           s == << ReadOp("Pc", "EaLo", TRUE) >>
           m == IF offset # "None" THEN << ReadAndOffset("EaLo", offset) >> ELSE << >>
           t == FinishAction(F, act)
<1>1. ReadOp("Pc", "EaLo", TRUE) \in S /\ ReadAndOffset("EaLo", offset) \in S
  BY SettledReads, OpClasses DEF Settled
<1>2. /\ << >> \in Seq(S) /\ \A a \in S : << a >> \in Seq(S)
      /\ \A u, v \in Seq(S) : u \o v \in Seq(S)
      /\ t \in Seq(S)
  BY SettledTuples, FinishFree
<1> HIDE DEF S
<1>3. s \in Seq(S) /\ m \in Seq(S)
  BY <1>1, <1>2
<1>4. EmitDp(F, act, offset) = (s \o m) \o t
  BY DEF EmitDp
<1> HIDE DEF s, m, t
<1>5. (s \o m) \o t \in Seq(S)
  BY <1>2, <1>3
<1>6. QED
  BY <1>4, <1>5, SettledOrder DEF S

LEMMA AbsoluteOrder ==
    ASSUME NEW act \in MemoryAction, NEW offset \in OffsetType
    PROVE  Orderly(act, EmitAbsolute(F, act, offset))
<1> DEFINE S == Settled(act)
           s == << ReadOp("Pc", "EaLo", TRUE), ReadOp("Pc", "EaHi", TRUE) >>
           t == FinishAction(F, act)
<1>1. ReadOp("Pc", "EaLo", TRUE) \in S /\ ReadOp("Pc", "EaHi", TRUE) \in S
  BY SettledReads
<1>2. /\ << >> \in Seq(S) /\ \A a, b \in S : << a, b >> \in Seq(S)
      /\ \A u, v \in Seq(S) : u \o v \in Seq(S)
      /\ t \in Seq(S) /\ t \in Seq(Free(act))
  BY SettledTuples, FinishFree
<1> HIDE DEF S
<1>3. s \in Seq(S)
  BY <1>1, <1>2
<1>4. CASE offset # "None"
  <2>1. EmitAbsolute(F, act, offset) = s \o << OffsetOptFix(offset) >> \o t
    BY <1>4 DEF EmitAbsolute
  <2>2. OffsetOptFix(offset) \in Indexes
    BY OpClasses
  <2> HIDE DEF s, t
  <2>3. QED
    BY <1>2, <1>3, <2>1, <2>2, IndexedOrder DEF S
<1>5. CASE offset = "None"
  <2>1. EmitAbsolute(F, act, offset) = (s \o << >>) \o t
    BY <1>5 DEF EmitAbsolute
  <2> HIDE DEF s, t
  <2>2. (s \o << >>) \o t \in Seq(S)
    BY <1>2, <1>3
  <2>3. QED
    BY <2>1, <2>2, SettledOrder DEF S
<1>6. QED
  BY <1>4, <1>5

LEMMA DpIndirectOrder ==
    ASSUME NEW act \in MemoryAction, NEW offset \in OffsetType
    PROVE  Orderly(act, EmitDpInd(F, act, offset))
<1> DEFINE S == Settled(act)
           s == << ReadOp("Pc", "PtrLo", TRUE) >>
           m == IF offset = "X" THEN << ReadAndOffset("PtrLo", offset) >> ELSE << >>
           e == << ReadOp("PtrLo", "EaLo", TRUE), ReadOp("PtrLo", "EaHi", FALSE) >>
           t == FinishAction(F, act)
           h == (s \o m) \o e
<1>1. /\ ReadOp("Pc", "PtrLo", TRUE) \in S /\ ReadAndOffset("PtrLo", offset) \in S
      /\ ReadOp("PtrLo", "EaLo", TRUE) \in S /\ ReadOp("PtrLo", "EaHi", FALSE) \in S
  BY SettledReads, OpClasses DEF Settled
<1>2. /\ << >> \in Seq(S) /\ \A a \in S : << a >> \in Seq(S)
      /\ \A a, b \in S : << a, b >> \in Seq(S)
      /\ \A u, v \in Seq(S) : u \o v \in Seq(S)
      /\ t \in Seq(S) /\ t \in Seq(Free(act))
  BY SettledTuples, FinishFree
<1> HIDE DEF S
<1>3. s \in Seq(S) /\ m \in Seq(S) /\ e \in Seq(S)
  BY <1>1, <1>2
<1>4. CASE offset = "Y"
  <2>1. EmitDpInd(F, act, offset) = h \o << OffsetOptFix(offset) >> \o t
    BY <1>4 DEF EmitDpInd
  <2>2. OffsetOptFix(offset) \in Indexes
    BY OpClasses
  <2> HIDE DEF s, m, e, t
  <2>3. h \in Seq(S)
    BY <1>2, <1>3
  <2> HIDE DEF h
  <2>4. QED
    BY <1>2, <2>1, <2>2, <2>3, IndexedOrder DEF S
<1>5. CASE offset # "Y"
  <2>1. EmitDpInd(F, act, offset) = (h \o << >>) \o t
    BY <1>5 DEF EmitDpInd
  <2> HIDE DEF s, m, e, t
  <2>2. h \in Seq(S)
    BY <1>2, <1>3
  <2> HIDE DEF h
  <2>3. (h \o << >>) \o t \in Seq(S)
    BY <1>2, <2>2
  <2>4. QED
    BY <2>1, <2>3, SettledOrder DEF S
<1>6. QED
  BY <1>4, <1>5

\* The jump through an indexed pointer adds its index and goes on to the next byte.
LEMMA JmpAbsXOrder == ASSUME NEW act PROVE Orderly(act, EmitJmpAbsX)
<1> DEFINE a == ReadOp("Pc", "EaLo", TRUE)
           b == ReadOp("Pc", "EaHi", FALSE)
           c == ReadPcThen(FALSE, "None", "SpecialAddOffset")
           d == ReadOp("Ea", "PcLo", TRUE)
           e == ReadOp("Ea", "PcHi", FALSE)
           s == EmitJmpAbsX
<1>1. /\ a \in Builds /\ b \in Builds /\ c \in Indexes /\ d \in Increments /\ e \in Free(act)
  BY ReadClasses, OpClasses DEF Latch
<1>2. s = << a, b, c, d, e >>
  BY DEF EmitJmpAbsX
<1> HIDE DEF a, b, c, d, e, s
<1>3. Len(s) = 5 /\ s[1] = a /\ s[2] = b /\ s[3] = c /\ s[4] = d /\ s[5] = e
  BY <1>2
<1>4. e \in Others /\ e.alu.op # "SetPc" /\ (e.alu.op = "Modify" => act = "ReadModifyWrite")
      /\ a.alu.op \notin {"Modify", "SetPc"} /\ b.alu.op \notin {"Modify", "SetPc"}
      /\ c.alu.op \notin {"Modify", "SetPc"} /\ d.alu.op \notin {"Modify", "SetPc"}
  BY <1>1, ClassAlus
<1>5. /\ a \notin Indexes /\ a \notin Increments /\ b \notin Indexes /\ b \notin Increments
      /\ c \notin Increments /\ d \notin Indexes /\ e \notin Indexes /\ e \notin Increments
  BY <1>1, <1>4, ClassesApart
<1>6. \A i \in 1..5 : i \in {1, 2, 3, 4, 5}
  OBVIOUS
<1>7. ASSUME NEW i \in 1..5
      PROVE  /\ s[i] \in Builds \cup Indexes \cup Increments \cup Others
             /\ s[i].alu.op # "SetPc"
             /\ s[i].alu.op = "Modify" => act = "ReadModifyWrite"
             /\ s[i] \in Indexes => i = 3
             /\ s[i] \in Increments => i = 4
  BY <1>1, <1>3, <1>4, <1>5, <1>6
<1>8. ASSUME NEW i \in 1..5, NEW j \in 1..5, i < j
      PROVE  /\ s[i] \in Indexes => s[j] \in Increments \cup Others
             /\ s[i] \in Increments => s[j] \in Others
  <2>1. s[i] \in Indexes => j \in {4, 5}
    BY <1>7, <1>8
  <2>2. s[i] \in Increments => j = 5
    BY <1>7, <1>8
  <2>3. QED
    BY <1>1, <1>3, <1>4, <2>1, <2>2
<1>9. Orderly(act, s)
  BY <1>3, <1>7, <1>8 DEF Orderly, InOrder, Unbranched
<1>10. QED
  BY <1>9 DEF s

LEMMA EmitOrder ==
    ASSUME NEW shape \in AddressMode, NEW act \in MemoryAction, Emittable(F, shape, act),
           shape.kind = "CmosNop" => << shape.bytes, shape.cycles >> \in NopShapes
    PROVE  Orderly(act, EmitUcycs(F, shape, act))
<1>1. shape.kind \in ModeKinds8 /\ shape.offset \in OffsetType
  BY DEF Emittable, AddressMode
<1>2. CASE shape.kind \in {"Implied", "Immediate", "Stack", "JmpAbsolute", "Relative",
                          "JmpIndirect", "ToSubroutine", "FromSubroutine", "FromInterrupt",
                          "DpRelative", "Brk", "Jam"}
  <2>1. EmitUcycs(F, shape, act) \in Seq(Settled(act))
    BY <1>2, SettledEmitters DEF EmitUcycs
  <2>2. QED
    BY <2>1, SettledOrder
<1>3. CASE shape.kind = "DirectPage"
  BY <1>1, <1>3, DpOrder DEF EmitUcycs
<1>4. CASE shape.kind = "Absolute"
  BY <1>1, <1>4, AbsoluteOrder DEF EmitUcycs
<1>5. CASE shape.kind = "DpIndirect"
  BY <1>1, <1>5, DpIndirectOrder DEF EmitUcycs
<1>6. CASE shape.kind = "JmpAbsoluteX"
  BY <1>6, JmpAbsXOrder DEF EmitUcycs
<1>7. CASE shape.kind = "CmosNop"
  <2>1. EmitUcycs(F, shape, act) \in Seq(Settled(act))
    BY <1>7, SettledNop DEF EmitUcycs
  <2>2. QED
    BY <2>1, SettledOrder
<1>8. QED
  BY <1>1, <1>2, <1>3, <1>4, <1>5, <1>6, <1>7 DEF ModeKinds8

-----------------------------------------------------------------------------
(* A queue and the core that runs it.                                      *)

\* The queue is in order, its ops fit the effective address, and every SetPc has its
\* target.
Fit(s, ea) == \A i \in 1..Len(s) : Fitting(s[i], ea)
Enough(s, targets) ==
    \A i \in 1..Len(s) : s[i].alu.op = "SetPc" => Len(targets) >= Len(s) - i + 1
Ready(act, s, c) == InOrder(act, s) /\ Fit(s, c.ea) /\ Enough(s, c.targets)

LEMMA ReadyTail ==
    ASSUME NEW act, NEW c \in Core, NEW s \in Seq(MicroOp), s # << >>, Ready(act, s, c)
    PROVE  Ready(act, Tail(s), c)
<1> DEFINE t == Tail(s)
           m == Len(t)
           k == Len(c.targets)
<1>1. Len(s) = m + 1 /\ m \in Nat /\ \A i \in 1..m : t[i] = s[i + 1]
  BY HeadTailProperties, LenProperties
<1>2. k \in Nat
  BY CoreTypes, LenProperties
<1> HIDE DEF m, t, k
<1>3. \A i \in 1..m : i + 1 \in 1..Len(s)
  BY <1>1
<1>4. Fit(t, c.ea)
  BY <1>1, <1>3 DEF Ready, Fit, m
<1>5. ASSUME NEW i \in 1..m, t[i].alu.op = "SetPc" PROVE k >= m - i + 1
  <2>1. s[i + 1].alu.op = "SetPc" /\ i + 1 \in 1..Len(s)
    BY <1>1, <1>3, <1>5
  <2>2. k >= Len(s) - (i + 1) + 1
    BY <2>1 DEF Ready, Enough, k
  <2>3. QED
    BY <1>1, <1>2, <2>2
<1>6. Enough(t, c.targets)
  BY <1>5 DEF Enough, m, k
<1>7. ASSUME NEW i \in 1..m
      PROVE  /\ t[i] \in Builds \cup Indexes \cup Increments \cup Others
             /\ t[i].alu.op = "Modify" => act = "ReadModifyWrite"
  BY <1>1, <1>3 DEF Ready, InOrder
<1>8. ASSUME NEW i \in 1..m, NEW j \in 1..m, i < j
      PROVE  /\ t[i] \in Indexes => t[j] \in Increments \cup Others
             /\ t[i] \in Increments => t[j] \in Others
  <2>1. i + 1 < j + 1 /\ i + 1 \in 1..Len(s) /\ j + 1 \in 1..Len(s)
    BY <1>3, <1>8
  <2>2. t[i] = s[i + 1] /\ t[j] = s[j + 1]
    BY <1>1
  <2>3. QED
    BY <2>1, <2>2 DEF Ready, InOrder
<1>9. InOrder(act, t)
  BY <1>7, <1>8 DEF InOrder, m
<1>10. QED
  BY <1>4, <1>6, <1>9 DEF Ready, t

\* What executing an op leaves of the effective address and of the targets
Leaves(op, c, d) ==
    /\ op \in Builds => d.ea \in Address
    /\ op \in Indexes => d.ea \in IndexedOnce
    /\ op \in Others => d.ea = c.ea \/ d.ea \in Address
    /\ d.targets = IF op.alu.op = "SetPc" THEN Tail(c.targets) ELSE c.targets

LEMMA ReadyFits ==
    ASSUME NEW s, NEW ea, NEW new, Fit(s, ea), new = ea \/ new \in Address
    PROVE  Fit(s, new)
<1>1. \A n \in Address : n \in IndexedOnce
  BY EffectiveSums
<1>2. QED
  BY <1>1 DEF Fit, Fitting

LEMMA ReadyAfter ==
    ASSUME NEW act, NEW c \in Core, NEW s \in Seq(MicroOp), s # << >>, Ready(act, s, c),
           NEW d, Leaves(s[1], c, d)
    PROVE  Ready(act, Tail(s), d)
<1> DEFINE t == Tail(s)
           m == Len(t)
           op == s[1]
<1>1. Len(s) = m + 1 /\ m \in Nat /\ \A i \in 1..m : t[i] = s[i + 1]
  BY HeadTailProperties, LenProperties
<1>2. Ready(act, t, c)
  BY ReadyTail
<1>3. InOrder(act, t) /\ Fit(t, c.ea) /\ Enough(t, c.targets)
  BY <1>2 DEF Ready
<1> HIDE DEF m, t
<1>4. 1 \in 1..Len(s)
  BY <1>1
<1>5. ASSUME NEW i \in 1..m
      PROVE  /\ op \in Indexes => t[i] \in Increments \cup Others
             /\ op \in Increments => t[i] \in Others
  <2>1. 1 < i + 1 /\ i + 1 \in 1..Len(s)
    BY <1>1
  <2>2. QED
    BY <1>1, <1>4, <2>1 DEF Ready, InOrder
<1>6. op \in Builds \cup Indexes \cup Increments \cup Others
  BY <1>4 DEF Ready, InOrder
<1>7. Fit(t, d.ea)
  <2>1. CASE op \in Builds \cup Others
    <3>1. d.ea = c.ea \/ d.ea \in Address
      BY <2>1 DEF Leaves
    <3>2. QED
      BY <1>3, <3>1, ReadyFits
  <2>2. CASE op \in Indexes
    <3>1. d.ea \in IndexedOnce
      BY <2>2 DEF Leaves
    <3>2. \A i \in 1..m : t[i] \notin Builds \cup Indexes
      BY <1>5, <2>2, ClassesApart
    <3>3. QED
      BY <3>1, <3>2 DEF Fit, Fitting, m
  <2>3. CASE op \in Increments
    <3>1. \A i \in 1..m : t[i] \notin Builds \cup Indexes \cup Increments
      BY <1>5, <2>3, ClassesApart
    <3>2. QED
      BY <3>1 DEF Fit, Fitting, m
  <2>4. QED
    BY <1>6, <2>1, <2>2, <2>3
<1>8. Enough(t, d.targets)
  <2>1. CASE op.alu.op # "SetPc"
    BY <1>3, <2>1 DEF Leaves
  <2>2. CASE op.alu.op = "SetPc"
    <3> DEFINE k == Len(c.targets)
    <3>1. c.targets \in Seq(Address) /\ k \in Nat
      BY CoreTypes, LenProperties
    <3>2. k >= Len(s) - 1 + 1
      BY <1>4, <2>2 DEF Ready, Enough
    <3> HIDE DEF k
    <3>3. k >= m + 1
      BY <1>1, <3>1, <3>2
    <3>4. c.targets # << >>
      <4>1. k # 0
        BY <1>1, <3>1, <3>3
      <4>2. QED
        BY <4>1, EmptySeq DEF k
    <3>5. Len(Tail(c.targets)) = k - 1
      BY <3>1, <3>4, HeadTailProperties DEF k
    <3>6. d.targets = Tail(c.targets)
      BY <2>2 DEF Leaves
    <3>7. \A i \in 1..m : k - 1 >= m - i + 1
      BY <1>1, <3>1, <3>3
    <3>8. QED
      BY <3>5, <3>6, <3>7 DEF Enough, m
  <2>3. QED
    BY <2>1, <2>2
<1>9. QED
  BY <1>3, <1>7, <1>8 DEF Ready, t

\* A queue that was just pushed, and the latches of a new instruction
LEMMA ReadyEmitted ==
    ASSUME NEW act, NEW s, Orderly(act, s), NEW c, c.ea \in Address
    PROVE  Ready(act, s, c)
<1>1. \A n \in Address : n \in IndexedOnce
  BY EffectiveSums
<1>2. QED
  BY <1>1 DEF Ready, Orderly, Fit, Fitting, Unbranched, Enough

\* The targets of a taken branch: one for each SetPc of its tail
LEMMA SamePage ==
    ASSUME NEW m \in Nat, NEW n \in Nat, WithLow(m, Low(n)) = n
    PROVE  High(n) = High(m)
<1> DEFINE q == n \div 256
           r == n % 256
           u == m \div 256
           v == m % 256
<1>1. /\ q \in Nat /\ r \in Nat /\ n = 256 * q + r /\ r <= 255
      /\ u \in Nat /\ v \in Nat /\ m = 256 * u + v /\ v <= 255
  OBVIOUS
<1>2. m - v + r = n
  <2>1. WithLow(m, Low(n)) = n
    OBVIOUS
  <2>2. QED
    BY <2>1 DEF WithLow, Low, v, r
<1> HIDE DEF q, r, u, v
<1>3. q = u
  BY ONLY <1>1, <1>2
<1>4. QED
  BY <1>3 DEF High, q, u

LEMMA BranchEnough ==
    ASSUME NEW c \in Core, NEW crossed, crossed <=> High(BranchTarget(c)) # High(c.pc)
    PROVE  Enough(BranchTail(crossed), BranchTargets(c))
<1> DEFINE a == ReadPcSetPc(0)
           b == ReadOp("Pc", "None", FALSE)
           t == BranchTail(crossed)
           target == BranchTarget(c)
           invalid == WithLow(c.pc, Low(target))
           r == BranchTargets(c)
<1>1. b.alu.op # "SetPc"
  BY DEF ReadOp, Op, Alu
<1>2. t = IF ~crossed THEN << a >>
          ELSE IF current_opcode % 16 = 15 THEN << b, a >> ELSE << a, a >>
  BY DEF BranchTail
<1>3. r = IF invalid = target \/ current_opcode % 16 = 15 THEN << target >>
          ELSE << invalid, target >>
  BY DEF BranchTargets
<1>4. invalid = target => ~crossed
  <2>1. c.pc \in Nat
    BY CoreTypes, WordTypes
  <2>2. target \in Nat
    <3>1. c.signed_offset8 \in Int
      BY CoreTypes DEF SignedByte
    <3>2. c.pc + c.signed_offset8 \in Int
      BY <2>1, <3>1
    <3>3. target \in Address
      BY <3>2, WordSums DEF BranchTarget
    <3>4. QED
      BY <3>3, WordTypes
  <2>3. QED
    BY <2>1, <2>2, SamePage
<1> HIDE DEF a, b, t, target, invalid, r
<1>5. CASE ~crossed
  <2>1. t = << a >> /\ Len(t) = 1
    BY <1>2, <1>5
  <2>2. r = << target >> \/ r = << invalid, target >>
    BY <1>3
  <2>3. Len(r) \in Nat /\ Len(r) >= 1
    BY <2>2
  <2> HIDE DEF t
  <2>4. \A i \in 1..1 : Len(r) >= 1 - i + 1
    BY <2>3
  <2>5. QED
    BY <2>1, <2>4 DEF Enough, t, r
<1>6. CASE crossed /\ current_opcode % 16 = 15
  <2>1. t = << b, a >> /\ Len(t) = 2 /\ t[1] = b
    BY <1>2, <1>6
  <2>2. Len(r) = 1
    BY <1>3, <1>6
  <2>3. \A i \in 1..2 : i = 1 \/ Len(r) >= 2 - i + 1
    BY <2>2
  <2>4. QED
    BY <1>1, <2>1, <2>3 DEF Enough, t, r
<1>7. CASE crossed /\ current_opcode % 16 # 15
  <2>1. t = << a, a >> /\ Len(t) = 2
    BY <1>2, <1>7
  <2>2. r = << invalid, target >> /\ Len(r) = 2
    BY <1>3, <1>4, <1>7
  <2>3. \A i \in 1..2 : Len(r) >= 2 - i + 1
    BY <2>2
  <2>4. QED
    BY <2>1, <2>3 DEF Enough, t, r
<1>8. QED
  BY <1>5, <1>6, <1>7

LEMMA BranchReady ==
    ASSUME NEW act, NEW crossed, NEW d, NEW c \in Core,
           crossed <=> High(BranchTarget(c)) # High(c.pc), d.targets = BranchTargets(c)
    PROVE  Ready(act, BranchTail(crossed), d)
<1> DEFINE t == BranchTail(crossed)
           a == ReadPcSetPc(0)
           b == ReadOp("Pc", "None", FALSE)
<1>1. a \in Others /\ b \in Others /\ a.alu.op # "Modify" /\ b.alu.op # "Modify"
  <2>1. a \in Others /\ b \in Others
    BY OpClasses, SettledReads, ReadClasses, ClassAlus DEF Latch
  <2>2. QED
    BY <2>1 DEF ReadPcSetPc, ReadOp, Op, Alu
<1>2. t \in {<< a >>, << a, a >>, << b, a >>}
  BY DEF BranchTail
<1> HIDE DEF a, b, t
<1>3. \A i \in 1..Len(t) : t[i] \in {a, b}
  <2>1. CASE t = << a >>
    <3>1. Len(t) = 1 /\ t[1] = a
      BY <2>1
    <3>2. QED
      BY <3>1
  <2>2. CASE t = << a, a >>
    <3>1. Len(t) = 2 /\ t[1] = a /\ t[2] = a
      BY <2>2
    <3>2. QED
      BY <3>1
  <2>3. CASE t = << b, a >>
    <3>1. Len(t) = 2 /\ t[1] = b /\ t[2] = a
      BY <2>3
    <3>2. QED
      BY <3>1
  <2>4. QED
    BY <1>2, <2>1, <2>2, <2>3
<1>4. \A i \in 1..Len(t) : t[i] \in Others /\ t[i].alu.op # "Modify"
  BY <1>1, <1>3
<1>5. InOrder(act, t) /\ Fit(t, d.ea)
  BY <1>4, ClassesApart DEF InOrder, Fit, Fitting
<1>6. Enough(t, d.targets)
  BY BranchEnough DEF t
<1>7. QED
  BY <1>5, <1>6 DEF Ready, t

-----------------------------------------------------------------------------
(* The invariant of the data path.                                         *)

\* The core and the bus have their types, CpuControl's status is the register's, and the
\* queue can be run on from the latches.
DataInv ==
    /\ core \in Core /\ access \in Access
    /\ p = core.flags \cap {"I", "D"}
    /\ current_inst # NoInst => Ready(current_inst.memory_action, ucycs.todo, core)

LEMMA ReadyNone == ASSUME NEW act, NEW c PROVE Ready(act, << >>, c)
BY DEF Ready, InOrder, Fit, Enough

LEMMA ReadySame ==
    ASSUME NEW act, NEW s, NEW c, NEW d, Ready(act, s, c),
           d.ea = c.ea \/ d.ea \in Address, d.targets = c.targets
    PROVE  Ready(act, s, d)
BY ReadyFits DEF Ready

\* What the next op may count on
LEMMA FrontFacts ==
    ASSUME IInv, HistoryInv, DataInv, current_inst # NoInst, ~IsEmpty(ucycs)
    PROVE  LET op == FrontOp(ucycs)
               s == ucycs.todo
           IN  /\ op = s[1] /\ op \in MicroOp /\ s \in Seq(MicroOp) /\ s # << >>
               /\ op \in Builds \cup Indexes \cup Increments \cup Others
               /\ Fitting(op, core.ea) /\ op.bus.addr \in Addressable
               /\ op.alu.op = "SetPc" => core.targets # << >>
               /\ op.alu.op = "Modify" => current_inst.memory_action = "ReadModifyWrite"
               /\ op.alu.op = "FixPtr" => current_opcode # 124
               /\ op.alu.op = "OffsetWithExtraCycle" => Tail(s) # << >>
               /\ op.bus.read /\ op.local_latch = "Status" => current_inst.mnemonic # "Plp"
<1> DEFINE op == FrontOp(ucycs)
           s == ucycs.todo
           inst == current_inst
           n == Len(s)
<1>1. TapeOK(ucycs)
  BY DEF IInv, QueueInv
<1>2. /\ op = s[1] /\ op \in MicroOp /\ s \in Seq(MicroOp) /\ s # << >> /\ n \in Nat \ {0}
      /\ Fits(s, 1)
  BY <1>1, TapeFacts
<1>3. Ready(inst.memory_action, s, core) /\ core \in Core
  BY DEF DataInv
<1>4. Running(current_opcode, inst, run, s, extra_adc_sbc_cycle)
  BY UnderWay
<1>5. ControlFacts(F, current_opcode, inst)
  BY <1>4, StartedFacts DEF Running
<1> HIDE DEF n
<1>6. 1 \in 1..n
  BY <1>2
<1>7. InPlace(inst, run.source, s, 1)
  BY <1>4, <1>6 DEF Running, AllInPlace, n
<1>8. Belongs(inst, run.source, op)
  BY <1>2, <1>7 DEF InPlace
<1>9. op \in Builds \cup Indexes \cup Increments \cup Others /\ Fitting(op, core.ea)
      /\ (op.alu.op = "Modify" => inst.memory_action = "ReadModifyWrite")
  BY <1>2, <1>3, <1>6 DEF Ready, InOrder, Fit, n
<1>10. op.alu.op = "SetPc" => core.targets # << >>
  <2> SUFFICES ASSUME op.alu.op = "SetPc" PROVE core.targets # << >>
    OBVIOUS
  <2>1. Len(core.targets) >= n - 1 + 1
    BY <1>2, <1>3, <1>6 DEF Ready, Enough, n
  <2>2. Len(core.targets) # 0
    <3> DEFINE k == Len(core.targets)
    <3>1. k >= n - 1 + 1 /\ n \in Nat \ {0}
      BY <1>2, <2>1
    <3> HIDE DEF k
    <3>2. k # 0
      BY <3>1
    <3>3. QED
      BY <3>2 DEF k
  <2>3. QED
    BY <2>2, EmptySeq
<1>11. op.bus.addr \in Addressable
  BY <1>2 DEF Fits, PlainOp, Executables, Executable
<1>12. op.alu.op = "FixPtr" => current_opcode # 124
  BY <1>5, <1>8 DEF Belongs, ControlFacts, Kind
<1>13. op.alu.op = "OffsetWithExtraCycle" => Tail(s) # << >>
  <2> SUFFICES ASSUME op.alu.op = "OffsetWithExtraCycle" PROVE Tail(s) # << >>
    OBVIOUS
  <2>1. 1 < n
    BY <1>2, <1>7 DEF InPlace, n
  <2>2. Len(Tail(s)) = n - 1
    BY <1>2, HeadTailProperties DEF n
  <2>3. Len(Tail(s)) # 0
    <3> DEFINE k == Len(Tail(s))
    <3> HIDE DEF k
    <3>1. k = n - 1 /\ n \in Nat \ {0} /\ 1 < n
      BY <1>2, <2>1, <2>2 DEF k
    <3>2. k # 0
      BY ONLY <3>1
    <3>3. QED
      BY <3>2 DEF k
  <2>4. QED
    BY <2>3, EmptySeq
<1>14. op.bus.read /\ op.local_latch = "Status" => inst.mnemonic # "Plp"
  BY <1>5, <1>8 DEF Belongs, ControlFacts, Kind
<1>15. QED
  BY <1>2, <1>9, <1>10, <1>11, <1>12, <1>13, <1>14

\* Executing an op leaves a queue that can be run on.
LEMMA ExecuteReady ==
    ASSUME IInv, HistoryInv, DataInv, current_inst # NoInst, ~IsEmpty(ucycs),
           NEW addr, NEW done, NEW e, Executed(FrontOp(ucycs), addr, done, e),
           NEW crossed \in BOOLEAN, NEW taken \in BOOLEAN,
           crossed <=> Crosses(FrontOp(ucycs), done), taken <=> Taken(FrontOp(ucycs), done),
           NEW after, after = AfterAlu(FrontOp(ucycs), Pop(ucycs), crossed, taken)
    PROVE  Ready(current_inst.memory_action, after.todo, e)
<1> DEFINE op == FrontOp(ucycs)
           s == ucycs.todo
           act == current_inst.memory_action
           t == after.todo
<1>1. /\ op = s[1] /\ op \in MicroOp /\ s \in Seq(MicroOp) /\ s # << >>
      /\ op \in Builds \cup Indexes \cup Increments \cup Others
      /\ op.alu.op = "FixPtr" => current_opcode # 124
      /\ op.alu.op = "OffsetWithExtraCycle" => Tail(s) # << >>
  BY FrontFacts
<1>2. Ready(act, s, core) /\ core \in Core
  BY DEF DataInv
<1>3. TapeOK(ucycs)
  BY DEF IInv, QueueInv
<1>4. AllInPlace(current_inst, run.source, s) /\ act \in MemoryAction
  <2>1. Running(current_opcode, current_inst, run, s, extra_adc_sbc_cycle)
    BY UnderWay
  <2>2. QED
    BY <2>1, StartedFacts DEF Running
<1>5. /\ op.alu.op = "Jam" => after = ucycs
      /\ op.alu.op = "Branch" => t = IF taken THEN BranchTail(crossed) ELSE << >>
      /\ op.alu.op \notin {"Jam", "Branch", "OffsetWithExtraCycle", "FixPtr"} => t = Tail(s)
      /\ op.alu.op = "FixPtr" /\ ~(~crossed /\ current_opcode = 124) => t = Tail(s)
  BY <1>3, QueueAfter
<1>6. op.alu.op = "OffsetWithExtraCycle" => t = Tail(s) \/ t = Tail(Tail(s))
  BY <1>3, <1>4, OffsetAfter
<1>7. /\ e \in Core
      /\ e.targets = CASE op.alu.op = "SetPc" -> Tail(core.targets)
                       [] op.alu.op = "Branch" /\ Taken(op, done) -> BranchTargets(done)
                       [] OTHER -> core.targets
      /\ op.alu.op = "Branch" => done \in Core
      /\ op \in Others => e.ea = core.ea \/ e.ea \in Address
  BY DEF Executed
<1>8. op.alu.op # "Branch" => Leaves(op, core, e)
  BY DEF Executed, Leaves
<1> HIDE DEF s, t
<1>9. op.alu.op # "Branch" => Ready(act, Tail(s), e)
  BY <1>1, <1>2, <1>8, ReadyAfter
<1>10. CASE op.alu.op = "Jam"
  <2>1. t = s
    BY <1>5, <1>10 DEF t, s
  <2>2. op \in Others
    BY <1>1, <1>10 DEF Builds, Indexes, Increments
  <2>3. e.targets = core.targets
    BY <1>7, <1>10
  <2>4. QED
    BY <1>2, <1>7, <2>1, <2>2, <2>3, ReadySame DEF t
<1>11. CASE op.alu.op = "Branch"
  <2>1. CASE taken
    <3>1. t = BranchTail(crossed) /\ e.targets = BranchTargets(done) /\ done \in Core
      BY <1>5, <1>7, <1>11, <2>1
    <3>2. crossed <=> High(BranchTarget(done)) # High(done.pc)
      BY <1>11 DEF Crosses
    <3>3. QED
      BY <3>1, <3>2, BranchReady DEF t
  <2>2. CASE ~taken
    BY <1>5, <1>11, <2>2, ReadyNone DEF t
  <2>3. QED
    BY <2>1, <2>2
<1>12. CASE op.alu.op = "OffsetWithExtraCycle"
  <2>1. Ready(act, Tail(s), e)
    BY <1>9, <1>12
  <2>2. Tail(s) \in Seq(MicroOp) /\ Tail(s) # << >>
    BY <1>1, <1>12, HeadTailProperties
  <2>3. Ready(act, Tail(Tail(s)), e)
    BY <1>7, <2>1, <2>2, ReadyTail
  <2>4. QED
    BY <1>6, <1>12, <2>1, <2>3 DEF t
<1>13. CASE op.alu.op \notin {"Jam", "Branch", "OffsetWithExtraCycle"}
  <2>1. t = Tail(s)
    BY <1>1, <1>5, <1>13
  <2>2. QED
    BY <1>9, <1>13, <2>1 DEF t
<1>14. QED
  BY <1>10, <1>11, <1>12, <1>13

\* The status while an op runs, and once the instruction's effects are applied
LEMMA PulledOnly ==
    ASSUME NEW status, NEW a, NEW b, current_inst.mnemonic # "Plp" \/ a = b
    PROVE  Finished(status, a) = Finished(status, b)
BY DEF Finished, FinishRead

LEMMA ExecuteStatus ==
    ASSUME IInv, HistoryInv, DataInv, current_inst # NoInst, ~IsEmpty(ucycs),
           NEW addr, NEW done, NEW e, Executed(FrontOp(ucycs), addr, done, e)
    PROVE  LET op == FrontOp(ucycs)
               pulled == Pulled(op, done)
               status == IF op.bus.read /\ op.local_latch = "Status" THEN pulled ELSE p
           IN  /\ status = e.flags \cap {"I", "D"}
               /\ pulled \in PulledStatus(op)
               /\ Finished(status, pulled)
                      = Finished(e.flags \cap {"I", "D"}, FlagsOf(e.op0) \cap {"I", "D"})
<1> DEFINE op == FrontOp(ucycs)
           pulled == Pulled(op, done)
           reads == op.bus.read /\ op.local_latch = "Status"
           status == IF reads THEN pulled ELSE p
           mask == {"I", "D"}
<1>1. /\ op.alu.op = "Modify" => current_inst.memory_action = "ReadModifyWrite"
      /\ reads => current_inst.mnemonic # "Plp"
  BY FrontFacts
<1>2. /\ done.flags = core.flags \/ reads
      /\ e.flags \cap mask = done.flags \cap mask
      /\ op.alu.op # "Modify" => e.op0 = done.op0
  BY DEF Executed
<1>3. p = core.flags \cap mask
  BY DEF DataInv
<1>4. pulled = IF reads THEN done.flags \cap mask
               ELSE IF current_inst.mnemonic = "Plp" THEN FlagsOf(done.op0) \cap mask ELSE p
  BY DEF Pulled
<1>5. current_inst.mnemonic = "Plp" => current_inst.memory_action = "Read"
  <2>1. Running(current_opcode, current_inst, run, ucycs.todo, extra_adc_sbc_cycle)
    BY UnderWay
  <2>2. ControlFacts(F, current_opcode, current_inst)
    BY <2>1, StartedFacts DEF Running
  <2>3. QED
    BY <2>2 DEF ControlFacts
<1> HIDE DEF op, pulled
<1>6. status = e.flags \cap mask
  BY <1>2, <1>3, <1>4
<1>7. pulled \in PulledStatus(op)
  <2>1. pulled \in SUBSET mask \/ pulled = p
    BY <1>4
  <2>2. ~reads /\ current_inst.mnemonic # "Plp" => pulled = p
    BY <1>4
  <2>3. p \in SUBSET mask
    BY <1>3
  <2>4. QED
    BY <2>1, <2>2, <2>3 DEF PulledStatus
<1>8. Finished(status, pulled) = Finished(status, FlagsOf(e.op0) \cap mask)
  <2>1. current_inst.mnemonic = "Plp" => pulled = FlagsOf(e.op0) \cap mask
    BY <1>1, <1>2, <1>4, <1>5
  <2> HIDE DEF status
  <2>2. QED
    BY <2>1, PulledOnly
<1>9. QED
  BY <1>6, <1>7, <1>8 DEF op, pulled

-----------------------------------------------------------------------------
(* The steps.                                                              *)

\* A bus that answers with bytes
Answering(answer) ==
    \A latch \in Latch, addr \in Effective \cup {-1} : answer[latch][addr] \subseteq Byte

LEMMA ByteRange == /\ \A n : n \in 0..255 <=> n \in Byte
                   /\ 0 \in Byte
BY DEF Byte

\* The outcomes the data has are among those CpuControl allows.
LEMMA OutcomesAllowed ==
    ASSUME NEW op, NEW done
    PROVE  Crosses(op, done) \in Crossings(op) /\ Taken(op, done) \in BranchOutcomes(op)
<1>1. Crosses(op, done) \in BOOLEAN
  <2>1. /\ op.alu.op = "OffsetWithExtraCycle" =>
              Crosses(op, done) = (Unfixed(core, op.alu.offset) # TargetEa(core, op.alu.offset))
        /\ op.alu.op = "Branch" =>
              Crosses(op, done) = (High(BranchTarget(done)) # High(done.pc))
        /\ op.alu.op = "FixPtr" => Crosses(op, done) = (Low(done.ptr) = 0)
        /\ op.alu.op \notin {"OffsetWithExtraCycle", "Branch", "FixPtr"} =>
              Crosses(op, done) = FALSE
    BY Zenon DEF Crosses
  <2>2. QED
    BY <2>1
<1>2. op.alu.op \notin {"OffsetWithExtraCycle", "Branch", "FixPtr"} => Crosses(op, done) = FALSE
  BY Zenon DEF Crosses
<1>3. Taken(op, done) \in BOOLEAN
  BY DEF Taken
<1>4. /\ op.alu.op # "Branch" => Taken(op, done) = FALSE
      /\ op.alu.op = "Branch" /\ current_inst.mnemonic = "Bra" => Taken(op, done) = TRUE
  <2>1. TakesBranch("Bra", current_opcode, done) = TRUE
    BY DEF TakesBranch
  <2>2. QED
    BY <2>1 DEF Taken
<1>5. Crosses(op, done) \in Crossings(op)
  BY <1>1, <1>2 DEF Crossings
<1>6. Taken(op, done) \in BranchOutcomes(op)
  BY <1>3, <1>4 DEF BranchOutcomes
<1>7. QED
  BY <1>5, <1>6

LEMMA ExecuteDataKeeps ==
    ASSUME IInv, HistoryInv, DataInv, NEW sampled \in Lines, NEW answer, Answering(answer),
           ExecuteData(sampled, answer)
    PROVE  Execute(sampled) /\ DataInv'
<1> DEFINE op == FrontOp(ucycs)
           ready == BeforeAccess(core, op)
           addr == AccessAddress(ready, op)
           act == current_inst.memory_action
<1>1. /\ Proceeds(sampled) /\ current_inst # NoInst /\ ~IsEmpty(ucycs) /\ SampleNmi(sampled)
      /\ UNCHANGED << current_inst, current_opcode, extra_adc_sbc_cycle >>
  BY DEF ExecuteData
<1>2. PICK byte \in IF op.bus.read THEN answer[op.local_latch][addr] ELSE {0} :
          LET done == AfterAccess(ready, op, byte)
              e == AluEffect(done, op)
          IN  /\ ExecuteMicroOp(op, Crosses(op, done), Taken(op, done), Pulled(op, done))
              /\ core' = IF IsEmpty(ucycs') THEN Retire(e) ELSE e
              /\ Accesses(addr, done.data, op.bus.vpa, op.bus.read)
  BY DEF ExecuteData
<1> DEFINE done == AfterAccess(ready, op, byte)
           e == AluEffect(done, op)
           crossed == Crosses(op, done)
           taken == Taken(op, done)
           pulled == Pulled(op, done)
           mask == {"I", "D"}
<1>3. /\ op \in MicroOp /\ op \in Builds \cup Indexes \cup Increments \cup Others
      /\ Fitting(op, core.ea) /\ op.bus.addr \in Addressable
      /\ op.alu.op = "SetPc" => core.targets # << >>
  BY <1>1, FrontFacts
<1>4. core \in Core /\ current_opcode \in 0..255
  BY DEF DataInv, IInv, StateTypeOK
<1> HIDE DEF op
<1>5. \A b \in Byte : Executed(op, addr, AfterAccess(ready, op, b),
                                AluEffect(AfterAccess(ready, op, b), op))
  BY <1>3, <1>4, OpMade
<1>6. byte \in Byte
  <2>1. addr \in Effective \cup {-1}
    BY <1>5, ByteRange DEF Executed
  <2>2. op.local_latch \in Latch
    BY <1>3 DEF MicroOp
  <2>3. op.bus.read => byte \in answer[op.local_latch][addr]
    BY <1>2 DEF op
  <2>4. ~op.bus.read => byte = 0
    BY <1>2 DEF op
  <2> HIDE DEF addr
  <2>5. QED
    BY <2>1, <2>2, <2>3, <2>4, ByteRange DEF Answering
<1> HIDE DEF ready
<1>7. Executed(op, addr, done, e)
  BY <1>5, <1>6
<1>8. /\ ExecuteMicroOp(op, crossed, taken, pulled)
      /\ core' = IF IsEmpty(ucycs') THEN Retire(e) ELSE e
      /\ Accesses(addr, done.data, op.bus.vpa, op.bus.read)
  BY <1>2 DEF op, ready
<1> HIDE DEF addr, done, e, crossed, taken, pulled
<1>9. crossed \in Crossings(op) /\ taken \in BranchOutcomes(op)
  BY OutcomesAllowed DEF crossed, taken
<1> DEFINE status == IF op.bus.read /\ op.local_latch = "Status" THEN pulled ELSE p
<1>10. /\ status = e.flags \cap mask /\ pulled \in PulledStatus(op)
       /\ Finished(status, pulled) = Finished(e.flags \cap mask, FlagsOf(e.op0) \cap mask)
  BY <1>1, <1>7, ExecuteStatus DEF op, pulled
<1>11. Execute(sampled)
  BY <1>1, <1>8, <1>9, <1>10 DEF Execute, op
<1>12. Ready(act, ucycs'.todo, e)
  <2>1. ucycs' = AfterAlu(op, Pop(ucycs), crossed, taken)
    BY <1>8 DEF ExecuteMicroOp
  <2>2. crossed \in BOOLEAN /\ taken \in BOOLEAN
    BY <1>9 DEF Crossings, BranchOutcomes
  <2>3. QED
    BY <1>1, <1>7, <2>1, <2>2, ExecuteReady DEF op, crossed, taken
<1>13. e \in Core /\ addr \in Effective \cup {-1} /\ done.data \in Byte
  BY <1>7 DEF Executed
<1>14. access' \in Access
  <2>1. op.bus.vpa \in BOOLEAN /\ op.bus.read \in BOOLEAN
    BY <1>3 DEF MicroOp, BusCycleType
  <2>2. QED
    BY <1>8, <1>13, <2>1 DEF Accesses, Access
<1>15. p' = IF IsEmpty(ucycs') THEN Finished(status, pulled) ELSE status
  BY <1>8 DEF ExecuteMicroOp
<1>16. core' \in Core /\ p' = core'.flags \cap mask /\ Ready(act, ucycs'.todo, core')
  <2>1. CASE IsEmpty(ucycs')
    <3>1. KeepsBut(e, Retire(e), Finished(e.flags \cap mask, FlagsOf(e.op0) \cap mask))
      BY <1>13, RetireKeeps
    <3>2. core' = Retire(e)
      BY <1>8, <2>1
    <3>3. p' = Finished(e.flags \cap mask, FlagsOf(e.op0) \cap mask)
      BY <1>10, <1>15, <2>1
    <3> HIDE DEF status
    <3>4. core' \in Core /\ core'.flags \cap mask = p' /\ core'.ea = e.ea /\ core'.targets = e.targets
      BY <3>1, <3>2, <3>3 DEF KeepsBut
    <3>5. Ready(act, ucycs'.todo, core')
      BY <1>12, <3>4, ReadySame
    <3>6. QED
      BY <3>4, <3>5
  <2>2. CASE ~IsEmpty(ucycs')
    BY <1>8, <1>10, <1>12, <1>13, <1>15, <2>2
  <2>3. QED
    BY <2>1, <2>2
<1>17. act' = act
  BY <1>1
<1>18. DataInv'
  BY <1>14, <1>16, <1>17 DEF DataInv
<1>19. QED
  BY <1>11, <1>18

\* The latches of a new instruction
LEMMA ScratchTypes ==
    ASSUME NEW c \in Core
    PROVE  /\ Scratch(c) \in Core /\ Scratch(c).ea \in Address
           /\ Scratch(c).flags = c.flags /\ Scratch(c).pc = c.pc
<1>1. /\ 127 \in Address /\ 127 \in Effective /\ 0 \in Address /\ 0 \in Byte
      /\ 0 \in SignedByte /\ << >> \in Seq(Address)
  BY EmptySeq DEF Address, Effective, Byte, SignedByte
<1> DEFINE d == [c EXCEPT !.ea = 127, !.ptr = 0]
           e == [d EXCEPT !.op0 = 0, !.signed_offset8 = 0]
           f == [e EXCEPT !.data = 0, !.targets = << >>]
<1>2. d \in Core /\ d.ea = 127 /\ d.flags = c.flags /\ d.pc = c.pc
  BY <1>1 DEF Core
<1>3. Scratch(c) = f
  BY Zenon DEF Scratch
<1> HIDE DEF d
<1>4. e \in Core /\ e.ea = d.ea /\ e.flags = d.flags /\ e.pc = d.pc
  BY <1>1, <1>2 DEF Core
<1> HIDE DEF e
<1>5. f \in Core /\ f.ea = e.ea /\ f.flags = e.flags /\ f.pc = e.pc
  BY <1>1, <1>4 DEF Core
<1> HIDE DEF f
<1>6. QED
  BY <1>1, <1>2, <1>3, <1>4, <1>5

LEMMA ResetTypes ==
    ASSUME NEW c \in Core, NEW vector \in Address
    PROVE  ResetCore(c, vector) \in Core /\ ResetCore(c, vector).flags = c.flags \cup {"I"}
<1> DEFINE d == Scratch(c)
           flags == d.flags \cup {"I"}
<1>1. d \in Core /\ d.flags = c.flags
  BY ScratchTypes
<1>2. flags \in SUBSET Flags
  <2>1. d.flags \in SUBSET Flags /\ "I" \in Flags
    BY <1>1, CoreTypes DEF Flags
  <2>2. QED
    BY <2>1
<1>3. ResetCore(c, vector) = [d EXCEPT !.pc = vector, !.flags = flags]
  BY DEF ResetCore
<1> HIDE DEF flags, d
<1>4. ResetCore(c, vector) \in Core /\ ResetCore(c, vector).flags = flags
  BY <1>1, <1>2, <1>3 DEF Core
<1>5. QED
  BY <1>1, <1>4 DEF flags

LEMMA EmittedOrder ==
    ASSUME NEW opcode \in Opcode
    PROVE  LET inst == Decode[opcode]
           IN  Orderly(inst.memory_action, EmitUcycs(F, inst.address_mode, inst.memory_action))
<1> DEFINE inst == Decode[opcode]
<1>1. inst \in Instruction
  BY DecodeAssumption
<1>2. inst.address_mode \in AddressMode /\ inst.memory_action \in MemoryAction
  BY <1>1 DEF Instruction
<1>3. /\ Emittable(F, inst.address_mode, inst.memory_action)
      /\ inst.address_mode.kind = "CmosNop" =>
            << inst.address_mode.bytes, inst.address_mode.cycles >> \in NopShapes
  BY DecodeAssumption
<1>4. QED
  BY <1>2, <1>3, EmitOrder

LEMMA FetchDataKeeps ==
    ASSUME DataInv, ucycs = EmptyTape, NEW opcode \in Opcode, FetchAndPrepare(opcode),
           UNCHANGED p, NEW opcodes, FetchData(opcodes)
    PROVE  DataInv'
<1> DEFINE inst == Decode[opcode]
           s == EmitUcycs(F, inst.address_mode, inst.memory_action)
           pc == (core.pc + 1) % 65536
           d == Scratch(core)
<1>1. core \in Core /\ p = core.flags \cap {"I", "D"}
  BY DEF DataInv
<1>2. /\ current_opcode' = opcode /\ current_inst' = inst /\ ucycs' = PushAll(EmptyTape, s)
  BY DEF FetchAndPrepare
<1>3. ucycs'.todo = s
  <2>1. s \in Seq(MicroOp)
    BY EmitFresh DEF Fresh
  <2> HIDE DEF s
  <2>2. QED
    BY <1>2, <2>1, ConcatEmptySeq DEF PushAll, EmptyTape
<1>4. Orderly(inst.memory_action, s)
  BY EmittedOrder
<1> HIDE DEF s, inst
<1>5. pc \in Address
  <2>1. core.pc \in Int
    BY <1>1, CoreTypes, WordTypes
  <2> DEFINE n == core.pc + 1
  <2>2. n \in Int
    BY <2>1
  <2> HIDE DEF n
  <2>3. n % 65536 \in Address
    BY <2>2, WordSums
  <2>4. QED
    BY <2>3 DEF n
<1>6. d \in Core /\ d.ea \in Address /\ d.flags = core.flags /\ d.pc = core.pc
  BY <1>1, ScratchTypes
<1>7. core' = [d EXCEPT !.pc = pc]
  <2>1. core' = [d EXCEPT !.pc = (d.pc + 1) % 65536]
    BY DEF FetchData
  <2> HIDE DEF d
  <2>2. QED
    BY <1>6, <2>1
<1> HIDE DEF pc, d
<1>8. core' \in Core /\ core'.flags = core.flags /\ core'.ea \in Address
  <2>1. Moves(d, core') /\ core'.ea = d.ea
    BY <1>5, <1>6, <1>7, SetLatches
  <2>2. QED
    BY <1>6, <2>1 DEF Moves
<1>9. Ready(inst.memory_action, s, core')
  BY <1>4, <1>8, ReadyEmitted
<1>10. access' \in Access
  <2>1. access' = [addr |-> core.pc, data |-> opcode, vpa |-> TRUE, read |-> TRUE]
    BY <1>2 DEF FetchData, Accesses
  <2>2. core.pc \in Effective
    BY <1>1, CoreTypes, WordTypes
  <2>3. opcode \in Byte
    BY DecodeAssumption, ByteRange
  <2>4. QED
    BY <2>1, <2>2, <2>3 DEF Access
<1>11. QED
  BY <1>1, <1>2, <1>3, <1>8, <1>9, <1>10 DEF DataInv

LEMMA EntryDataKeeps ==
    ASSUME DataInv, ucycs = EmptyTape, NEW interrupt \in {"Irq", "Nmi"}, NEW source,
           StartInterrupt(interrupt, source), UNCHANGED p, NEW byte \in Byte,
           core' = [Scratch(core) EXCEPT !.data = byte], access' \in Access
    PROVE  DataInv'
<1> DEFINE s == EmitInt(interrupt)
           tape == PushAll(EmptyTape, s)
           d == Scratch(core)
<1>1. core \in Core /\ p = core.flags \cap {"I", "D"}
  BY DEF DataInv
<1>2. current_inst' = Decode[0] /\ ucycs' = Pop(tape)
  BY DEF StartInterrupt
<1>3. Emission(s) /\ Len(s) = 6 /\ TapeOK(tape)
  BY EmitIntWell, PushOK
<1>4. s \in Seq(Settled("Read"))
  <2>1. EmitInt("Irq") \in Seq(Settled("Read")) /\ EmitInt("Nmi") \in Seq(Settled("Read"))
    BY SettledEmitters
  <2>2. interrupt = "Irq" \/ interrupt = "Nmi"
    OBVIOUS
  <2>3. QED
    BY ONLY <2>1, <2>2
<1> HIDE DEF s
<1>5. s \in Seq(MicroOp) /\ s # << >>
  <2>1. s \in Seq(MicroOp)
    BY <1>3 DEF Emission, WellFormed
  <2>2. s = << >> => Len(s) = 0
    BY EmptySeq
  <2>3. QED
    BY <1>3, <2>1, <2>2
<1>6. tape.todo = s
  BY <1>5, ConcatEmptySeq DEF PushAll, EmptyTape
<1>7. ~IsEmpty(tape)
  BY <1>5, <1>6 DEF IsEmpty
<1> HIDE DEF tape
<1>8. ucycs'.todo = Tail(s)
  BY <1>2, <1>3, <1>6, <1>7, PopTodo
<1>9. d \in Core /\ d.ea \in Address /\ d.flags = core.flags
      /\ core' = [d EXCEPT !.data = byte]
  BY <1>1, ScratchTypes
<1> HIDE DEF d
<1>10. core' \in Core /\ core'.flags = core.flags /\ core'.ea \in Address
  <2>1. \A b \in Byte : Moves(d, [d EXCEPT !.data = b]) /\ [d EXCEPT !.data = b].ea = d.ea
    BY <1>9, SetLatches
  <2>2. Moves(d, core') /\ core'.ea = d.ea
    BY <1>9, <2>1, Zenon
  <2>3. QED
    BY <1>9, <2>2 DEF Moves
<1>11. Ready("Read", Tail(s), core')
  <2>1. Orderly("Read", s)
    BY <1>4, SettledOrder
  <2>2. Ready("Read", s, core')
    BY <1>10, <2>1, ReadyEmitted
  <2>3. QED
    BY <1>5, <1>10, <2>2, ReadyTail
<1>12. current_inst'.memory_action = "Read"
  BY <1>2, DecodeAssumption
<1>13. QED
  BY <1>1, <1>8, <1>10, <1>11, <1>12 DEF DataInv

LEMMA DecimalDataKeeps ==
    ASSUME DataInv, NEW sampled, NEW answer, Answering(answer), DecimalCycleData(sampled, answer)
    PROVE  DataInv'
<1> DEFINE addr == DecimalReadAddress
<1>1. /\ UNCHANGED << core, ucycs, current_inst, p >>
      /\ \E byte \in answer["None"][addr] : Accesses(addr, byte, TRUE, TRUE)
  BY DEF DecimalCycleData, DecimalCycle
<1>2. addr \in Effective
  <2>1. core.ea \in Effective
    BY CoreTypes DEF DataInv
  <2>2. 86 \in Effective /\ 89 \in Effective /\ 127 \in Effective /\ 0 \in Effective
    BY DEF Effective
  <2>3. DecimalAdcImmediateRead \in {86, 89, 127}
    BY DEF DecimalAdcImmediateRead
  <2>4. QED
    BY <2>1, <2>2, <2>3 DEF DecimalReadAddress
<1> HIDE DEF addr
<1>3. answer["None"][addr] \subseteq Byte
  <2>1. "None" \in Latch
    BY DEF Latch
  <2>2. QED
    BY <1>2, <2>1 DEF Answering
<1>4. access' \in Access
  BY <1>1, <1>2, <1>3 DEF Accesses, Access
<1>5. QED
  BY <1>1, <1>4 DEF DataInv

LEMMA ResetDataKeeps ==
    ASSUME DataInv, NEW answer, Answering(answer), ResetData(answer)
    PROVE  DataInv'
<1>1. core \in Core /\ p = core.flags \cap {"I", "D"}
  BY DEF DataInv
<1>2. /\ answer["PcLo"][65532] \subseteq Byte /\ answer["PcHi"][65533] \subseteq Byte
      /\ 65533 \in Effective
  <2>1. "PcLo" \in Latch /\ "PcHi" \in Latch /\ 65532 \in Effective /\ 65533 \in Effective
    BY DEF Latch, Effective
  <2>2. QED
    BY <2>1 DEF Answering
<1>3. PICK lo \in answer["PcLo"][65532], hi \in answer["PcHi"][65533] :
          core' = ResetCore(core, Word(lo, hi))
  BY DEF ResetData
<1>4. Word(lo, hi) \in Address
  BY <1>2, <1>3, WordSums
<1>5. core' \in Core /\ core'.flags = core.flags \cup {"I"}
  BY <1>1, <1>3, <1>4, ResetTypes
<1>6. p' = p \cup {"I"} /\ current_inst' = NoInst
  BY DEF ResetData, Reset
<1>7. access' \in Access
  BY <1>2 DEF ResetData, Accesses, Access
<1>8. QED
  BY <1>1, <1>5, <1>6, <1>7 DEF DataInv

LEMMA InterruptDataKeeps ==
    ASSUME IInv, DataInv, NEW sampled \in Lines, NEW answer, Answering(answer),
           InterruptData(sampled, answer)
    PROVE  DataInv'
<1>1. answer["None"][core.pc] \subseteq Byte /\ core.pc \in Effective
  <2>1. "None" \in Latch
    BY DEF Latch
  <2>2. core.pc \in Effective
    BY CoreTypes, WordTypes DEF DataInv
  <2>3. QED
    BY <2>1, <2>2 DEF Answering
<1>2. PICK byte \in answer["None"][core.pc] : core' = [Scratch(core) EXCEPT !.data = byte]
  BY DEF InterruptData
<1>3. access' \in Access
  BY <1>1 DEF InterruptData, Accesses, Access
<1>4. CASE ServiceNmi(sampled)
  <2>1. Poll(sampled) /\ StartInterrupt("Nmi", "nmi")
    BY <1>4 DEF ServiceNmi
  <2>2. ucycs = EmptyTape /\ UNCHANGED p
    BY <2>1, PollFacts
  <2>3. QED
    BY <1>1, <1>2, <1>3, <2>1, <2>2, EntryDataKeeps
<1>5. CASE ServiceIrq(sampled)
  <2>1. Poll(sampled) /\ StartInterrupt("Irq", "irq")
    BY <1>5 DEF ServiceIrq
  <2>2. ucycs = EmptyTape /\ UNCHANGED p
    BY <2>1, PollFacts
  <2>3. QED
    BY <1>1, <1>2, <1>3, <2>1, <2>2, EntryDataKeeps
<1>6. QED
  BY <1>4, <1>5 DEF InterruptData

LEMMA FirstFetchDataKeeps ==
    ASSUME IInv, DataInv, NEW sampled, NEW answer, FirstFetchData(sampled, answer)
    PROVE  DataInv'
<1>1. ucycs = EmptyTape /\ UNCHANGED p
  BY DEF FirstFetchData, FirstFetch, IInv, QueueInv
<1>2. PICK opcode \in Opcode : FetchAndPrepare(opcode)
  BY DEF FirstFetchData, FirstFetch
<1>3. QED
  BY <1>1, <1>2, FetchDataKeeps DEF FirstFetchData

LEMMA FetchNextDataKeeps ==
    ASSUME IInv, DataInv, NEW sampled \in Lines, NEW answer, FetchNextData(sampled, answer)
    PROVE  DataInv'
<1>1. FetchNext(sampled)
  BY DEF FetchNextData
<1>2. Poll(sampled)
  BY <1>1 DEF FetchNext
<1>3. ucycs = EmptyTape /\ UNCHANGED p
  BY <1>2, PollFacts
<1>4. PICK opcode \in Opcode : FetchAndPrepare(opcode)
  BY <1>1 DEF FetchNext
<1>5. QED
  BY <1>3, <1>4, FetchDataKeeps DEF FetchNextData

\* A step with its data is a step of CpuControl, and keeps the data in order.
LEMMA StepDataKeeps ==
    ASSUME IInv, HistoryInv, DataInv, NEW sampled \in Lines, NEW answer, Answering(answer),
           StepData(sampled, answer)
    PROVE  StepWith(sampled) /\ DataInv'
<1>1. CASE StallData(sampled)
  <2>1. Stall(sampled) /\ UNCHANGED << core, access, p, current_inst, ucycs >>
    BY <1>1 DEF StallData, Stall, dataVars, cpuVars
  <2>2. QED
    BY <2>1 DEF StepWith, DataInv
<1>2. CASE FirstFetchData(sampled, answer)
  BY <1>2, FirstFetchDataKeeps DEF FirstFetchData, StepWith
<1>3. CASE ExecuteData(sampled, answer)
  BY <1>3, ExecuteDataKeeps DEF StepWith
<1>4. CASE DecimalCycleData(sampled, answer)
  BY <1>4, DecimalDataKeeps DEF DecimalCycleData, StepWith
<1>5. CASE InterruptData(sampled, answer)
  BY <1>5, InterruptDataKeeps DEF InterruptData, StepWith
<1>6. CASE FetchNextData(sampled, answer)
  BY <1>6, FetchNextDataKeeps DEF FetchNextData, StepWith
<1>7. QED
  BY <1>1, <1>2, <1>3, <1>4, <1>5, <1>6 DEF StepData

-----------------------------------------------------------------------------
(* One instruction from any registers.                                     *)

\* Until the first fetch the core is the one the case started with.
TestInv ==
    /\ IInv /\ HistoryInv /\ DataInv
    /\ entry \in Entries
    /\ current_inst = NoInst => core = entry

LEMMA MaskTypes == ASSUME NEW flags PROVE flags \cap {"I", "D"} \in SUBSET {"I", "D"}
OBVIOUS

LEMMA TestInit == SetupInitial => TestInv
<1> SUFFICES ASSUME SetupInitial PROVE TestInv
  OBVIOUS
<1>1. Powered /\ core \in Entries /\ p = core.flags \cap {"I", "D"} /\ entry = core
      /\ access = NoAccess
  BY DEF SetupInitial
<1>2. IInv /\ HistoryInv
  BY <1>1, MaskTypes, PoweredIInv, PoweredHistory
<1>3. access \in Access
  BY <1>1 DEF NoAccess, Access, Effective, Byte
<1>4. DataInv
  BY <1>1, <1>3, EntriesAssumption DEF DataInv, Powered
<1>5. QED
  BY <1>1, <1>2, <1>4 DEF TestInv

LEMMA TestAnswers == ASSUME entry \in Entries PROVE Answering(Answers)
<1> SUFFICES ASSUME NEW latch \in Latch, NEW addr \in Effective \cup {-1}
             PROVE  Answers[latch][addr] \subseteq Byte
  BY DEF Answering
<1>1. addr \in Int
  BY DEF Effective
<1>2. Answers[latch][addr] = IF latch = "None" THEN {0} ELSE Recorded(entry, latch)
  BY <1>1 DEF Answers
<1>3. Recorded(entry, latch) \subseteq Byte
  BY RecordedAssumption
<1>4. QED
  BY <1>2, <1>3, ByteRange

LEMMA TestNext == TestInv /\ [TestCycle]_allVars => TestInv'
<1> SUFFICES ASSUME TestInv, [TestCycle]_allVars PROVE TestInv'
  OBVIOUS
<1> USE DEF TestInv
<1>1. Answering(Answers)
  BY TestAnswers
<1> HIDE DEF TestInv
<1>2. IInv /\ HistoryInv /\ DataInv /\ entry \in Entries /\ (current_inst = NoInst => core = entry)
  BY DEF TestInv
<1>3. ASSUME StepWith(QuietLines), DataInv'
      PROVE  IInv' /\ HistoryInv' /\ DataInv'
  BY <1>2, <1>3, QuietAssumption, StepKeeps, StepHistory
<1>4. CASE FirstFetchData(QuietLines, Answers)
  <2>1. FirstFetch(QuietLines) /\ core = entry /\ entry' = core
    BY <1>2, <1>4 DEF FirstFetchData, FirstFetch, FetchData, Starts
  <2>2. IInv' /\ HistoryInv' /\ DataInv'
    BY <1>2, <1>3, <1>4, <2>1, FirstFetchDataKeeps DEF StepWith
  <2>3. current_inst' # NoInst
    BY <2>1, DecodeAssumption DEF FirstFetch, FetchAndPrepare
  <2>4. QED
    BY <1>2, <2>1, <2>2, <2>3 DEF TestInv
<1>5. CASE ExecuteData(QuietLines, Answers)
  <2>1. Execute(QuietLines) /\ DataInv'
    BY <1>1, <1>2, <1>5, QuietAssumption, ExecuteDataKeeps
  <2>2. entry' = entry /\ current_inst # NoInst /\ current_inst' = current_inst
    BY <1>5 DEF ExecuteData, Continues
  <2>3. IInv' /\ HistoryInv' /\ DataInv'
    BY <1>3, <2>1 DEF StepWith
  <2>4. QED
    BY <1>2, <2>2, <2>3 DEF TestInv
<1>6. CASE DecimalCycleData(QuietLines, Answers)
  <2>1. DecimalCycle(QuietLines) /\ DataInv'
    BY <1>1, <1>2, <1>6, DecimalDataKeeps DEF DecimalCycleData
  <2>2. entry' = entry /\ current_inst # NoInst /\ current_inst' = current_inst
    BY <1>6 DEF DecimalCycleData, DecimalCycle, AtBoundary, Continues
  <2>3. IInv' /\ HistoryInv' /\ DataInv'
    BY <1>3, <2>1 DEF StepWith
  <2>4. QED
    BY <1>2, <2>2, <2>3 DEF TestInv
<1>7. CASE UNCHANGED allVars
  BY <1>2, <1>7 DEF allVars, dataVars, vars, cpuVars, nmiVars, TestInv, IInv, StateTypeOK, QueueInv,
     SourceInv, HistoryInv, DataInv
<1>8. QED
  BY <1>4, <1>5, <1>6, <1>7 DEF TestCycle

\* Whatever registers an instruction starts with and whatever bytes it reads, it leaves
\* bytes in the 8-bit registers, words in the 16-bit ones, no address further beyond $FFFF
\* than an index can take it, and the I and D that CpuControl takes it to leave.
THEOREM DatapathTypesKept == TestSpec => []DatapathTypeOK
<1>1. TestInv => DatapathTypeOK
  BY DEF TestInv, DataInv, DatapathTypeOK
<1>2. QED
  BY <1>1, TestInit, TestNext, PTL DEF TestSpec

-----------------------------------------------------------------------------
(* The core on a bus with a program.                                       *)

\* The memory holds bytes, so that it answers with bytes; the lines are ones the host sets.
BusInv == lines \in Lines /\ \A addr \in DOMAIN ram : ram[addr] \in Byte
SystemInv == IInv /\ HistoryInv /\ DataInv /\ BusInv

LEMMA FetchedByte == ASSUME BusInv, NEW addr PROVE Fetch(addr) \in Byte
BY ByteRange DEF BusInv, Fetch

LEMMA MemoryAnswers == ASSUME BusInv PROVE Answering(Memory)
<1> SUFFICES ASSUME NEW latch \in Latch, NEW addr \in Effective \cup {-1}
             PROVE  Memory[latch][addr] \subseteq Byte
  BY DEF Answering
<1>1. addr \in Int
  BY DEF Effective
<1>2. Memory[latch][addr] = {Fetch(addr)}
  BY <1>1 DEF Memory
<1>3. QED
  BY <1>2, FetchedByte

LEMMA CellsStayBytes ==
    ASSUME BusInv, NEW addr, NEW byte \in Byte, Store(addr, byte)
    PROVE  \A cell \in DOMAIN ram' : ram'[cell] \in Byte
<1> DEFINE here == addr % SIZE
<1> HIDE DEF here
<1>1. ram' = Put(ram, here, byte)
  BY DEF Store, here
<1>2. ram' = [cell \in {here} \cup DOMAIN ram |-> IF cell = here THEN byte ELSE ram[cell]]
  BY <1>1 DEF Put
<1> SUFFICES ASSUME NEW cell \in DOMAIN ram' PROVE ram'[cell] \in Byte
  OBVIOUS
<1>3. CASE cell = here
  BY <1>2, <1>3
<1>4. CASE cell # here
  <2>1. cell \in DOMAIN ram /\ ram'[cell] = ram[cell]
    BY <1>2, <1>4
  <2>2. QED
    BY <2>1, Zenon DEF BusInv
<1>5. QED
  BY <1>3, <1>4

\* Each of the three lines may be set by itself.
LEMMA SetOneLine ==
    ASSUME NEW Level, NEW l \in [irq : Level, nmi : Level, rdy : Level], NEW b \in Level
    PROVE  /\ [l EXCEPT !.irq = b] \in [irq : Level, nmi : Level, rdy : Level]
           /\ [l EXCEPT !.nmi = b] \in [irq : Level, nmi : Level, rdy : Level]
           /\ [l EXCEPT !.rdy = b] \in [irq : Level, nmi : Level, rdy : Level]
BY ONLY l \in [irq : Level, nmi : Level, rdy : Level], b \in Level

LEMMA SetLineTypes ==
    ASSUME NEW l \in Lines
    PROVE  /\ [l EXCEPT !.irq = TRUE] \in Lines /\ [l EXCEPT !.irq = FALSE] \in Lines
           /\ [l EXCEPT !.nmi = TRUE] \in Lines /\ [l EXCEPT !.nmi = FALSE] \in Lines
           /\ [l EXCEPT !.rdy = TRUE] \in Lines /\ [l EXCEPT !.rdy = FALSE] \in Lines
<1>1. l \in [irq : BOOLEAN, nmi : BOOLEAN, rdy : BOOLEAN] /\ TRUE \in BOOLEAN /\ FALSE \in BOOLEAN
  BY BusLinesAssumption, Zenon
<1>2. [l EXCEPT !.irq = TRUE] \in Lines /\ [l EXCEPT !.irq = FALSE] \in Lines
  BY ONLY <1>1, SetOneLine, BusLinesAssumption, Zenon
<1>3. [l EXCEPT !.nmi = TRUE] \in Lines /\ [l EXCEPT !.nmi = FALSE] \in Lines
  BY ONLY <1>1, SetOneLine, BusLinesAssumption, Zenon
<1>4. [l EXCEPT !.rdy = TRUE] \in Lines /\ [l EXCEPT !.rdy = FALSE] \in Lines
  BY ONLY <1>1, SetOneLine, BusLinesAssumption, Zenon
<1>5. QED
  BY ONLY <1>2, <1>3, <1>4, Zenon

LEMMA SystemStarts == SystemInit => SystemInv
<1> SUFFICES ASSUME SystemInit PROVE SystemInv
  OBVIOUS
<1>1. Powered /\ p = {"I"} /\ Init
  BY DEF SystemInit, Init
<1>2. IInv /\ HistoryInv
  BY <1>1, InitIInv, InitHistory
<1> DEFINE vector == Word(Program[65532], Program[65533])
           registers == [a |-> 0, x |-> 0, y |-> 0, s |-> 253, flags |-> {"I", "U"},
                         pc |-> vector, ea |-> 0, ptr |-> 0,
                         op0 |-> 0, signed_offset8 |-> 0, data |-> 0, targets |-> << >>]
<1>3. core = Scratch(registers) /\ access = NoAccess /\ ram = Program /\ lines = NoLines
  BY DEF SystemInit
<1>4. vector \in Address
  BY ProgramAssumption, WordSums
<1>5. 0 \in Byte /\ 253 \in Byte /\ 0 \in Address /\ 0 \in Effective /\ 0 \in SignedByte
      /\ << >> \in Seq(Address) /\ {"I", "U"} \in SUBSET Flags
  BY EmptySeq DEF Byte, Address, Effective, SignedByte, Flags
<1> HIDE DEF vector
<1>6. registers \in Core /\ registers.flags = {"I", "U"}
  BY <1>4, <1>5 DEF Core
<1> HIDE DEF registers
<1>7. core \in Core /\ core.flags = {"I", "U"}
  BY <1>3, <1>6, ScratchTypes
<1>8. p = core.flags \cap {"I", "D"}
  BY <1>1, <1>7
<1>9. access \in Access
  BY <1>3, <1>5 DEF NoAccess, Access
<1>10. DataInv
  BY <1>1, <1>7, <1>8, <1>9 DEF DataInv, Powered
<1>11. BusInv
  BY <1>3, ProgramAssumption, BusLinesAssumption DEF BusInv, NoLines
<1>12. QED
  BY <1>2, <1>10, <1>11 DEF SystemInv

\* A cycle of the core is a step of CpuControl with the lines as they are, and writes a byte.
LEMMA CpuStepKeeps == ASSUME SystemInv, CpuStep PROVE SystemInv' /\ Next
<1>1. lines \in Lines /\ Answering(Memory) /\ StepData(lines, Memory)
  BY MemoryAnswers DEF SystemInv, BusInv, CpuStep
<1>2. StepWith(lines) /\ DataInv'
  BY <1>1, StepDataKeeps DEF SystemInv
<1>3. IInv' /\ HistoryInv'
  BY <1>1, <1>2, StepKeeps, StepHistory DEF SystemInv
<1>4. access'.data \in Byte
  BY <1>2 DEF DataInv, Access
<1>5. BusInv'
  <2>1. CASE WritePending
    <3> DEFINE released == [lines EXCEPT !.irq = FALSE]
               addr == access'.addr
               byte == access'.data
    <3>1. released \in Lines
      BY <1>1, SetLineTypes, Zenon
    <3>2. Store(addr, byte) /\ lines' = IF addr = IrqPort THEN released ELSE lines
      BY <2>1, Zenon DEF CpuStep
    <3> HIDE DEF released, addr, byte
    <3>3. lines' \in Lines
      BY <1>1, <3>1, <3>2
    <3>4. BusInv /\ byte \in Byte
      BY <1>4 DEF SystemInv, byte
    <3>5. \A cell \in DOMAIN ram' : ram'[cell] \in Byte
      BY ONLY <3>2, <3>4, CellsStayBytes, Zenon
    <3>6. QED
      BY <3>3, <3>5 DEF BusInv
  <2>2. CASE ~WritePending
    BY <2>2 DEF CpuStep, busVars, BusInv, SystemInv
  <2>3. QED
    BY <2>1, <2>2
<1>6. QED
  BY <1>1, <1>2, <1>3, <1>5 DEF SystemInv, Next, Step

LEMMA HostStepKeeps == ASSUME SystemInv, HostStep PROVE SystemInv' /\ UNCHANGED vars
<1>1. PICK new \in Lines : Host(new)
  <2>1. lines \in Lines
    BY DEF SystemInv, BusInv
  <2>2. /\ [lines EXCEPT !.irq = TRUE] \in Lines /\ [lines EXCEPT !.nmi = TRUE] \in Lines
        /\ [lines EXCEPT !.nmi = FALSE] \in Lines /\ [lines EXCEPT !.rdy = FALSE] \in Lines
        /\ [lines EXCEPT !.rdy = TRUE] \in Lines
    BY ONLY <2>1, SetLineTypes, Zenon
  <2>3. QED
    BY <2>2, Zenon DEF HostStep, RaiseIrq, RaiseNmi, LowerNmi, PullRdy, ReleaseRdy
<1>2. lines' \in Lines /\ UNCHANGED << ram, allVars >>
  BY <1>1 DEF Host, SetLines
<1>3. BusInv'
  BY <1>2 DEF SystemInv, BusInv
<1>4. IInv' /\ HistoryInv' /\ DataInv'
  BY <1>2 DEF SystemInv, allVars, dataVars, vars, cpuVars, nmiVars, IInv, StateTypeOK, QueueInv,
     SourceInv, HistoryInv, DataInv
<1>5. QED
  BY <1>2, <1>3, <1>4 DEF SystemInv, allVars

LEMMA HostResetKeeps == ASSUME SystemInv, HostReset PROVE SystemInv' /\ Next
<1>1. ResetData(Memory) /\ UNCHANGED busVars /\ Answering(Memory)
  BY MemoryAnswers DEF HostReset, SystemInv
<1>2. Reset
  BY <1>1 DEF ResetData
<1>3. IInv' /\ HistoryInv'
  BY <1>2, ResetKeeps, ResetHistory DEF SystemInv
<1>4. DataInv'
  BY <1>1, ResetDataKeeps DEF SystemInv
<1>5. BusInv'
  BY <1>1 DEF SystemInv, BusInv, busVars
<1>6. QED
  BY <1>2, <1>3, <1>4, <1>5 DEF SystemInv, Next

LEMMA SystemKeeps ==
    ASSUME SystemInv, [SystemNext]_systemVars
    PROVE  SystemInv' /\ [Next]_vars
<1>1. CASE UNCHANGED systemVars
  <2>1. UNCHANGED << allVars, busVars >>
    BY <1>1 DEF systemVars
  <2>2. BusInv' /\ IInv' /\ HistoryInv' /\ DataInv'
    BY <2>1 DEF SystemInv, BusInv, busVars, allVars, dataVars, vars, cpuVars, nmiVars, IInv,
       StateTypeOK, QueueInv, SourceInv, HistoryInv, DataInv
  <2>3. QED
    BY <2>1, <2>2 DEF SystemInv, allVars
<1>2. QED
  BY <1>1, CpuStepKeeps, HostStepKeeps, HostResetKeeps DEF SystemNext

\* On its bus, running any program under any host, the registers and latches keep their
\* types and the memory holds bytes: the data path never needs a wider register.
THEOREM SystemTypesKept == SystemSpec => [](DatapathTypeOK /\ BusInv)
<1>1. SystemInv => DatapathTypeOK /\ BusInv
  BY DEF SystemInv, DataInv, DatapathTypeOK
<1>2. QED
  BY <1>1, SystemStarts, SystemKeeps, PTL DEF SystemSpec

\* The system is a behaviour of CpuControl: the outcomes the registers and the memory
\* compute - pages crossed, branches taken, flags pulled - are ones CpuControl allows, and
\* so are the lines and resets of the host.
THEOREM SystemIsControlled == SystemSpec => Spec
<1>1. SystemInit => Init
  BY DEF SystemInit
<1>2. QED
  BY <1>1, SystemStarts, SystemKeeps, PTL DEF SystemSpec, Spec
=============================================================================
