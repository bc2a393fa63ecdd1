-------------------------- MODULE SingleStep_proofs -------------------------
(***************************************************************************)
(* What one instruction does, for every flavor, opcode table, starting     *)
(* registers and bytes read: it changes only the registers and flags that  *)
(* the manual names; the accumulator's column computes from the byte it    *)
(* reads; a read-modify-write writes back what its row makes of the byte;  *)
(* and the undocumented opcodes combine two documented ones.               *)
(*                                                                         *)
(* The argument is about queues.  The ops before the last one (or three)   *)
(* of an instruction leave the registers alone and do nothing but read, so *)
(* the operand meets the registers of the start.                           *)
(***************************************************************************)
EXTENDS Datapath_proofs

-----------------------------------------------------------------------------
(* What an instruction may change.                                         *)

\* From c to d no register or flag changes but those of `may`; the latches may.
Within(c, d, may) ==
    /\ d.a = c.a \/ "a" \in may
    /\ d.x = c.x \/ "x" \in may
    /\ d.y = c.y \/ "y" \in may
    /\ d.s = c.s \/ "s" \in may
    /\ d.flags \ may = c.flags \ may

LEMMA WithinOn ==
    ASSUME NEW c, NEW d, NEW e, NEW may, Within(c, d, may), Within(d, e, may)
    PROVE  Within(c, e, may)
BY DEF Within

LEMMA WithinItself == ASSUME NEW c, NEW may PROVE Within(c, c, may)
BY DEF Within

LEMMA WithinMore ==
    ASSUME NEW c, NEW d, NEW may, NEW more, Within(c, d, may), may \subseteq more
    PROVE  Within(c, d, more)
BY DEF Within

\* Changes of one register, of the flags, and of latches
LEMMA ByteWithin ==
    ASSUME NEW c \in Core, NEW register \in {"a", "x", "y", "s"}, NEW value, NEW may,
           register \in may
    PROVE  Within(c, [c EXCEPT ![register] = value], may)
<1>1. CASE register = "a"
  BY <1>1 DEF Core, Within
<1>2. CASE register = "x"
  BY <1>2 DEF Core, Within
<1>3. CASE register = "y"
  BY <1>3 DEF Core, Within
<1>4. CASE register = "s"
  BY <1>4 DEF Core, Within
<1>5. QED
  BY <1>1, <1>2, <1>3, <1>4

LEMMA FlagsWithin ==
    ASSUME NEW c \in Core, NEW flags, NEW may, flags \ may = c.flags \ may
    PROVE  Within(c, [c EXCEPT !.flags = flags], may)
BY DEF Core, Within

LEMMA LatchesWithin ==
    ASSUME NEW c \in Core, NEW value, NEW may
    PROVE  /\ Within(c, [c EXCEPT !.op0 = value], may) /\ Within(c, [c EXCEPT !.data = value], may)
           /\ Within(c, [c EXCEPT !.ea = value], may) /\ Within(c, [c EXCEPT !.ptr = value], may)
           /\ Within(c, [c EXCEPT !.pc = value], may)
           /\ Within(c, [c EXCEPT !.targets = value], may)
           /\ Within(c, [c EXCEPT !.signed_offset8 = value], may)
<1>1. Within(c, [c EXCEPT !.op0 = value], may) /\ Within(c, [c EXCEPT !.data = value], may)
  BY DEF Core, Within
<1>2. Within(c, [c EXCEPT !.ea = value], may) /\ Within(c, [c EXCEPT !.ptr = value], may)
  BY DEF Core, Within
<1>3. Within(c, [c EXCEPT !.pc = value], may) /\ Within(c, [c EXCEPT !.targets = value], may)
  BY DEF Core, Within
<1>4. Within(c, [c EXCEPT !.signed_offset8 = value], may)
  BY DEF Core, Within
<1>5. QED
  BY <1>1, <1>2, <1>3, <1>4

\* A result changes its register and the flags of its mask.
LEMMA UpdateWithin ==
    ASSUME NEW c \in Core, NEW register \in {"a", "x", "y", "op0"}, NEW result, ByteResult(result),
           NEW may, result.flag_mask \subseteq may, register = "op0" \/ register \in may
    PROVE  Within(c, Update(c, register, result), may)
<1> DEFINE d == [c EXCEPT ![register] = result.value]
           flags == Apply(result, c.flags)
<1>1. result.value \in Byte
  BY DEF ByteResult
<1>2. d \in Core /\ d.flags = c.flags
  <2>1. Keeps(c, d)
    BY <1>1, SetByte
  <2>2. register # "flags"
    OBVIOUS
  <2>3. QED
    BY <2>1, <2>2 DEF Keeps, Core
<1>3. Within(c, d, may)
  <2>1. CASE register = "op0"
    BY <2>1, LatchesWithin
  <2>2. CASE register # "op0"
    BY <2>2, ByteWithin
  <2>3. QED
    BY <2>1, <2>2
<1>4. flags \ may = c.flags \ may
  BY DEF Apply
<1>5. Update(c, register, result) = [d EXCEPT !.flags = flags]
  BY DEF Update, Core
<1> HIDE DEF d, flags
<1>6. Within(d, [d EXCEPT !.flags = flags], may)
  BY <1>2, <1>4, FlagsWithin
<1>7. QED
  BY <1>3, <1>5, <1>6, WithinOn

LEMMA SetFlagWithin ==
    ASSUME NEW c \in Core, NEW flag, NEW condition, NEW may, flag \in may
    PROVE  Within(c, SetFlag(c, flag, condition), may)
<1> DEFINE flags == (c.flags \ {flag}) \cup Flag(flag, condition)
<1>1. flags \ may = c.flags \ may
  BY DEF Flag
<1>2. SetFlag(c, flag, condition) = [c EXCEPT !.flags = flags]
  BY DEF SetFlag
<1> HIDE DEF flags
<1>3. QED
  BY <1>1, <1>2, FlagsWithin

\* The flags each kind of result replaces
LEMMA Masks ==
    ASSUME NEW value, NEW carry, NEW overflow, NEW a
    PROVE  /\ Zn(value).flag_mask = {"Z", "N"}
           /\ WithShiftFlags(value, carry).flag_mask = {"Z", "N", "C"}
           /\ Asl(value).flag_mask = {"Z", "N", "C"} /\ Lsr(value).flag_mask = {"Z", "N", "C"}
           /\ Rol(value, carry).flag_mask = {"Z", "N", "C"}
           /\ Ror(value, carry).flag_mask = {"Z", "N", "C"}
           /\ Inc(value).flag_mask = {"Z", "N"} /\ Dec(value).flag_mask = {"Z", "N"}
           /\ Tsb(a, value).flag_mask = {"Z"} /\ Trb(a, value).flag_mask = {"Z"}
<1>1. \A v : Zn(v).flag_mask = {"Z", "N"}
  BY ResultParts DEF Zn
<1>2. \A v, c : WithShiftFlags(v, c).flag_mask = {"Z", "N", "C"}
  BY ResultParts DEF WithShiftFlags
<1>3. /\ Asl(value).flag_mask = {"Z", "N", "C"} /\ Lsr(value).flag_mask = {"Z", "N", "C"}
      /\ Rol(value, carry).flag_mask = {"Z", "N", "C"}
      /\ Ror(value, carry).flag_mask = {"Z", "N", "C"}
  BY <1>2 DEF Asl, Lsr, Rol, Ror
<1>4. Inc(value).flag_mask = {"Z", "N"} /\ Dec(value).flag_mask = {"Z", "N"}
  BY <1>1 DEF Inc, Dec
<1>5. Tsb(a, value).flag_mask = {"Z"} /\ Trb(a, value).flag_mask = {"Z"}
  BY ResultParts DEF Tsb, Trb
<1>6. QED
  BY <1>1, <1>2, <1>3, <1>4, <1>5

LEMMA ShiftMasks ==
    ASSUME NEW name \in {"Asl", "Lsr", "Rol", "Ror"}, NEW value, NEW carry
    PROVE  ShiftOf(name, value, carry).flag_mask = {"Z", "N", "C"}
<1>1. /\ Asl(value).flag_mask = {"Z", "N", "C"} /\ Lsr(value).flag_mask = {"Z", "N", "C"}
      /\ Rol(value, carry).flag_mask = {"Z", "N", "C"}
      /\ Ror(value, carry).flag_mask = {"Z", "N", "C"}
  BY Masks
<1>2. QED
  BY <1>1 DEF ShiftOf

LEMMA CompareWithin ==
    ASSUME NEW c \in Core, NEW byte \in Byte, NEW operand \in Byte, NEW may,
           {"N", "Z", "C"} \subseteq may
    PROVE  Within(c, Compare(c, byte, operand), may)
<1> DEFINE result == Zn((byte - operand) % 256)
           flags == Apply(result, c.flags)
           d == [c EXCEPT !.flags = flags]
<1>1. (byte - operand) % 256 \in Byte
  BY DEF Byte
<1>2. ByteResult(result) /\ result.flag_mask = {"Z", "N"}
  BY <1>1, ZnResult, Masks
<1>3. d \in Core
  BY <1>2, CoreTypes, ApplyKeeps, SetFlags1
<1> HIDE DEF result
<1>4. flags \ may = c.flags \ may
  BY <1>2 DEF Apply
<1>5. Compare(c, byte, operand) = SetFlag(d, "C", byte >= operand)
  BY DEF Compare, result
<1>6. Within(c, d, may)
  BY <1>4, FlagsWithin
<1> HIDE DEF d
<1>7. Within(d, SetFlag(d, "C", byte >= operand), may)
  BY <1>3, SetFlagWithin
<1>8. QED
  BY <1>5, <1>6, <1>7, WithinOn

LEMMA BitTestWithin ==
    ASSUME NEW c \in Core, NEW immediate, NEW may,
           "Z" \in may, ~immediate => "N" \in may /\ "V" \in may
    PROVE  Within(c, BitTest(c, immediate), may)
<1> DEFINE tested == SetFlag(c, "Z", And(c.a, c.op0) = 0)
           flags == (tested.flags \ {"N", "V"}) \cup (FlagsOf(c.op0) \cap {"N", "V"})
           d == [tested EXCEPT !.flags = flags]
<1>1. Within(c, tested, may)
  BY SetFlagWithin
<1>2. Keeps(c, tested)
  BY SetFlagKeeps DEF Arithmetic
<1>3. BitTest(c, immediate) = IF immediate THEN tested ELSE d
  BY DEF BitTest
<1> HIDE DEF tested
<1>4. ~immediate => flags \ may = tested.flags \ may
  OBVIOUS
<1> HIDE DEF flags
<1>5. ~immediate => Within(tested, d, may)
  BY <1>2, <1>4, FlagsWithin DEF Keeps
<1>6. QED
  BY <1>1, <1>3, <1>5, WithinOn

LEMMA ArrWithin ==
    ASSUME NEW c \in Core, NEW may, {"a", "N", "V", "Z", "C"} \subseteq may
    PROVE  Within(c, Arr(F, c), may)
<1> DEFINE anded == And(c.a, c.op0)
           result == Ror(anded, CarryIn(c))
           rotated == Update(c, "a", result)
<1>1. anded \in Byte /\ CarryIn(c) \in BOOLEAN
  BY CoreTypes, LogicBytes DEF CarryIn
<1>2. ByteResult(result) /\ result.flag_mask \subseteq may
  <2>1. ByteResult(result)
    BY <1>1, ShiftResults
  <2>2. result.flag_mask = {"Z", "N", "C"}
    BY Masks
  <2>3. QED
    BY <2>1, <2>2
<1> HIDE DEF result
<1>3. Keeps(c, rotated) /\ Within(c, rotated, may)
  BY <1>2, UpdateKeeps, UpdateWithin
<1> HIDE DEF rotated
<1>4. rotated \in Core
  BY <1>3 DEF Keeps
<1>5. Within(c, RotateMasked(c), may)
  <2> DEFINE bits == Bits(rotated.a)
             d == SetFlag(rotated, "C", 6 \in bits)
             e == SetFlag(d, "V", (6 \in bits) # (5 \in bits))
  <2>1. Keeps(rotated, d) /\ Within(rotated, d, may)
    BY <1>4, SetFlagKeeps, SetFlagWithin DEF Arithmetic
  <2>2. RotateMasked(c) = e
    BY DEF RotateMasked, rotated, result
  <2> HIDE DEF bits, d
  <2>3. Within(d, e, may)
    BY <2>1, SetFlagWithin DEF Keeps
  <2> HIDE DEF e
  <2>4. QED
    BY <1>3, <2>1, <2>2, <2>3, WithinOn
<1>6. Within(c, RotateMaskedDecimal(c), may)
  <2> DEFINE fixes(nibble) == nibble + (nibble % 2) > 5
             low == IF fixes(anded % 16) THEN (rotated.a + 6) % 16 ELSE rotated.a % 16
             high == IF fixes(anded \div 16) THEN (rotated.a \div 16) + 6 ELSE rotated.a \div 16
             value == (16 * high + low) % 256
             d == SetFlag(rotated, "N", CarryIn(c))
             e == SetFlag(d, "V", (6 \in Bits(anded)) # (6 \in Bits(rotated.a)))
             g == [e EXCEPT !.a = value]
             h == SetFlag(g, "C", fixes(anded \div 16))
  <2>1. Keeps(rotated, d) /\ Within(rotated, d, may)
    BY <1>4, SetFlagKeeps, SetFlagWithin DEF Arithmetic
  <2>2. RotateMaskedDecimal(c) = h
    BY DEF RotateMaskedDecimal, rotated, result
  <2>3. value \in Byte
    <3>1. rotated.a \in Byte
      BY <1>4, CoreTypes
    <3>2. low \in Int /\ high \in Int
      <4> DEFINE ra == rotated.a
      <4>1. ra \in Int
        BY <3>1, ByteSteps
      <4> HIDE DEF ra, anded
      <4>2. (ra + 6) % 16 \in Int /\ ra % 16 \in Int /\ (ra \div 16) + 6 \in Int /\ ra \div 16 \in Int
        BY <4>1
      <4>3. QED
        BY <4>2 DEF ra
    <3> HIDE DEF low, high
    <3>3. 16 * high + low \in Int
      BY <3>2
    <3>4. QED
      BY <3>3, WordSums
  <2> HIDE DEF d, value
  <2>4. Keeps(d, e) /\ Within(d, e, may)
    BY <2>1, SetFlagKeeps, SetFlagWithin DEF Keeps, Arithmetic
  <2> HIDE DEF e
  <2>5. Keeps(e, g) /\ Within(e, g, may)
    BY <2>3, <2>4, SetByte, ByteWithin DEF Keeps
  <2> HIDE DEF g, fixes
  <2>6. Within(g, h, may)
    BY <2>5, SetFlagWithin DEF Keeps
  <2> HIDE DEF h
  <2>7. QED
    BY <1>3, <2>1, <2>2, <2>4, <2>5, <2>6, WithinOn
<1>7. QED
  BY <1>5, <1>6 DEF Arr

\* The masks of arithmetic
LEMMA SumMasks ==
    ASSUME NEW a \in Byte, NEW b \in Byte, NEW flags, NEW semantics
    PROVE  /\ Adc(a, b, flags, semantics).flag_mask \subseteq Arithmetic
           /\ Sbc(a, b, flags, semantics).flag_mask \subseteq Arithmetic
BY AdcResult, SbcResult DEF ByteResult

-----------------------------------------------------------------------------
(* What the manual says of each instruction.                               *)

LEMMA Manual ==
    LET m == current_inst.mnemonic
        implied == current_inst.address_mode.kind = "Implied"
    IN  /\ m \in {"Lda", "Pla", "And", "Eor", "Ora", "Txa", "Tya", "Anc", "Ane"} =>
              {"a", "N", "Z"} \subseteq MayChange
        /\ m = "Anc" => "C" \in MayChange
        /\ m \in {"Ldx", "Plx", "Tax", "Tsx", "Inx", "Dex"} => {"x", "N", "Z"} \subseteq MayChange
        /\ m \in {"Ldy", "Ply", "Tay", "Iny", "Dey"} => {"y", "N", "Z"} \subseteq MayChange
        /\ m \in {"Adc", "Sbc", "Usbc", "Arr", "Rra", "Isc"} =>
              {"a", "N", "V", "Z", "C"} \subseteq MayChange
        /\ m \in {"Cmp", "Cpx", "Cpy", "Dcp"} => {"N", "Z", "C"} \subseteq MayChange
        /\ m \in {"Slo", "Rla", "Sre", "Alr"} => {"a", "N", "Z", "C"} \subseteq MayChange
        /\ m = "Sbx" => {"x", "N", "Z", "C"} \subseteq MayChange
        /\ m \in {"Lax", "Lxa"} => {"a", "x", "N", "Z"} \subseteq MayChange
        /\ m = "Las" => {"a", "x", "s", "N", "Z"} \subseteq MayChange
        /\ m \in {"Asl", "Lsr", "Rol", "Ror"} =>
              {"N", "Z", "C"} \subseteq MayChange /\ (implied => "a" \in MayChange)
        /\ m \in {"Inc", "Dec"} =>
              {"N", "Z"} \subseteq MayChange /\ (implied => "a" \in MayChange)
        /\ m = "Bit" =>
              /\ "Z" \in MayChange
              /\ current_inst.address_mode.kind # "Immediate" => {"N", "V"} \subseteq MayChange
        /\ m \in {"Tsb", "Trb"} => "Z" \in MayChange
        /\ m \in {"Plp", "Rti"} => Flags \ {"B", "U"} \subseteq MayChange
        /\ m \in {"Clc", "Sec"} => "C" \in MayChange
        /\ m \in {"Cld", "Sed"} => "D" \in MayChange
        /\ m \in {"Cli", "Sei"} => "I" \in MayChange
        /\ m = "Clv" => "V" \in MayChange
        /\ m = "Brk" => "I" \in MayChange /\ (F.Micro = "Micro65C02" => "D" \in MayChange)
        /\ m \in {"Txs", "Tas"} => "s" \in MayChange
<1> DEFINE m == current_inst.mnemonic
           implied == current_inst.address_mode.kind = "Implied"
<1> USE DEF MayChange, mnemonic, mode, ToA, ToX, ToY, Shifts, Flag
<1>1. ASSUME m \in {"Lda", "Pla", "And", "Eor", "Ora", "Txa", "Tya", "Anc", "Ane"}
      PROVE  {"a", "N", "Z"} \subseteq MayChange
  BY <1>1, ZenonT(40)
<1>2. ASSUME m = "Anc"
      PROVE  "C" \in MayChange
  BY <1>2
<1>3. ASSUME m \in {"Ldx", "Plx", "Tax", "Tsx", "Inx", "Dex"}
      PROVE  {"x", "N", "Z"} \subseteq MayChange
  BY <1>3
<1>4. ASSUME m \in {"Ldy", "Ply", "Tay", "Iny", "Dey"}
      PROVE  {"y", "N", "Z"} \subseteq MayChange
  BY <1>4
<1>5. ASSUME m \in {"Adc", "Sbc", "Usbc", "Arr", "Rra", "Isc"}
      PROVE  {"a", "N", "V", "Z", "C"} \subseteq MayChange
  BY <1>5
<1>6. ASSUME m \in {"Cmp", "Cpx", "Cpy", "Dcp"}
      PROVE  {"N", "Z", "C"} \subseteq MayChange
  BY <1>6
<1>7. ASSUME m \in {"Slo", "Rla", "Sre", "Alr"}
      PROVE  {"a", "N", "Z", "C"} \subseteq MayChange
  BY <1>7
<1>8. ASSUME m = "Sbx"
      PROVE  {"x", "N", "Z", "C"} \subseteq MayChange
  BY <1>8
<1>9. ASSUME m \in {"Lax", "Lxa"}
      PROVE  {"a", "x", "N", "Z"} \subseteq MayChange
  BY <1>9
<1>10. ASSUME m = "Las"
      PROVE  {"a", "x", "s", "N", "Z"} \subseteq MayChange
  BY <1>10
<1>11. ASSUME m \in {"Asl", "Lsr", "Rol", "Ror"}
      PROVE  {"N", "Z", "C"} \subseteq MayChange /\ (implied => "a" \in MayChange)
  BY <1>11
<1>12. ASSUME m \in {"Inc", "Dec"}
      PROVE  {"N", "Z"} \subseteq MayChange /\ (implied => "a" \in MayChange)
  BY <1>12
<1>13. ASSUME m = "Bit"
      PROVE  /\ "Z" \in MayChange
             /\ current_inst.address_mode.kind # "Immediate" => {"N", "V"} \subseteq MayChange
  BY <1>13
<1>14. ASSUME m \in {"Tsb", "Trb"}
      PROVE  "Z" \in MayChange
  BY <1>14
<1>15. ASSUME m \in {"Plp", "Rti"}
      PROVE  Flags \ {"B", "U"} \subseteq MayChange
  BY <1>15
<1>16. ASSUME m \in {"Clc", "Sec"}
      PROVE  "C" \in MayChange
  BY <1>16
<1>17. ASSUME m \in {"Cld", "Sed"}
      PROVE  "D" \in MayChange
  BY <1>17
<1>18. ASSUME m \in {"Cli", "Sei"}
      PROVE  "I" \in MayChange
  BY <1>18
<1>19. ASSUME m = "Clv"
      PROVE  "V" \in MayChange
  BY <1>19
<1>20. ASSUME m = "Brk"
      PROVE  "I" \in MayChange /\ (F.Micro = "Micro65C02" => "D" \in MayChange)
  BY <1>20
<1>21. ASSUME m \in {"Txs", "Tas"}
      PROVE  "s" \in MayChange
  BY <1>21
<1> HIDE DEF MayChange
<1>22. QED
  BY <1>1, <1>2, <1>3, <1>4, <1>5, <1>6, <1>7, <1>8, <1>9, <1>10, <1>11,
     <1>12, <1>13, <1>14, <1>15, <1>16, <1>17, <1>18, <1>19, <1>20, <1>21

LEMMA BitsNotChanged == "B" \notin MayChange /\ "U" \notin MayChange
BY DEF MayChange, Flag

-----------------------------------------------------------------------------
(* What the effects do, they may do.                                       *)

\* The status register while a program runs: bit 5 set, B clear
StatusProper(flags) == "U" \in flags /\ "B" \notin flags

LEMMA PulledProper ==
    ASSUME NEW c \in Core, StatusProper(c.flags), NEW byte, NEW may, Flags \ {"B", "U"} \subseteq may
    PROVE  PulledFlags(byte) \ may = c.flags \ may
<1>1. c.flags \subseteq Flags /\ FlagsOf(byte) \subseteq Flags
  BY CoreTypes, StatusBytes
<1>2. QED
  BY <1>1 DEF PulledFlags, StatusProper, Flags

LEMMA ReadWithin ==
    ASSUME NEW c \in Core, StatusProper(c.flags)
    PROVE  Within(c, ReadEffect(F, current_inst, c), MayChange)
<1> DEFINE m == current_inst.mnemonic
           may == MayChange
           read == c.op0
           d == ReadEffect(F, current_inst, c)
           into(register, value) == Update(c, register, Zn(value))
<1>1. /\ c.a \in Byte /\ c.x \in Byte /\ c.y \in Byte /\ c.s \in Byte /\ read \in Byte
      /\ c.flags \in SUBSET Flags
  BY CoreTypes
<1>2. /\ And(c.a, read) \in Byte /\ Xor(c.a, read) \in Byte /\ Or(c.a, read) \in Byte
      /\ And(c.a, c.x) \in Byte /\ And(read, c.s) \in Byte
      /\ And(And(Or(c.a, Magic), c.x), read) \in Byte /\ And(Or(c.a, Magic), read) \in Byte
  <2>1. Magic \in Byte
    BY DEF Magic, Byte
  <2>2. Or(c.a, Magic) \in Byte
    BY <1>1, <2>1, LogicBytes
  <2>3. And(Or(c.a, Magic), c.x) \in Byte
    BY <1>1, <2>2, LogicBytes
  <2>4. QED
    BY <1>1, <2>2, <2>3, LogicBytes
<1>3. ASSUME NEW register \in {"a", "x", "y"}, NEW value \in Byte,
             register \in may, "Z" \in may, "N" \in may
      PROVE  Within(c, into(register, value), may) /\ Keeps(c, into(register, value))
  <2>1. ByteResult(Zn(value)) /\ Zn(value).flag_mask \subseteq may
    BY <1>3, ZnResult, Masks
  <2>2. QED
    BY <1>3, <2>1, UpdateWithin, UpdateKeeps
<1>4. ASSUME NEW value \in Byte, {"a", "x", "N", "Z"} \subseteq may
      PROVE  LET both == [into("a", value) EXCEPT !.x = value]
             IN  /\ Within(c, both, may)
                 /\ "s" \in may => Within(c, [both EXCEPT !.s = value], may)
  <2> DEFINE e == into("a", value)
             both == [e EXCEPT !.x = value]
  <2>1. Keeps(c, e) /\ Within(c, e, may)
    BY <1>3, <1>4
  <2> HIDE DEF e
  <2>2. Keeps(e, both) /\ Within(e, both, may)
    BY <1>4, <2>1, SetByte, ByteWithin DEF Keeps
  <2>3. Within(c, both, may)
    BY <2>1, <2>2, WithinOn
  <2> HIDE DEF both
  <2>4. "s" \in may => Within(both, [both EXCEPT !.s = value], may)
    BY <2>2, ByteWithin DEF Keeps
  <2>5. "s" \in may => Within(c, [both EXCEPT !.s = value], may)
    BY <2>3, <2>4, WithinOn
  <2>6. QED
    BY <2>3, <2>5 DEF both, e
<1> HIDE DEF into, may
<1>5. CASE m \in {"Lda", "Pla", "And", "Eor", "Ora", "Ane"}
  <2>1. {"a", "N", "Z"} \subseteq may
    BY <1>5, Manual DEF may
  <2>2. d \in {into("a", read), into("a", And(c.a, read)), into("a", Xor(c.a, read)),
               into("a", Or(c.a, read)), into("a", And(And(Or(c.a, Magic), c.x), read))}
    BY <1>5 DEF ReadEffect, into
  <2> HIDE DEF d
  <2>3. QED
    BY <1>1, <1>2, <1>3, <2>1, <2>2 DEF d, may
<1>6. CASE m \in {"Ldx", "Plx"}
  <2>1. {"x", "N", "Z"} \subseteq may
    BY <1>6, Manual DEF may
  <2>2. d = into("x", read)
    BY <1>6 DEF ReadEffect, into
  <2> HIDE DEF d
  <2>3. QED
    BY <1>1, <1>3, <2>1, <2>2 DEF d, may
<1>7. CASE m \in {"Ldy", "Ply"}
  <2>1. {"y", "N", "Z"} \subseteq may
    BY <1>7, Manual DEF may
  <2>2. d = into("y", read)
    BY <1>7 DEF ReadEffect, into
  <2> HIDE DEF d
  <2>3. QED
    BY <1>1, <1>3, <2>1, <2>2 DEF d, may
<1>8. CASE m \in {"Adc", "Sbc", "Usbc"}
  <2> DEFINE sum == Adc(c.a, read, c.flags, F.DECIMAL)
             difference == Sbc(c.a, read, c.flags, F.DECIMAL)
  <2>1. {"a", "N", "V", "Z", "C"} \subseteq may
    BY <1>8, Manual DEF may
  <2>2. /\ ByteResult(sum) /\ ByteResult(difference)
        /\ sum.flag_mask \subseteq may /\ difference.flag_mask \subseteq may
    BY <1>1, <2>1, AdcResult, SbcResult, SumMasks DEF Arithmetic
  <2>3. d \in {Update(c, "a", sum), Update(c, "a", difference)}
    BY <1>8 DEF ReadEffect
  <2> HIDE DEF sum, difference, d
  <2>4. QED
    BY <2>1, <2>2, <2>3, UpdateWithin DEF d, may
<1>9. CASE m = "Alr"
  <2> DEFINE result == Lsr(And(c.a, read))
  <2>1. {"a", "N", "Z", "C"} \subseteq may
    BY <1>9, Manual DEF may
  <2>2. ByteResult(result) /\ result.flag_mask \subseteq may
    <3>1. TRUE \in BOOLEAN
      OBVIOUS
    <3>2. QED
      BY <1>2, <2>1, <3>1, ShiftResults, Masks
  <2>3. d = Update(c, "a", result)
    BY <1>9 DEF ReadEffect
  <2> HIDE DEF result, d
  <2>4. QED
    BY <2>1, <2>2, <2>3, UpdateWithin DEF d, may
<1>10. CASE m \in {"Cmp", "Cpx", "Cpy"}
  <2>1. {"N", "Z", "C"} \subseteq may
    BY <1>10, Manual DEF may
  <2>2. d \in {Compare(c, c.a, read), Compare(c, c.x, read), Compare(c, c.y, read)}
    BY <1>10 DEF ReadEffect
  <2> HIDE DEF d
  <2>3. QED
    BY <1>1, <2>1, <2>2, CompareWithin DEF d, may
<1>11. CASE m = "Bit"
  <2> DEFINE immediate == current_inst.address_mode.kind = "Immediate"
  <2>1. "Z" \in may /\ (~immediate => "N" \in may /\ "V" \in may)
    BY <1>11, Manual DEF may
  <2>2. d = BitTest(c, immediate)
    BY <1>11 DEF ReadEffect
  <2> HIDE DEF d, immediate
  <2>3. QED
    BY <2>1, <2>2, BitTestWithin DEF d, may
<1>12. CASE m = "Anc"
  <2> DEFINE anded == into("a", And(c.a, read))
  <2>1. {"a", "N", "Z", "C"} \subseteq may
    BY <1>12, Manual DEF may
  <2>2. d = SetFlag(anded, "C", anded.a >= 128)
    BY <1>12 DEF ReadEffect, into
  <2>3. Keeps(c, anded) /\ Within(c, anded, may)
    BY <1>2, <1>3, <2>1
  <2> HIDE DEF anded, d
  <2>4. Within(anded, SetFlag(anded, "C", anded.a >= 128), may)
    BY <2>1, <2>3, SetFlagWithin DEF Keeps
  <2>5. QED
    BY <2>2, <2>3, <2>4, WithinOn DEF d, may
<1>13. CASE m = "Arr"
  <2>1. {"a", "N", "V", "Z", "C"} \subseteq may
    BY <1>13, Manual DEF may
  <2>2. d = Arr(F, c)
    BY <1>13 DEF ReadEffect
  <2> HIDE DEF d
  <2>3. QED
    BY <2>1, <2>2, ArrWithin DEF d, may
<1>14. CASE m \in {"Lxa", "Lax", "Las"}
  <2> DEFINE both(value) == [into("a", value) EXCEPT !.x = value]
  <2>1. {"a", "x", "N", "Z"} \subseteq may /\ (m = "Las" => "s" \in may)
    BY <1>14, Manual DEF may
  <2>2. \/ d \in {both(And(Or(c.a, Magic), read)), both(read)}
        \/ m = "Las" /\ d = [both(And(read, c.s)) EXCEPT !.s = And(read, c.s)]
    BY <1>14 DEF ReadEffect, into
  <2>3. /\ Within(c, both(And(Or(c.a, Magic), read)), may) /\ Within(c, both(read), may)
        /\ m = "Las" => Within(c, [both(And(read, c.s)) EXCEPT !.s = And(read, c.s)], may)
    BY <1>1, <1>2, <1>4, <2>1
  <2> HIDE DEF both, d
  <2>4. QED
    BY <2>2, <2>3 DEF d, may
<1>15. CASE m = "Sbx"
  <2> DEFINE compared == Compare(c, And(c.a, c.x), read)
             x == (And(c.a, c.x) - read) % 256
  <2>1. {"x", "N", "Z", "C"} \subseteq may
    BY <1>15, Manual DEF may
  <2>2. d = [compared EXCEPT !.x = x]
    BY <1>15 DEF ReadEffect
  <2>3. Keeps(c, compared) /\ Within(c, compared, may)
    BY <1>1, <1>2, <2>1, CompareKeeps, CompareWithin
  <2> HIDE DEF compared, x, d
  <2>4. Within(compared, [compared EXCEPT !.x = x], may)
    BY <2>1, <2>3, ByteWithin DEF Keeps
  <2>5. QED
    BY <2>2, <2>3, <2>4, WithinOn DEF d, may
<1>16. CASE m = "Plp"
  <2> DEFINE flags == PulledFlags(read)
  <2>1. Flags \ {"B", "U"} \subseteq may
    BY <1>16, Manual DEF may
  <2>2. d = [c EXCEPT !.flags = flags]
    BY <1>16 DEF ReadEffect
  <2>3. flags \ may = c.flags \ may
    BY <2>1, PulledProper
  <2> HIDE DEF flags, d
  <2>4. QED
    BY <2>2, <2>3, FlagsWithin DEF d, may
<1>17. CASE m = "Brk"
  <2> DEFINE flags == c.flags \ {"D"}
  <2>1. F.DECIMAL = "Cmos65C02" => "D" \in may
    BY <1>17, Manual, DecimalAssumption DEF may
  <2>2. d = IF F.DECIMAL = "Cmos65C02" THEN [c EXCEPT !.flags = flags] ELSE c
    BY <1>17 DEF ReadEffect, Break
  <2>3. F.DECIMAL = "Cmos65C02" => flags \ may = c.flags \ may
    BY <2>1
  <2> HIDE DEF flags, d
  <2>4. QED
    BY <2>2, <2>3, FlagsWithin, WithinItself DEF d, may
<1>18. CASE m \notin {"Lda", "Pla", "Ldx", "Plx", "Ldy", "Ply", "And", "Eor", "Ora", "Ane",
                      "Adc", "Sbc", "Usbc", "Alr", "Cmp", "Cpx", "Cpy", "Bit", "Anc", "Arr",
                      "Lxa", "Lax", "Las", "Sbx", "Plp", "Brk"}
  <2>1. d = c
    BY <1>18 DEF ReadEffect
  <2>2. QED
    BY <2>1, WithinItself
<1>19. QED
  BY <1>5, <1>6, <1>7, <1>8, <1>9, <1>10, <1>11, <1>12, <1>13, <1>14, <1>15, <1>16, <1>17,
     <1>18

LEMMA ImpliedWithin ==
    ASSUME NEW c \in Core, current_inst.address_mode.kind = "Implied"
    PROVE  Within(c, ImpliedEffect(current_inst.mnemonic, c), MayChange)
<1> DEFINE m == current_inst.mnemonic
           may == MayChange
           d == ImpliedEffect(m, c)
           into(register, value) == Update(c, register, Zn(value % 256))
<1>1. c.a \in Byte /\ c.x \in Byte /\ c.y \in Byte /\ c.s \in Byte /\ CarryIn(c) \in BOOLEAN
  BY CoreTypes DEF CarryIn
<1>2. ASSUME NEW register \in {"a", "x", "y"}, NEW value, value % 256 \in Byte,
             register \in may, "Z" \in may, "N" \in may
      PROVE  Within(c, into(register, value), may)
  <2>1. ByteResult(Zn(value % 256)) /\ Zn(value % 256).flag_mask \subseteq may
    BY <1>2, ZnResult, Masks
  <2>2. QED
    BY <1>2, <2>1, UpdateWithin
<1> HIDE DEF into
<1>3. ASSUME NEW register \in {"a", "x", "y"}, NEW byte \in Byte,
             register \in may, "Z" \in may, "N" \in may
      PROVE  /\ Within(c, into(register, byte), may)
             /\ Within(c, into(register, byte + 1), may)
             /\ Within(c, into(register, byte - 1), may)
  <2>1. byte % 256 \in Byte /\ (byte + 1) % 256 \in Byte /\ (byte - 1) % 256 \in Byte
    BY ByteSteps
  <2>2. QED
    BY <1>2, <1>3, <2>1
<1> HIDE DEF may
<1>4. CASE m \in {"Asl", "Lsr", "Rol", "Ror"}
  <2> DEFINE result == ShiftOf(m, c.a, CarryIn(c))
  <2>1. {"a", "N", "Z", "C"} \subseteq may
    BY <1>4, Manual DEF may
  <2>2. ByteResult(result) /\ result.flag_mask \subseteq may
    BY <1>1, <1>4, <2>1, ShiftResults, ShiftMasks
  <2>3. d = Update(c, "a", result)
    BY ZenonT(40), <1>4 DEF ImpliedEffect
  <2> HIDE DEF result, d
  <2>4. QED
    BY <2>1, <2>2, <2>3, UpdateWithin DEF d, may
<1>5. CASE m \in {"Clc", "Sec", "Clv", "Cld", "Sed", "Cli", "Sei"}
  <2> DEFINE flag == IF m \in {"Clc", "Sec"} THEN "C" ELSE IF m = "Clv" THEN "V"
                     ELSE IF m \in {"Cld", "Sed"} THEN "D" ELSE "I"
  <2>1. flag \in may
    BY <1>5, Manual DEF may
  <2>2. d = SetFlag(c, flag, FALSE) \/ d = SetFlag(c, flag, TRUE)
    <3>1. CASE m = "Clc"
      <4>1. d = SetFlag(c, "C", FALSE) /\ flag = "C"
        BY <3>1 DEF ImpliedEffect
      <4>2. QED
        BY <4>1
    <3>2. CASE m = "Sec"
      <4>1. d = SetFlag(c, "C", TRUE) /\ flag = "C"
        BY <3>2 DEF ImpliedEffect
      <4>2. QED
        BY <4>1
    <3>3. CASE m = "Clv"
      <4>1. d = SetFlag(c, "V", FALSE) /\ flag = "V"
        BY <3>3 DEF ImpliedEffect
      <4>2. QED
        BY <4>1
    <3>4. CASE m = "Cld"
      <4>1. d = SetFlag(c, "D", FALSE) /\ flag = "D"
        BY <3>4 DEF ImpliedEffect
      <4>2. QED
        BY <4>1
    <3>5. CASE m = "Sed"
      <4>1. d = SetFlag(c, "D", TRUE) /\ flag = "D"
        BY <3>5 DEF ImpliedEffect
      <4>2. QED
        BY <4>1
    <3>6. CASE m = "Cli"
      <4>1. d = SetFlag(c, "I", FALSE) /\ flag = "I"
        BY <3>6 DEF ImpliedEffect
      <4>2. QED
        BY <4>1
    <3>7. CASE m = "Sei"
      <4>1. d = SetFlag(c, "I", TRUE) /\ flag = "I"
        BY <3>7 DEF ImpliedEffect
      <4>2. QED
        BY <4>1
    <3>8. QED
      BY <1>5, <3>1, <3>2, <3>3, <3>4, <3>5, <3>6, <3>7
  <2> HIDE DEF flag, d
  <2>3. QED
    BY <2>1, <2>2, SetFlagWithin DEF d, may
<1>6. CASE m \in {"Dec", "Inc", "Txa", "Tya"}
  <2>1. {"a", "N", "Z"} \subseteq may
    BY <1>6, Manual DEF may
  <2>2. d \in {into("a", c.a - 1), into("a", c.a + 1), into("a", c.x),
               into("a", c.y)}
    <3>1. CASE m = "Dec"
      <4>1. d = into("a", c.a - 1)
        BY <3>1 DEF ImpliedEffect, into
      <4>2. QED
        BY <4>1
    <3>2. CASE m = "Inc"
      <4>1. d = into("a", c.a + 1)
        BY <3>2 DEF ImpliedEffect, into
      <4>2. QED
        BY <4>1
    <3>3. CASE m = "Txa"
      <4>1. d = into("a", c.x)
        BY <3>3 DEF ImpliedEffect, into
      <4>2. QED
        BY <4>1
    <3>4. CASE m = "Tya"
      <4>1. d = into("a", c.y)
        BY <3>4 DEF ImpliedEffect, into
      <4>2. QED
        BY <4>1
    <3>5. QED
      BY <1>6, <3>1, <3>2, <3>3, <3>4
  <2> HIDE DEF d
  <2>3. QED
    BY <1>1, <1>3, <2>1, <2>2 DEF d, may
<1>7. CASE m \in {"Dex", "Inx", "Tax", "Tsx"}
  <2>1. {"x", "N", "Z"} \subseteq may
    BY <1>7, Manual DEF may
  <2>2. d \in {into("x", c.x - 1), into("x", c.x + 1), into("x", c.a),
               into("x", c.s)}
    <3>1. CASE m = "Dex"
      <4>1. d = into("x", c.x - 1)
        BY <3>1 DEF ImpliedEffect, into
      <4>2. QED
        BY <4>1
    <3>2. CASE m = "Inx"
      <4>1. d = into("x", c.x + 1)
        BY <3>2 DEF ImpliedEffect, into
      <4>2. QED
        BY <4>1
    <3>3. CASE m = "Tax"
      <4>1. d = into("x", c.a)
        BY <3>3 DEF ImpliedEffect, into
      <4>2. QED
        BY <4>1
    <3>4. CASE m = "Tsx"
      <4>1. d = into("x", c.s)
        BY <3>4 DEF ImpliedEffect, into
      <4>2. QED
        BY <4>1
    <3>5. QED
      BY <1>7, <3>1, <3>2, <3>3, <3>4
  <2> HIDE DEF d
  <2>3. QED
    BY <1>1, <1>3, <2>1, <2>2 DEF d, may
<1>8. CASE m \in {"Dey", "Iny", "Tay"}
  <2>1. {"y", "N", "Z"} \subseteq may
    BY <1>8, Manual DEF may
  <2>2. d \in {into("y", c.y - 1), into("y", c.y + 1), into("y", c.a)}
    <3>1. CASE m = "Dey"
      <4>1. d = into("y", c.y - 1)
        BY <3>1 DEF ImpliedEffect, into
      <4>2. QED
        BY <4>1
    <3>2. CASE m = "Iny"
      <4>1. d = into("y", c.y + 1)
        BY <3>2 DEF ImpliedEffect, into
      <4>2. QED
        BY <4>1
    <3>3. CASE m = "Tay"
      <4>1. d = into("y", c.a)
        BY <3>3 DEF ImpliedEffect, into
      <4>2. QED
        BY <4>1
    <3>4. QED
      BY <1>8, <3>1, <3>2, <3>3
  <2> HIDE DEF d
  <2>3. QED
    BY <1>1, <1>3, <2>1, <2>2 DEF d, may
<1>9. CASE m = "Txs"
  <2>1. "s" \in may
    BY <1>9, Manual DEF may
  <2>2. d = [c EXCEPT !.s = c.x]
    BY <1>9 DEF ImpliedEffect
  <2> HIDE DEF d
  <2>3. QED
    BY <2>1, <2>2, ByteWithin DEF d, may
<1>10. CASE m \notin {"Asl", "Lsr", "Rol", "Ror", "Clc", "Sec", "Clv", "Cld", "Sed", "Cli", "Sei",
                      "Dec", "Dex", "Dey", "Inc", "Inx", "Iny", "Tax", "Tay", "Tsx", "Txa",
                      "Tya", "Txs"}
  <2>1. d = c
    BY <1>10 DEF ImpliedEffect
  <2>2. QED
    BY <2>1, WithinItself
<1>11. QED
  BY <1>4, <1>5, <1>6, <1>7, <1>8, <1>9, <1>10

LEMMA ModifyWithin ==
    ASSUME NEW c \in Core, current_opcode \in 0..255
    PROVE  Within(c, ModifyEffect(F, current_inst.mnemonic, current_opcode, c), MayChange)
<1> DEFINE m == current_inst.mnemonic
           may == MayChange
           d == ModifyEffect(F, m, current_opcode, c)
           shifted(by) == Update(c, "op0", ShiftOf(by, c.op0, CarryIn(c)))
           changed(by) == [c EXCEPT !.op0 = (@ + by) % 256]
<1>1. c.a \in Byte /\ c.op0 \in Byte /\ CarryIn(c) \in BOOLEAN
  BY CoreTypes DEF CarryIn
<1> HIDE DEF may
<1>2. ASSUME NEW by \in {"Asl", "Lsr", "Rol", "Ror"}, {"N", "Z", "C"} \subseteq may
      PROVE  Keeps(c, shifted(by)) /\ Within(c, shifted(by), may)
  <2> DEFINE result == ShiftOf(by, c.op0, CarryIn(c))
  <2>1. ByteResult(result) /\ result.flag_mask \subseteq may
    BY <1>1, <1>2, ShiftResults, ShiftMasks
  <2> HIDE DEF result
  <2>2. QED
    BY <2>1, UpdateKeeps, UpdateWithin DEF result
<1> HIDE DEF shifted
<1>3. /\ Keeps(c, changed(-1)) /\ Within(c, changed(-1), may)
      /\ Keeps(c, changed(1)) /\ Within(c, changed(1), may)
  <2>1. c.op0 \in Int
    BY <1>1, ByteSteps
  <2>2. c.op0 + (-1) \in Int /\ c.op0 + 1 \in Int
    BY <2>1
  <2>3. (c.op0 + (-1)) % 256 \in Byte /\ (c.op0 + 1) % 256 \in Byte
    BY <2>2, WordSums
  <2>4. \A b \in Byte : Keeps(c, [c EXCEPT !.op0 = b]) /\ Within(c, [c EXCEPT !.op0 = b], may)
    BY SetByte, LatchesWithin
  <2> DEFINE less == (c.op0 + (-1)) % 256
             more == (c.op0 + 1) % 256
  <2>5. changed(-1) = [c EXCEPT !.op0 = less] /\ changed(1) = [c EXCEPT !.op0 = more]
    OBVIOUS
  <2> HIDE DEF less, more, changed
  <2>6. less \in Byte /\ more \in Byte
    BY <2>3 DEF less, more
  <2>7. QED
    BY <2>4, <2>5, <2>6
<1> HIDE DEF changed
<1>4. ASSUME NEW e, Keeps(c, e), Within(c, e, may), NEW value \in Byte,
             {"a", "N", "Z"} \subseteq may
      PROVE  Within(c, Update(e, "a", Zn(value)), may)
  <2>1. ByteResult(Zn(value)) /\ Zn(value).flag_mask \subseteq may
    BY <1>4, ZnResult, Masks
  <2>2. e \in Core
    BY <1>4 DEF Keeps
  <2>3. Within(e, Update(e, "a", Zn(value)), may)
    BY <1>4, <2>1, <2>2, UpdateWithin
  <2>4. QED
    BY <1>4, <2>3, WithinOn
<1>5. CASE m \in {"Asl", "Lsr", "Rol", "Ror"}
  <2>1. {"N", "Z", "C"} \subseteq may
    BY <1>5, Manual DEF may
  <2>2. d = shifted(m)
    BY <1>5 DEF ModifyEffect, shifted
  <2> HIDE DEF d
  <2>3. QED
    BY <1>2, <1>5, <2>1, <2>2 DEF d, may
<1>6. CASE m \in {"Inc", "Dec", "Tsb", "Trb"}
  <2> DEFINE results == {Inc(c.op0), Dec(c.op0), Tsb(c.a, c.op0), Trb(c.a, c.op0)}
  <2>1. "Z" \in may /\ (m \in {"Inc", "Dec"} => "N" \in may)
    BY <1>6, Manual DEF may
  <2>2. PICK result \in results : /\ d = Update(c, "op0", result)
                                  /\ m \in {"Tsb", "Trb"} => result.flag_mask = {"Z"}
    <3>1. \/ m = "Inc" /\ d = Update(c, "op0", Inc(c.op0))
          \/ m = "Dec" /\ d = Update(c, "op0", Dec(c.op0))
          \/ m = "Tsb" /\ d = Update(c, "op0", Tsb(c.a, c.op0))
          \/ m = "Trb" /\ d = Update(c, "op0", Trb(c.a, c.op0))
      BY <1>6 DEF ModifyEffect
    <3>2. QED
      BY <3>1, Masks
  <2>3. ByteResult(result) /\ result.flag_mask \subseteq {"Z", "N"}
    <3>1. Inc(c.op0).flag_mask = {"Z", "N"} /\ Dec(c.op0).flag_mask = {"Z", "N"}
      BY Masks
    <3>2. Tsb(c.a, c.op0).flag_mask = {"Z"} /\ Trb(c.a, c.op0).flag_mask = {"Z"}
      BY Masks
    <3>3. QED
      BY <1>1, <3>1, <3>2, CountResults, TestResults
  <2> HIDE DEF d, results
  <2>4. result.flag_mask \subseteq may
    BY <1>6, <2>1, <2>2, <2>3
  <2>5. QED
    BY <2>2, <2>3, <2>4, UpdateWithin DEF d, may
<1>7. CASE m \in {"Slo", "Rla", "Sre"}
  <2> DEFINE slo == shifted("Asl")
             rla == shifted("Rol")
             sre == shifted("Lsr")
  <2>1. {"a", "N", "Z", "C"} \subseteq may
    BY <1>7, Manual DEF may
  <2>2. d \in {Update(slo, "a", Zn(Or(slo.a, slo.op0))), Update(rla, "a", Zn(And(rla.a, rla.op0))),
               Update(sre, "a", Zn(Xor(sre.a, sre.op0)))}
    BY <1>7 DEF ModifyEffect, shifted
  <2>3. ASSUME NEW e, Keeps(c, e)
        PROVE  Or(e.a, e.op0) \in Byte /\ And(e.a, e.op0) \in Byte /\ Xor(e.a, e.op0) \in Byte
    <3>1. e.a \in Byte /\ e.op0 \in Byte
      BY <2>3, CoreTypes DEF Keeps
    <3>2. QED
      BY <3>1, LogicBytes
  <2>4. /\ Keeps(c, slo) /\ Keeps(c, rla) /\ Keeps(c, sre)
        /\ Within(c, slo, may) /\ Within(c, rla, may) /\ Within(c, sre, may)
    BY <1>2, <2>1
  <2> HIDE DEF slo, rla, sre, d
  <2>5. QED
    BY <1>4, <2>1, <2>2, <2>3, <2>4 DEF d, may
<1>8. CASE m = "Rra"
  <2> DEFINE result == Ror(c.op0, CarryIn(c))
             rotated == Update(c, "op0", result)
             sum == Adc(rotated.a, rotated.op0, rotated.flags, F.DECIMAL)
  <2>1. {"a", "N", "V", "Z", "C"} \subseteq may
    BY <1>8, Manual DEF may
  <2>2. d = Update(rotated, "a", sum)
    BY <1>8 DEF ModifyEffect, RotateThenAdd
  <2>3. ByteResult(result) /\ result.flag_mask \subseteq may
    BY <1>1, <2>1, ShiftResults, Masks
  <2> HIDE DEF result
  <2>4. Keeps(c, rotated) /\ Within(c, rotated, may)
    BY <2>3, UpdateKeeps, UpdateWithin
  <2> HIDE DEF rotated
  <2>5. rotated \in Core /\ rotated.a \in Byte /\ rotated.op0 \in Byte
    BY <2>4, CoreTypes DEF Keeps
  <2>6. ByteResult(sum) /\ sum.flag_mask \subseteq may
    BY <2>1, <2>5, AdcResult, SumMasks DEF Arithmetic
  <2> HIDE DEF sum, d
  <2>7. Within(rotated, Update(rotated, "a", sum), may)
    BY <2>1, <2>5, <2>6, UpdateWithin
  <2>8. QED
    BY <2>2, <2>4, <2>7, WithinOn DEF d, may
<1>9. CASE m = "Dcp"
  <2> DEFINE e == changed(-1)
  <2>1. {"N", "Z", "C"} \subseteq may
    BY <1>9, Manual DEF may
  <2>2. d = Compare(e, c.a, e.op0)
    BY <1>9 DEF ModifyEffect, changed
  <2>3. Keeps(c, e) /\ Within(c, e, may)
    BY <1>3
  <2> HIDE DEF e, d
  <2>4. e \in Core /\ e.op0 \in Byte
    BY <2>3, CoreTypes DEF Keeps
  <2>5. Within(e, Compare(e, c.a, e.op0), may)
    BY <1>1, <2>1, <2>4, CompareWithin
  <2>6. QED
    BY <2>2, <2>3, <2>5, WithinOn DEF d, may
<1>10. CASE m = "Isc"
  <2> DEFINE e == changed(1)
             difference == Sbc(c.a, e.op0, c.flags, F.DECIMAL)
  <2>1. {"a", "N", "V", "Z", "C"} \subseteq may
    BY <1>10, Manual DEF may
  <2>2. d = Update(e, "a", difference)
    BY <1>10 DEF ModifyEffect, changed
  <2>3. Keeps(c, e) /\ Within(c, e, may)
    BY <1>3
  <2> HIDE DEF e
  <2>4. e \in Core /\ e.op0 \in Byte
    BY <2>3, CoreTypes DEF Keeps
  <2>5. ByteResult(difference) /\ difference.flag_mask \subseteq may
    BY <1>1, <2>1, <2>4, SbcResult, SumMasks DEF Arithmetic
  <2> HIDE DEF difference, d
  <2>6. Within(e, Update(e, "a", difference), may)
    BY <2>1, <2>4, <2>5, UpdateWithin
  <2>7. QED
    BY <2>2, <2>3, <2>6, WithinOn DEF d, may
<1>11. CASE m \notin {"Asl", "Lsr", "Rol", "Ror", "Inc", "Dec", "Tsb", "Trb", "Slo", "Rla",
                      "Sre", "Rra", "Dcp", "Isc"}
  <2> DEFINE value == ModifyBit(c.op0, current_opcode)
  <2>1. d = [c EXCEPT !.op0 = value]
    BY <1>11 DEF ModifyEffect
  <2> HIDE DEF d, value
  <2>2. Within(c, [c EXCEPT !.op0 = value], may)
    BY LatchesWithin
  <2>3. QED
    BY <2>1, <2>2 DEF d, may
<1>12. QED
  BY <1>5, <1>6, <1>7, <1>8, <1>9, <1>10, <1>11

LEMMA StoreWithin ==
    ASSUME NEW c \in Core
    PROVE  Within(c, PrepareStore(current_inst, c), MayChange)
<1> DEFINE m == current_inst.mnemonic
           d == PrepareStore(current_inst, c)
           store(value) == [c EXCEPT !.data = value]
           pulled == [c EXCEPT !.s = And(c.a, c.x)]
<1>1. ASSUME NEW e \in Core, NEW a, NEW offset, NEW op_reg
      PROVE  Within(e, HPlusOneNonsense(e, a, offset, op_reg), MayChange)
  BY DEF HPlusOneNonsense, Core, Within
<1>2. \A value : Within(c, store(value), MayChange)
  BY LatchesWithin
<1>3. Within(c, c, MayChange)
  BY WithinItself
<1> HIDE DEF store
<1> DEFINE sha == HPlusOneNonsense(c, c.a, c.y, c.x)
           tas == HPlusOneNonsense(pulled, c.a, c.y, c.x)
           shy == HPlusOneNonsense(c, 255, c.x, c.y)
           shx == HPlusOneNonsense(c, 255, c.y, c.x)
<1>4. d \in {store(c.op0), store(c.a), store(c.x), store(c.y), store(0),
             store(StatusByte(c.flags \cup {"B"})), store(And(c.a, c.x)), sha, shy, shx, c}
      \/ (m = "Tas" /\ d = tas)
  BY DEF PrepareStore, store
<1>5. pulled \in Core /\ (m = "Tas" => Within(c, pulled, MayChange))
  <2>1. And(c.a, c.x) \in Byte
    BY CoreTypes, LogicBytes
  <2>2. pulled \in Core
    BY <2>1, SetByte DEF Keeps
  <2>3. m = "Tas" => "s" \in MayChange
    BY Manual
  <2>4. QED
    BY <2>2, <2>3, ByteWithin
<1> HIDE DEF d, pulled
<1>6. Within(c, sha, MayChange) /\ Within(c, shy, MayChange) /\ Within(c, shx, MayChange)
  BY <1>1
<1>7. m = "Tas" => Within(c, tas, MayChange)
  <2>1. Within(pulled, tas, MayChange)
    BY <1>1, <1>5
  <2> HIDE DEF tas
  <2>2. QED
    BY <1>5, <2>1, WithinOn
<1> HIDE DEF sha, tas, shy, shx
<1>8. QED
  BY <1>2, <1>3, <1>4, <1>6, <1>7 DEF d

\* The latches, and the stack pointer where it is one
LEMMA WriteWithin ==
    ASSUME NEW c \in Core, NEW byte, NEW may,
           NEW latch \in {"None", "EaLo", "EaHi", "Op0", "PtrLo", "PtrHi", "PcLo", "PcHi",
                          "Status", "SignedOffset8"},
           latch = "Status" => StatusProper(c.flags) /\ Flags \ {"B", "U"} \subseteq may
    PROVE  Within(c, WriteLatch(c, latch, byte), may)
<1> DEFINE d == WriteLatch(c, latch, byte)
<1>1. CASE latch = "None"
  <2>1. d = c
    BY <1>1 DEF WriteLatch
  <2>2. QED
    BY <2>1, WithinItself
<1>2. CASE latch \in {"EaLo", "EaHi"}
  <2> DEFINE n == IF latch = "EaLo" THEN WithLow(c.ea, byte) ELSE WithHigh(c.ea, byte)
  <2>1. d = [c EXCEPT !.ea = n]
    BY <1>2 DEF WriteLatch
  <2> HIDE DEF d, n
  <2>2. Within(c, [c EXCEPT !.ea = n], may)
    BY LatchesWithin
  <2>3. QED
    BY <2>1, <2>2 DEF d
<1>3. CASE latch \in {"PtrLo", "PtrHi"}
  <2> DEFINE n == IF latch = "PtrLo" THEN WithLow(c.ptr, byte) ELSE WithHigh(c.ptr, byte)
  <2>1. d = [c EXCEPT !.ptr = n]
    BY <1>3 DEF WriteLatch
  <2> HIDE DEF d, n
  <2>2. Within(c, [c EXCEPT !.ptr = n], may)
    BY LatchesWithin
  <2>3. QED
    BY <2>1, <2>2 DEF d
<1>4. CASE latch \in {"PcLo", "PcHi"}
  <2> DEFINE n == IF latch = "PcLo" THEN WithLow(c.pc, byte) ELSE WithHigh(c.pc, byte)
  <2>1. d = [c EXCEPT !.pc = n]
    BY <1>4 DEF WriteLatch
  <2> HIDE DEF d, n
  <2>2. Within(c, [c EXCEPT !.pc = n], may)
    BY LatchesWithin
  <2>3. QED
    BY <2>1, <2>2 DEF d
<1>5. CASE latch = "Op0"
  <2>1. d = [c EXCEPT !.op0 = byte]
    BY <1>5 DEF WriteLatch
  <2> HIDE DEF d
  <2>2. Within(c, [c EXCEPT !.op0 = byte], may)
    BY LatchesWithin
  <2>3. QED
    BY <2>1, <2>2 DEF d
<1>6. CASE latch = "SignedOffset8"
  <2> DEFINE n == Signed(byte)
  <2> HIDE DEF n
  <2>1. d = [c EXCEPT !.signed_offset8 = n]
    BY <1>6 DEF WriteLatch, n
  <2> HIDE DEF d
  <2>2. Within(c, [c EXCEPT !.signed_offset8 = n], may)
    BY LatchesWithin
  <2>3. QED
    BY <2>1, <2>2 DEF d
<1>7. CASE latch = "Status"
  <2> DEFINE flags == PulledFlags(byte)
  <2>1. d = [c EXCEPT !.flags = flags]
    BY <1>7 DEF WriteLatch
  <2>2. flags \ may = c.flags \ may
    BY <1>7, PulledProper
  <2> HIDE DEF d, flags
  <2>3. Within(c, [c EXCEPT !.flags = flags], may)
    BY <2>2, FlagsWithin
  <2>4. QED
    BY <2>1, <2>3 DEF d
<1>8. QED
  BY <1>1, <1>2, <1>3, <1>4, <1>5, <1>6, <1>7

LEMMA AddWithin ==
    ASSUME NEW c \in Core, NEW offset, NEW may, NEW latch \in {"Pc", "Sp", "Ea", "EaLo", "PtrLo"}
    PROVE  LET d == AddToLatch(c, latch, offset)
           IN  /\ latch # "Sp" \/ "s" \in may => Within(c, d, may)
               /\ latch = "Sp" => d.s = (c.s + offset) % 256
<1> DEFINE d == AddToLatch(c, latch, offset)
<1>1. CASE latch = "Sp"
  <2> DEFINE n == (c.s + offset) % 256
  <2>1. d = [c EXCEPT !.s = n]
    BY <1>1 DEF AddToLatch
  <2> HIDE DEF d, n
  <2>2. d.s = n
    BY <2>1 DEF Core
  <2>3. "s" \in may => Within(c, [c EXCEPT !.s = n], may)
    BY ByteWithin
  <2>4. QED
    BY <1>1, <2>1, <2>2, <2>3 DEF d, n
<1>2. CASE latch = "Pc"
  <2> DEFINE n == (c.pc + offset) % 65536
  <2>1. d = [c EXCEPT !.pc = n]
    BY <1>2 DEF AddToLatch
  <2> HIDE DEF d, n
  <2>2. Within(c, [c EXCEPT !.pc = n], may)
    BY LatchesWithin
  <2>3. QED
    BY <1>2, <2>1, <2>2 DEF d
<1>3. CASE latch \in {"Ea", "EaLo"}
  <2> DEFINE n == IF latch = "Ea" THEN c.ea + offset
                  ELSE WithLow(c.ea, (Low(c.ea) + offset) % 256)
  <2>1. d = [c EXCEPT !.ea = n]
    BY <1>3 DEF AddToLatch
  <2> HIDE DEF d, n
  <2>2. Within(c, [c EXCEPT !.ea = n], may)
    BY LatchesWithin
  <2>3. QED
    BY <1>3, <2>1, <2>2 DEF d
<1>4. CASE latch = "PtrLo"
  <2> DEFINE n == WithLow(c.ptr, (Low(c.ptr) + offset) % 256)
  <2>1. d = [c EXCEPT !.ptr = n]
    BY <1>4 DEF AddToLatch
  <2> HIDE DEF d, n
  <2>2. Within(c, [c EXCEPT !.ptr = n], may)
    BY LatchesWithin
  <2>3. QED
    BY <1>4, <2>1, <2>2 DEF d
<1>5. QED
  BY <1>1, <1>2, <1>3, <1>4

-----------------------------------------------------------------------------
(* One micro-op.                                                           *)

\* The change of the stack pointer by an increment of the address on the bus
Pops(op) == op.inc_src /\ op.bus.addr = "Sp"

LEMMA AccessWithin ==
    ASSUME NEW c \in Core, StatusProper(c.flags),
           NEW op \in Builds \cup Increments \cup Others, Fitting(op, c.ea), NEW byte \in Byte,
           op.bus.read /\ op.local_latch = "Status" => Flags \ {"B", "U"} \subseteq MayChange
    PROVE  LET done == AfterAccess(BeforeAccess(c, op), op, byte)
           IN  /\ ~Pops(op) \/ "s" \in MayChange => Within(c, done, MayChange)
               /\ Within(c, done, MayChange \cup {"s"})
               /\ Pops(op) /\ "s" \notin MayChange => done.s = (c.s + 1) % 256
<1> DEFINE may == MayChange
           more == may \cup {"s"}
           ready == BeforeAccess(c, op)
           read == [ready EXCEPT !.data = byte]
           moved == IF op.bus.read THEN WriteLatch(read, op.local_latch, byte)
                    ELSE [ready EXCEPT !.data = ReadLatch(ready, op.local_latch)]
           done == AfterAccess(ready, op, byte)
<1>0. op \in MicroOp /\ op.bus.read \in BOOLEAN /\ op.inc_src \in BOOLEAN
  BY DEF Builds, Increments, Others, MicroOp, BusCycleType
<1>1. Within(c, ready, may) /\ ready \in Core /\ (op.bus.read => ready = c)
  <2>1. op.alu.op # "OffsetWithExtraCycle"
    BY DEF Builds, Increments, Others
  <2>2. ready = IF op.bus.read THEN c ELSE PrepareStore(current_inst, c)
    BY <2>1 DEF BeforeAccess
  <2> HIDE DEF ready
  <2>3. CASE op.bus.read
    BY <2>2, <2>3, WithinItself
  <2>4. CASE ~op.bus.read
    BY <2>2, <2>4, StoreKeeps, StoreWithin DEF Moves
  <2>5. QED
    BY <2>3, <2>4
<1>2. done = IF op.inc_src THEN AddToLatch(moved, op.bus.addr, 1) ELSE moved
  BY DEF AfterAccess
<1> HIDE DEF ready, done, may
<1>3. Within(c, moved, may) /\ moved \in Core
  <2>1. CASE op.bus.read
    <3> DEFINE latch == op.local_latch
    <3>1. /\ latch \in {"None", "EaLo", "EaHi", "Op0", "PtrLo", "PtrHi", "PcLo", "PcHi",
                        "Status", "SignedOffset8"}
          /\ latch \in {"EaLo", "EaHi"} => op \in Builds
      BY <2>1, ClassesApart DEF Builds, Increments, Others
    <3>2. op \in Builds => c.ea \in Address
      BY DEF Fitting
    <3>3. Moves(ready, read) /\ read.ea = ready.ea /\ Within(ready, read, may)
      BY <1>1, SetLatches, LatchesWithin
    <3>4. moved = WriteLatch(read, latch, byte)
      BY <2>1
    <3> HIDE DEF read, moved
    <3>5. read \in Core /\ read.ea = c.ea /\ read.flags = c.flags
      BY <1>1, <2>1, <3>3 DEF Moves
    <3>6. latch \in {"EaLo", "EaHi"} => read.ea \in Address
      BY <3>1, <3>2, <3>5
    <3>7. latch = "Status" => StatusProper(read.flags) /\ Flags \ {"B", "U"} \subseteq may
      BY <2>1, <3>5 DEF may
    <3> HIDE DEF latch
    <3>8. moved \in Core
      BY <3>1, <3>4, <3>5, <3>6, LatchWritten
    <3>9. Within(read, moved, may)
      BY <3>1, <3>4, <3>5, <3>7, WriteWithin
    <3>10. QED
      BY <1>1, <3>3, <3>8, <3>9, WithinOn
  <2>2. CASE ~op.bus.read
    <3>1. op \in Others
      BY <2>2 DEF Builds, Increments
    <3>2. op.local_latch \in {"None", "PcLo", "PcHi", "Status", "BrkStatus"}
      BY <2>2, <3>1 DEF Others
    <3> DEFINE b == ReadLatch(ready, op.local_latch)
    <3>3. b \in Byte
      <4>1. ready.data \in Byte /\ Low(ready.pc) \in Byte /\ High(ready.pc) \in Byte
        BY <1>1, CoreTypes, WordTypes
      <4>2. ready.flags \in SUBSET Flags /\ ready.flags \cup {"B", "U"} \in SUBSET Flags
        BY <1>1, CoreTypes DEF Flags
      <4>3. StatusByte(ready.flags) \in Byte /\ StatusByte(ready.flags \cup {"B", "U"}) \in Byte
        BY <4>2, StatusBytes
      <4>4. QED
        BY <3>2, <4>1, <4>3 DEF ReadLatch
    <3>4. moved = [ready EXCEPT !.data = b]
      BY <2>2
    <3> HIDE DEF b, moved
    <3>5. Moves(ready, moved) /\ Within(ready, moved, may)
      BY <1>1, <3>3, <3>4, SetLatches, LatchesWithin
    <3>6. QED
      BY <1>1, <3>5, WithinOn DEF Moves
  <2>3. QED
    BY <1>0, <2>1, <2>2
<1> HIDE DEF moved
<1>4. CASE ~op.inc_src
  <2>1. done = moved /\ ~Pops(op)
    BY <1>2, <1>4 DEF Pops
  <2>2. Within(c, moved, more)
    BY <1>3, WithinMore
  <2>3. QED
    BY <1>3, <2>1, <2>2 DEF ready, done, may
<1>5. CASE op.inc_src
  <2> DEFINE addr == op.bus.addr
  <2>1. addr \in {"Pc", "Sp", "Ea", "PtrLo"} /\ (Pops(op) <=> addr = "Sp")
    BY <1>5, ClassesApart DEF Builds, Increments, Others, Pops
  <2>2. done = AddToLatch(moved, addr, 1)
    BY <1>2, <1>5
  <2> HIDE DEF addr
  <2>3. addr # "Sp" \/ "s" \in may => Within(moved, done, may)
    BY <1>3, <2>1, <2>2, AddWithin
  <2>4. Within(moved, done, more) /\ (addr = "Sp" => done.s = (moved.s + 1) % 256)
    BY <1>3, <2>1, <2>2, AddWithin
  <2>5. "s" \notin may => moved.s = c.s
    BY <1>3 DEF Within
  <2>6. Within(c, moved, more)
    BY <1>3, WithinMore
  <2> HIDE DEF more
  <2>7. Within(c, done, more) /\ (addr # "Sp" \/ "s" \in may => Within(c, done, may))
    BY <1>3, <2>3, <2>4, <2>6, WithinOn
  <2>8. QED
    BY <2>1, <2>4, <2>5, <2>7 DEF ready, done, may, more
<1>6. QED
  BY <1>0, <1>4, <1>5

LEMMA AluWithin ==
    ASSUME NEW d \in Core, NEW op \in Builds \cup Increments \cup Others \cup Indexes,
           op.alu.op # "OffsetWithExtraCycle", current_opcode \in 0..255
    PROVE  LET e == AluEffect(d, op)
           IN  IF op.alu.op = "DecSp" THEN Within(d, e, {"s"}) /\ e.s = (d.s - 1) % 256
               ELSE Within(d, e, MayChange)
<1> DEFINE e == AluEffect(d, op)
           o == op.alu.op
           may == MayChange
<1> HIDE DEF may
<1>1. o \in {"None", "AddOffset", "DecSp", "Modify", "SwapEaPc", "IncLatch", "Branch", "SetPc",
             "Jam", "FixPtr", "SpecialAddOffset"}
  <2>1. op \in MicroOp
    BY DEF Builds, Increments, Others, Indexes
  <2>2. QED
    BY <2>1 DEF MicroOp, AluOpType
<1>2. o \in {"AddOffset", "IncLatch"} => op.alu.latch \in {"EaLo", "PtrLo"}
  BY DEF Builds, Increments, Others, Indexes
<1>3. CASE o \in {"None", "Jam"}
  <2>1. e = d
    BY <1>3 DEF AluEffect
  <2>2. QED
    BY <1>3, <2>1, WithinItself
<1>4. CASE o \in {"AddOffset", "IncLatch"}
  <2> DEFINE latch == op.alu.latch
             offset == IF o = "IncLatch" THEN 1 ELSE IndexRegister(d, op.alu.offset)
  <2>1. e = AddToLatch(d, latch, offset)
    BY <1>4 DEF AluEffect
  <2> HIDE DEF offset, e
  <2>2. latch \in {"EaLo", "PtrLo"}
    BY <1>2, <1>4
  <2> HIDE DEF latch
  <2>3. Within(d, e, may)
    BY <2>1, <2>2, AddWithin
  <2>4. QED
    BY <1>4, <2>3 DEF e, may
<1>5. CASE o = "DecSp"
  <2> DEFINE s == (d.s - 1) % 256
  <2>1. e = [d EXCEPT !.s = s]
    BY <1>5 DEF AluEffect
  <2> HIDE DEF s, e
  <2>2. Within(d, [d EXCEPT !.s = s], {"s"})
    BY ByteWithin
  <2>3. e.s = s
    BY <2>1 DEF Core
  <2>4. QED
    BY <1>5, <2>1, <2>2, <2>3 DEF e, s
<1>6. CASE o = "Modify"
  <2>1. e = ModifyEffect(F, current_inst.mnemonic, current_opcode, d)
    BY <1>6 DEF AluEffect
  <2>2. Within(d, ModifyEffect(F, current_inst.mnemonic, current_opcode, d), MayChange)
    BY ModifyWithin
  <2> HIDE DEF e
  <2>3. QED
    BY <1>6, <2>1, <2>2 DEF e
<1>7. CASE o = "SwapEaPc"
  <2> DEFINE n == d.ea % 65536
             pc == d.pc

  <2>1. e = [d EXCEPT !.pc = n, !.ea = pc]
    BY <1>7 DEF AluEffect
  <2> HIDE DEF n, e, pc
  <2>2. Within(d, e, may)
    BY <2>1 DEF Core, Within
  <2>3. QED
    BY <1>7, <2>2 DEF e, may
<1>8. CASE o = "Branch"
  <2> DEFINE targets == BranchTargets(d)
  <2>1. e = [d EXCEPT !.targets = targets] \/ e = d
    BY <1>8 DEF AluEffect
  <2> HIDE DEF targets, e
  <2>2. Within(d, [d EXCEPT !.targets = targets], may) /\ Within(d, d, may)
    BY LatchesWithin, WithinItself
  <2>3. QED
    BY <1>8, <2>1, <2>2 DEF e, may
<1>9. CASE o = "SetPc"
  <2> DEFINE n == Head(d.targets)
             rest == Tail(d.targets)
  <2>1. e = [d EXCEPT !.pc = n, !.targets = rest]
    BY <1>9 DEF AluEffect
  <2> HIDE DEF n, rest, e
  <2>2. Within(d, e, may)
    BY <2>1 DEF Core, Within
  <2>3. QED
    BY <1>9, <2>2 DEF e, may
<1>10. CASE o = "FixPtr"
  <2> DEFINE n == (d.ptr + 256) % 65536
  <2>1. e = [d EXCEPT !.ptr = n] \/ e = d
    BY <1>10 DEF AluEffect
  <2> HIDE DEF n, e
  <2>2. Within(d, [d EXCEPT !.ptr = n], may) /\ Within(d, d, may)
    BY LatchesWithin, WithinItself
  <2>3. QED
    BY <1>10, <2>1, <2>2 DEF e, may
<1>11. CASE o = "SpecialAddOffset"
  <2> DEFINE n == d.ea + d.x
  <2>1. e = [d EXCEPT !.ea = n]
    BY <1>11 DEF AluEffect
  <2> HIDE DEF n, e
  <2>2. Within(d, [d EXCEPT !.ea = n], may)
    BY LatchesWithin
  <2>3. QED
    BY <1>11, <2>1, <2>2 DEF e, may
<1>12. QED
  BY <1>1, <1>3, <1>4, <1>5, <1>6, <1>7, <1>8, <1>9, <1>10, <1>11

LEMMA OffsetWithin ==
    ASSUME core \in Core, NEW op \in Indexes, op.alu.op = "OffsetWithExtraCycle", NEW byte
    PROVE  LET done == AfterAccess(BeforeAccess(core, op), op, byte)
           IN  Within(core, done, MayChange) /\ Within(core, AluEffect(done, op), MayChange)
<1> DEFINE offset == op.alu.offset
           dummy == NeedsDummy(Unfixed(core, offset) # TargetEa(core, offset))
           x == IF dummy THEN DummyEa(core, Unfixed(core, offset)) ELSE Unfixed(core, offset)
           target == TargetEa(core, offset)
           ready == BeforeAccess(core, op)
           done == AfterAccess(ready, op, byte)
           e == AluEffect(done, op)
<1>1. op.bus.read /\ ~op.inc_src /\ op.local_latch = "Op0"
  BY DEF Indexes
<1>2. ready = [core EXCEPT !.ea = x]
  BY <1>1 DEF BeforeAccess
<1>3. done = [[ready EXCEPT !.data = byte] EXCEPT !.op0 = byte]
  BY <1>1 DEF AfterAccess, WriteLatch
<1>4. e = IF dummy THEN [done EXCEPT !.ea = target] ELSE done
  BY DEF AluEffect, Crosses
<1> HIDE DEF dummy, x, target, ready, done, e
<1>5. done = [core EXCEPT !.ea = x, !.data = byte, !.op0 = byte]
  BY <1>2, <1>3 DEF Core
<1>6. Within(core, done, MayChange)
  BY <1>5 DEF Core, Within
<1>7. Within(core, e, MayChange)
  BY <1>4, <1>5, <1>6 DEF Core, Within
<1>8. QED
  BY <1>6, <1>7 DEF done, e, ready

\* The stack pointer that ends up where it was
LEMMA WithinButOne ==
    ASSUME NEW c \in Core, NEW d \in Core, NEW may, Within(c, d, may \cup {"s"}), d.s = c.s
    PROVE  Within(c, d, may)
<1>1. c.flags \subseteq Flags /\ d.flags \subseteq Flags /\ "s" \notin Flags
  BY CoreTypes DEF Flags
<1>2. QED
  BY <1>1 DEF Within

LEMMA DownAndUp == ASSUME NEW s \in Byte PROVE (((s + 1) % 256) - 1) % 256 = s
<1> DEFINE q == (s + 1) \div 256
           r == (s + 1) % 256
<1>1. s \in Int /\ 0 <= s /\ s <= 255
  BY DEF Byte
<1>2. q \in Int /\ r \in Int /\ s + 1 = 256 * q + r /\ 0 <= r /\ r <= 255
  BY ONLY <1>1
<1> HIDE DEF q, r
<1>3. (r - 1) % 256 = s
  <2> DEFINE u == (r - 1) \div 256
             v == (r - 1) % 256
  <2>1. u \in Int /\ v \in Int /\ r - 1 = 256 * u + v /\ 0 <= v /\ v <= 255
    BY ONLY <1>2
  <2> HIDE DEF u, v
  <2>2. v = s
    BY ONLY <1>1, <1>2, <2>1
  <2>3. QED
    BY <2>2 DEF v
<1>4. QED
  BY <1>3 DEF r

\* What an instruction may change: what the manual says, and the stack pointer if it
\* pushes or pulls.
Allowed == MayChange \cup Flag("s", BytesPushed(current_inst) # 0)

LEMMA OpWithin ==
    ASSUME core \in Core, StatusProper(core.flags),
           NEW op \in Builds \cup Indexes \cup Increments \cup Others,
           Fitting(op, core.ea), op.bus.addr \in Addressable,
           op.alu.op = "SetPc" => core.targets # << >>,
           op.bus.read /\ op.local_latch = "Status" => Flags \ {"B", "U"} \subseteq MayChange,
           Moved(op) # 0 => BytesPushed(current_inst) # 0,
           current_opcode \in 0..255, NEW byte \in Byte
    PROVE  Within(core, AluEffect(AfterAccess(BeforeAccess(core, op), op, byte), op), Allowed)
<1> DEFINE ready == BeforeAccess(core, op)
           done == AfterAccess(ready, op, byte)
           e == AluEffect(done, op)
           may == MayChange
           more == may \cup {"s"}
           pulls == op.alu.op = "DecSp"
<1>1. may \subseteq Allowed
  BY DEF Allowed
<1>2. CASE op.alu.op = "OffsetWithExtraCycle"
  <2>1. op \in Indexes
    BY <1>2 DEF Builds, Increments, Others
  <2>2. Within(core, e, may)
    BY <1>2, <2>1, OffsetWithin
  <2> HIDE DEF e, may
  <2>3. QED
    BY <1>1, <2>2, WithinMore DEF e, done, ready
<1>3. CASE op \in Indexes /\ op.alu.op = "SpecialAddOffset"
  <2>1. ready = core
    BY <1>3 DEF BeforeAccess, Indexes
  <2>2. done = [core EXCEPT !.data = byte]
    BY <1>3, <2>1 DEF AfterAccess, WriteLatch, Indexes
  <2> HIDE DEF done
  <2>3. done \in Core /\ Within(core, done, may)
    BY <2>2, SetLatches, LatchesWithin DEF Moves
  <2>4. Within(done, e, may)
    BY <1>3, <2>3, AluWithin
  <2> HIDE DEF e, may
  <2>5. Within(core, e, Allowed)
    BY <1>1, <2>3, <2>4, WithinOn, WithinMore
  <2>6. QED
    BY <2>5 DEF e, done, ready
<1>4. CASE op \notin Indexes
  <2>1. op \in Builds \cup Increments \cup Others
    BY <1>4
  <2>2. op.alu.op # "OffsetWithExtraCycle"
    BY <2>1 DEF Builds, Increments, Others
  <2>3. done \in Core
    BY <2>1, AccessMade
  <2>4. /\ ~Pops(op) \/ "s" \in may => Within(core, done, may)
        /\ Within(core, done, more)
        /\ Pops(op) /\ "s" \notin may => done.s = (core.s + 1) % 256
    BY <2>1, AccessWithin
  <2> HIDE DEF done
  <2>5. /\ e \in Core
        /\ IF pulls THEN Within(done, e, {"s"}) /\ e.s = (done.s - 1) % 256
           ELSE Within(done, e, may)
    <3>1. IF pulls THEN Within(done, e, {"s"}) /\ e.s = (done.s - 1) % 256
          ELSE Within(done, e, may)
      BY <2>1, <2>2, <2>3, AluWithin
    <3>2. Executed(op, AccessAddress(ready, op), done, e)
      BY <2>1, OpMade DEF done
    <3> HIDE DEF e
    <3>3. QED
      BY <3>1, <3>2 DEF Executed
  <2> HIDE DEF e, may
  <2>6. CASE ~pulls /\ (~Pops(op) \/ "s" \in may)
    <3>1. Within(core, e, may)
      BY <2>4, <2>5, <2>6, WithinOn
    <3>2. QED
      BY <1>1, <3>1, WithinMore DEF e, done, ready
  <2>7. CASE pulls /\ Pops(op) /\ "s" \notin may
    <3>1. e.s = core.s
      <4>1. core.s \in Byte
        BY CoreTypes
      <4>2. QED
        BY <2>4, <2>5, <2>7, <4>1, DownAndUp
    <3>2. Within(done, e, more)
      BY <2>5, <2>7, WithinMore
    <3>3. Within(core, e, more)
      BY <2>4, <3>2, WithinOn
    <3>4. Within(core, e, may)
      BY <2>5, <3>1, <3>3, WithinButOne
    <3>5. QED
      BY <1>1, <3>4, WithinMore DEF e, done, ready
  <2>8. CASE "s" \in Allowed
    <3>1. more \subseteq Allowed
      BY <1>1, <2>8
    <3>2. {"s"} \subseteq more /\ may \subseteq more
      OBVIOUS
    <3>3. Within(done, e, more)
      BY <2>5, <3>2, WithinMore
    <3> HIDE DEF more
    <3>4. Within(core, e, Allowed)
      BY <2>4, <3>1, <3>3, WithinOn, WithinMore
    <3>5. QED
      BY <3>4 DEF e, done, ready
  <2>9. pulls # Pops(op) => "s" \in Allowed
    <3>1. Pops(op) \in BOOLEAN
      <4>1. op.inc_src \in BOOLEAN
        BY <2>1 DEF Builds, Increments, Others, MicroOp
      <4>2. QED
        BY <4>1 DEF Pops
    <3>2. Moved(op) = (IF Pops(op) THEN 1 ELSE 0) - (IF pulls THEN 1 ELSE 0)
      BY DEF Moved, Pops
    <3>3. pulls # Pops(op) => Moved(op) # 0
      BY <3>1, <3>2
    <3>4. QED
      BY <3>3 DEF Allowed, Flag
  <2>10. "s" \in may => "s" \in Allowed
    BY <1>1
  <2>11. QED
    BY <2>6, <2>7, <2>8, <2>9, <2>10
<1>5. QED
  BY <1>2, <1>3, <1>4 DEF Indexes

LEMMA RetireWithin ==
    ASSUME NEW c \in Core, StatusProper(c.flags),
           current_inst.address_mode.kind = "Brk" => current_inst.mnemonic = "Brk"
    PROVE  Within(c, Retire(c), MayChange)
<1> DEFINE m == current_inst.mnemonic
           reads == current_inst.memory_action = "Read"
           d == IF reads THEN ReadEffect(F, current_inst, c) ELSE c
           k == current_inst.address_mode.kind
           may == MayChange
<1>1. d \in Core /\ Within(c, d, may)
  <2>1. CASE ~reads
    BY <2>1, WithinItself
  <2>2. CASE reads
    <3>1. ReadEffect(F, current_inst, c) \in Core
      BY ReadKeeps, ReadMasks DEF Keeps
    <3>2. QED
      BY <2>2, <3>1, ReadWithin
  <2>3. QED
    BY <2>1, <2>2
<1>2. Retire(c) = CASE k = "Implied" -> ImpliedEffect(m, d)
                    [] k = "Brk" -> SetFlag(d, "I", TRUE)
                    [] OTHER -> d
  BY DEF Retire
<1> HIDE DEF d
<1>3. CASE k = "Implied"
  <2>1. Within(d, ImpliedEffect(m, d), may)
    BY <1>1, <1>3, ImpliedWithin
  <2>2. Retire(c) = ImpliedEffect(m, d)
    BY <1>2, <1>3
  <2> HIDE DEF may
  <2>3. QED
    BY <1>1, <2>1, <2>2, WithinOn DEF may
<1>4. CASE k = "Brk"
  <2>1. "I" \in may
    BY <1>4, Manual
  <2>2. Retire(c) = SetFlag(d, "I", TRUE)
    BY <1>2, <1>4
  <2> HIDE DEF may
  <2>3. Within(d, SetFlag(d, "I", TRUE), may)
    BY <1>1, <2>1, SetFlagWithin
  <2>4. QED
    BY <1>1, <2>2, <2>3, WithinOn DEF may
<1>5. CASE k \notin {"Implied", "Brk"}
  BY <1>1, <1>2, <1>5
<1>6. QED
  BY <1>3, <1>4, <1>5

-----------------------------------------------------------------------------
(* The finished instruction.                                               *)

\* No register or flag is changed, from the start of the instruction on, that the
\* instruction may not change.
FootInv == TestInv /\ (current_inst # NoInst => Within(entry, core, Allowed))

LEMMA EntryProper ==
    ASSUME entry \in Entries, Within(entry, core, Allowed)
    PROVE  StatusProper(core.flags)
<1>1. StatusProper(entry.flags)
  BY StatusAssumption DEF StatusProper
<1>2. "U" \notin Allowed /\ "B" \notin Allowed
  BY BitsNotChanged DEF Allowed, Flag
<1>3. QED
  BY <1>1, <1>2 DEF Within, StatusProper

\* What the next op may count on, of the stack and the status
LEMMA FrontStack ==
    ASSUME IInv, HistoryInv, DataInv, current_inst # NoInst, ~IsEmpty(ucycs)
    PROVE  LET op == FrontOp(ucycs)
           IN  /\ op.bus.read /\ op.local_latch = "Status" => Flags \ {"B", "U"} \subseteq MayChange
               /\ Moved(op) # 0 => BytesPushed(current_inst) # 0
               /\ current_inst.address_mode.kind = "Brk" => current_inst.mnemonic = "Brk"
<1> DEFINE op == FrontOp(ucycs)
           s == ucycs.todo
           n == Len(s)
           inst == current_inst
<1>1. op = s[1] /\ op \in MicroOp /\ s \in Seq(MicroOp) /\ s # << >>
  BY FrontFacts
<1>2. 1 \in 1..n
  BY <1>1, TapeFacts DEF IInv, QueueInv
<1>3. Running(current_opcode, inst, run, s, extra_adc_sbc_cycle)
  BY UnderWay
<1>4. ControlFacts(F, current_opcode, inst)
  BY <1>3, StartedFacts DEF Running
<1>5. Belongs(inst, run.source, op)
  BY <1>1, <1>2, <1>3 DEF Running, AllInPlace, InPlace
<1>6. StackFacts(inst)
  BY StackAssumption DEF HistoryInv
<1> HIDE DEF op, s, n
<1>7. op.bus.read /\ op.local_latch = "Status" => Flags \ {"B", "U"} \subseteq MayChange
  <2>1. op.bus.read /\ op.local_latch = "Status" => inst.mnemonic = "Rti"
    BY <1>5, <1>6 DEF Belongs, StackFacts, Kind
  <2>2. inst.mnemonic = "Rti" => Flags \ {"B", "U"} \subseteq MayChange
    BY Manual
  <2>3. QED
    BY <2>1, <2>2
<1>8. Moved(op) # 0 => BytesPushed(inst) # 0
  <2> DEFINE pushed == BytesPushed(inst)
             moved == MovedOf[op]
  <2>1. (pushed >= 0 => moved <= 0) /\ (pushed <= 0 => moved >= 0)
    BY <1>5 DEF Belongs
  <2>2. moved \in Int /\ moved = Moved(op)
    BY <1>1, WeightTypes DEF MovedOf, Weights, op
  <2> HIDE DEF pushed, moved
  <2>3. pushed = 0 => moved = 0
    BY <2>1, <2>2
  <2>4. QED
    BY <2>2, <2>3 DEF pushed
<1>9. inst.address_mode.kind = "Brk" => inst.mnemonic = "Brk"
  BY <1>4 DEF ControlFacts
<1>10. QED
  BY <1>7, <1>8, <1>9 DEF op

LEMMA ExecuteFootprint ==
    ASSUME FootInv, ExecuteData(QuietLines, Answers)
    PROVE  Within(entry', core', Allowed')
<1> DEFINE op == FrontOp(ucycs)
           ready == BeforeAccess(core, op)
           addr == AccessAddress(ready, op)
<1>1. /\ current_inst # NoInst /\ ~IsEmpty(ucycs) /\ entry' = entry
      /\ current_inst' = current_inst
  BY DEF ExecuteData, Continues
<1>2. PICK byte \in IF op.bus.read THEN Answers[op.local_latch][addr] ELSE {0} :
          LET done == AfterAccess(ready, op, byte)
              e == AluEffect(done, op)
          IN  core' = IF IsEmpty(ucycs') THEN Retire(e) ELSE e
  BY DEF ExecuteData
<1>3. IInv /\ HistoryInv /\ DataInv /\ entry \in Entries /\ Within(entry, core, Allowed)
  BY <1>1 DEF FootInv, TestInv
<1>4. core \in Core /\ current_opcode \in 0..255 /\ StatusProper(core.flags)
  BY <1>3, EntryProper DEF DataInv, IInv, StateTypeOK
<1>5. /\ op \in MicroOp /\ op \in Builds \cup Indexes \cup Increments \cup Others
      /\ Fitting(op, core.ea) /\ op.bus.addr \in Addressable
      /\ op.alu.op = "SetPc" => core.targets # << >>
  BY <1>1, <1>3, FrontFacts
<1>6. /\ op.bus.read /\ op.local_latch = "Status" => Flags \ {"B", "U"} \subseteq MayChange
      /\ Moved(op) # 0 => BytesPushed(current_inst) # 0
      /\ current_inst.address_mode.kind = "Brk" => current_inst.mnemonic = "Brk"
  BY <1>1, <1>3, FrontStack
<1> HIDE DEF op
<1>7. \A b \in Byte : /\ Executed(op, addr, AfterAccess(ready, op, b),
                                   AluEffect(AfterAccess(ready, op, b), op))
                      /\ Within(core, AluEffect(AfterAccess(ready, op, b), op), Allowed)
  BY <1>4, <1>5, <1>6, OpMade, OpWithin
<1>8. byte \in Byte
  <2>1. addr \in Effective \cup {-1} /\ Answering(Answers)
    BY <1>3, <1>7, ByteRange, TestAnswers DEF Executed
  <2>2. op.local_latch \in Latch
    BY <1>5 DEF MicroOp
  <2>3. /\ op.bus.read => byte \in Answers[op.local_latch][addr]
        /\ ~op.bus.read => byte = 0
    BY <1>2 DEF op
  <2> HIDE DEF addr
  <2>4. QED
    BY <2>1, <2>2, <2>3, ByteRange DEF Answering
<1> DEFINE e == AluEffect(AfterAccess(ready, op, byte), op)
<1>9. e \in Core /\ Within(core, e, Allowed)
  BY <1>7, <1>8 DEF Executed
<1>10. core' = Retire(e) \/ core' = e
  BY <1>2 DEF op
<1> HIDE DEF e
<1>11. Within(entry, e, Allowed)
  BY <1>3, <1>9, WithinOn
<1>12. StatusProper(e.flags)
  <2>1. "U" \notin Allowed /\ "B" \notin Allowed
    BY BitsNotChanged DEF Allowed, Flag
  <2>2. QED
    BY <1>4, <1>9, <2>1 DEF Within, StatusProper
<1>13. Within(e, Retire(e), Allowed)
  <2>1. Within(e, Retire(e), MayChange) /\ MayChange \subseteq Allowed
    BY <1>6, <1>9, <1>12, RetireWithin DEF Allowed
  <2>2. QED
    BY <2>1, WithinMore
<1>14. Within(entry, core', Allowed)
  BY <1>10, <1>11, <1>13, WithinOn
<1>15. Allowed' = Allowed
  BY <1>1 DEF Allowed, MayChange, mnemonic, mode, BytesPushed
<1>16. QED
  BY <1>1, <1>14, <1>15

LEMMA FootNext == FootInv /\ [TestCycle]_allVars => FootInv'
<1> SUFFICES ASSUME FootInv, [TestCycle]_allVars PROVE FootInv'
  OBVIOUS
<1>1. TestInv' /\ (current_inst # NoInst => Within(entry, core, Allowed))
  BY TestNext DEF FootInv
<1>2. core \in Core
  BY DEF FootInv, TestInv, DataInv
<1>3. CASE FirstFetchData(QuietLines, Answers)
  <2> DEFINE d == Scratch(core)
             pc == (core.pc + 1) % 65536
  <2>1. entry' = core /\ core' = [d EXCEPT !.pc = (d.pc + 1) % 65536]
    BY <1>3 DEF FirstFetchData, FetchData, Starts
  <2>2. Within(core, core', Allowed')
    <3>1. core' = [Scratch(core) EXCEPT !.pc = (@ + 1) % 65536]
      BY <1>3 DEF FirstFetchData, FetchData
    <3>2. QED
      BY <1>2, <3>1 DEF Scratch, Core, Within
  <2>3. QED
    BY <1>1, <2>1, <2>2 DEF FootInv
<1>4. CASE ExecuteData(QuietLines, Answers)
  BY <1>1, <1>4, ExecuteFootprint DEF FootInv
<1>5. CASE DecimalCycleData(QuietLines, Answers)
  <2>1. UNCHANGED << core, entry, current_inst >>
    BY <1>5 DEF DecimalCycleData, DecimalCycle, Continues
  <2>2. Allowed' = Allowed
    BY <2>1 DEF Allowed, MayChange, mnemonic, mode, BytesPushed
  <2>3. QED
    BY <1>1, <2>1, <2>2 DEF FootInv
<1>6. CASE UNCHANGED allVars
  <2>1. UNCHANGED << core, entry, current_inst >>
    BY <1>6 DEF allVars, dataVars, vars, cpuVars
  <2>2. Allowed' = Allowed
    BY <2>1 DEF Allowed, MayChange, mnemonic, mode, BytesPushed
  <2>3. QED
    BY <1>1, <2>1, <2>2 DEF FootInv
<1>7. QED
  BY <1>3, <1>4, <1>5, <1>6 DEF TestCycle

\* What moves the stack pointer is what the manual says pushes or pulls.
LEMMA StackMoved ==
    ASSUME IInv, HistoryInv, current_inst # NoInst, BytesPushed(current_inst) # 0
    PROVE  ExpectedPushes # << >> \/ Pulls > 0
<1> DEFINE k == current_inst.address_mode.kind
           m == current_inst.mnemonic
           act == current_inst.memory_action
<1>1. StackFacts(current_inst)
  BY StackAssumption DEF HistoryInv
<1>2. k \in {"Brk", "ToSubroutine", "Stack", "FromSubroutine", "FromInterrupt"}
  BY DEF BytesPushed
<1>3. CASE k \in {"Brk", "ToSubroutine"}
  BY <1>3 DEF ExpectedPushes, mode
<1>4. CASE k \in {"FromSubroutine", "FromInterrupt"} \/ (k = "Stack" /\ act = "Read")
  BY <1>4 DEF Pulls, mode, action
<1>5. CASE k = "Stack" /\ act # "Read"
  <2>1. m \in {"Pha", "Phx", "Phy", "Php"}
    BY <1>1, <1>5 DEF StackFacts
  <2>2. QED
    BY <1>5, <2>1 DEF ExpectedPushes, mode, mnemonic
<1>6. QED
  BY <1>2, <1>3, <1>4, <1>5

\* Every instruction of every table leaves the registers and flags alone that the manual
\* does not say it changes: in each addressing mode, for every flavor, starting registers
\* and bytes read, and whether or not a page is crossed, a branch taken or a decimal cycle
\* added, its micro-ops and its effects together change nothing else.
THEOREM FootprintKept == TestSpec => []Footprint
<1>1. SetupInitial => FootInv
  <2>1. SetupInitial => current_inst = NoInst
    BY DEF SetupInitial, Powered
  <2>2. QED
    BY <2>1, TestInit DEF FootInv
<1>2. FootInv => Footprint
  <2> SUFFICES ASSUME FootInv, AtBoundary PROVE
          /\ \A r \in {"a", "x", "y"} : core[r] # entry[r] => r \in MayChange
          /\ core.s # entry.s => "s" \in MayChange \/ ExpectedPushes # << >> \/ Pulls > 0
          /\ \A f \in Flags : (f \in core.flags) # (f \in entry.flags) => f \in MayChange
    BY DEF Footprint
  <2>1. current_inst # NoInst /\ Within(entry, core, Allowed) /\ IInv /\ HistoryInv
    BY DEF FootInv, TestInv, AtBoundary
  <2>2. \A r : r # "s" => (r \in Allowed <=> r \in MayChange)
    BY DEF Allowed, Flag
  <2>3. "s" \in Allowed => "s" \in MayChange \/ ExpectedPushes # << >> \/ Pulls > 0
    BY <2>1, StackMoved DEF Allowed, Flag
  <2>4. \A r \in {"a", "x", "y"} : core[r] # entry[r] => r \in MayChange
    BY <2>1, <2>2 DEF Within
  <2>5. core.s # entry.s => "s" \in MayChange \/ ExpectedPushes # << >> \/ Pulls > 0
    BY <2>1, <2>3 DEF Within
  <2>6. \A f \in Flags : (f \in core.flags) # (f \in entry.flags) => f \in MayChange
    <3>1. \A f \in Flags : f # "s"
      BY DEF Flags
    <3>2. core.flags \ Allowed = entry.flags \ Allowed
      BY <2>1 DEF Within
    <3>3. \A f \in Flags : f \notin MayChange => (f \in core.flags <=> f \in entry.flags)
      BY <2>2, <3>1, <3>2
    <3>4. QED
      BY <3>3
  <2>7. QED
    BY <2>4, <2>5, <2>6
<1>3. QED
  BY <1>1, <1>2, FootNext, PTL DEF TestSpec

-----------------------------------------------------------------------------
(* The accumulator's column.                                               *)

\* The instructions of the column whose result the property tells, ADC and SBC apart
InColumn(opcode, inst) ==
    opcode % 4 = 1 /\ inst.mnemonic \in {"Ora", "And", "Eor", "Sta", "Lda", "Cmp"}
Column == InColumn(current_opcode, current_inst)

\* The ops before the last of an instruction that reads or writes memory once, and the last
PlainLeads ==
    {ReadOp("Pc", "EaLo", TRUE), ReadOp("Pc", "EaHi", TRUE), ReadOp("Pc", "PtrLo", TRUE),
     ReadOp("PtrLo", "EaLo", TRUE), ReadOp("PtrLo", "EaHi", FALSE)}
Leads ==
    PlainLeads \cup {ReadAndOffset("EaLo", offset) : offset \in OffsetType}
    \cup {ReadAndOffset("PtrLo", offset) : offset \in OffsetType}
    \cup {OffsetOptFix(offset) : offset \in OffsetType}
LastOp(inst) ==
    IF inst.address_mode.kind = "Immediate" THEN ReadOp("Pc", "Op0", TRUE)
    ELSE IF inst.memory_action = "Write" THEN AluWrite ELSE ReadOp("Ea", "Op0", FALSE)
Led(inst, s) ==
    /\ s \in Seq(Leads \cup {LastOp(inst)}) /\ Len(s) > 0
    /\ \A i \in 1..Len(s) : i < Len(s) => s[i] \in Leads
    /\ s[Len(s)] = LastOp(inst)

LEMMA ColumnOfTable ==
    ASSUME NEW opcode \in Opcode, NEW inst, inst = Decode[opcode], InColumn(opcode, inst)
    PROVE  LET k == inst.address_mode.kind
               m == inst.mnemonic
           IN  /\ inst.memory_action = IF m = "Sta" THEN "Write" ELSE "Read"
               /\ k \in MemoryModes \/ (k = "Immediate" /\ m # "Sta")
               /\ m = AccumulatorOps[MatrixRow(opcode)]
<1>1. ColumnFacts(opcode, inst)
  BY ColumnAssumption
<1>2. inst.mnemonic \in {AccumulatorOps[i] : i \in 1..8}
  <2>1. /\ AccumulatorOps[1] = "Ora" /\ AccumulatorOps[2] = "And" /\ AccumulatorOps[3] = "Eor"
        /\ AccumulatorOps[5] = "Sta" /\ AccumulatorOps[6] = "Lda" /\ AccumulatorOps[7] = "Cmp"
    BY DEF AccumulatorOps
  <2>2. QED
    BY <2>1 DEF InColumn
<1>3. QED
  BY <1>1, <1>2 DEF ColumnFacts, InColumn, MemoryModes

\* What the ops of the column do to A and the operand
LEMMA LeadShapes ==
    ASSUME NEW op \in Leads
    PROVE  /\ op.bus.read /\ op.local_latch \in {"EaLo", "EaHi", "PtrLo", "None", "Op0"}
           /\ op.inc_src => op.bus.addr \in {"Pc", "PtrLo"}
           /\ op.alu.op \in {"None", "AddOffset", "OffsetWithExtraCycle"}
           /\ op.alu.op = "AddOffset" => op.alu.latch \in {"EaLo", "PtrLo"}
           /\ op.alu.op = "OffsetWithExtraCycle" => op.local_latch = "Op0" /\ ~op.inc_src
<1>1. CASE op \in PlainLeads
  BY <1>1 DEF PlainLeads, ReadOp, Op, Cycle, Alu
<1>2. ASSUME NEW src \in {"EaLo", "PtrLo"}, NEW offset \in OffsetType, op = ReadAndOffset(src, offset)
      PROVE  /\ op.bus.read /\ op.local_latch = "None" /\ ~op.inc_src
             /\ op.alu.op = "AddOffset" /\ op.alu.latch = src
  <2>1. Shape(op, src, TRUE, FALSE, "None", "AddOffset")
    BY <1>2, Shapes
  <2>2. op.alu.latch = src
    BY <1>2 DEF ReadAndOffset, Op, Alu
  <2>3. QED
    BY <2>1, <2>2 DEF Shape
<1>3. CASE op \in {OffsetOptFix(offset) : offset \in OffsetType}
  <2>1. Shape(op, "Ea", TRUE, FALSE, "Op0", "OffsetWithExtraCycle")
    BY <1>3, Shapes
  <2>2. QED
    BY <2>1 DEF Shape
<1>4. CASE op \in {ReadAndOffset("EaLo", offset) : offset \in OffsetType}
  BY <1>2, <1>4
<1>5. CASE op \in {ReadAndOffset("PtrLo", offset) : offset \in OffsetType}
  BY <1>2, <1>5
<1>6. QED
  BY <1>1, <1>3, <1>4, <1>5 DEF Leads

LEMMA LeadKeepsA ==
    ASSUME core \in Core, NEW op \in Leads, NEW byte \in Byte
    PROVE  LET done == AfterAccess(BeforeAccess(core, op), op, byte)
               e == AluEffect(done, op)
           IN  /\ e.a = core.a /\ done.data = byte
               /\ op.alu.op = "OffsetWithExtraCycle" => e.op0 = byte
<1> DEFINE ready == BeforeAccess(core, op)
           read == WriteLatch([ready EXCEPT !.data = byte], op.local_latch, byte)
           done == AfterAccess(ready, op, byte)
           e == AluEffect(done, op)
<1>1. /\ op.bus.read /\ op.local_latch \in {"EaLo", "EaHi", "PtrLo", "None", "Op0"}
      /\ op.inc_src => op.bus.addr \in {"Pc", "PtrLo"}
      /\ op.alu.op \in {"None", "AddOffset", "OffsetWithExtraCycle"}
      /\ op.alu.op = "AddOffset" => op.alu.latch \in {"EaLo", "PtrLo"}
      /\ op.alu.op = "OffsetWithExtraCycle" => op.local_latch = "Op0" /\ ~op.inc_src
  BY LeadShapes
<1>2. ready.a = core.a /\ DOMAIN ready = DOMAIN core
  BY <1>1 DEF BeforeAccess, Core
<1>3. core = [f \in DOMAIN core |-> core[f]] /\ DOMAIN core = {"a", "x", "y", "s", "pc", "flags",
         "ea", "ptr", "op0", "signed_offset8", "data", "targets"}
  BY DEF Core
<1>4. /\ read.a = core.a /\ read.data = byte /\ DOMAIN read = DOMAIN core
      /\ op.local_latch = "Op0" => read.op0 = byte
  BY <1>1, <1>2, <1>3 DEF WriteLatch
<1>5. done = IF op.inc_src THEN AddToLatch(read, op.bus.addr, 1) ELSE read
  BY <1>1 DEF AfterAccess
<1> HIDE DEF ready, read, done
<1>6. /\ done.a = core.a /\ done.data = byte /\ DOMAIN done = DOMAIN core
      /\ op.alu.op = "OffsetWithExtraCycle" => done.op0 = byte
  BY <1>1, <1>3, <1>4, <1>5 DEF AddToLatch
<1>7. e.a = core.a /\ (op.alu.op = "OffsetWithExtraCycle" => e.op0 = byte)
  <2>1. CASE op.alu.op = "None"
    BY <1>6, <2>1 DEF AluEffect
  <2>2. CASE op.alu.op = "AddOffset"
    BY <1>1, <1>3, <1>6, <2>2 DEF AluEffect, AddToLatch
  <2>3. CASE op.alu.op = "OffsetWithExtraCycle"
    BY <1>3, <1>6, <2>3 DEF AluEffect
  <2>4. QED
    BY <1>1, <2>1, <2>2, <2>3
<1>8. QED
  BY <1>6, <1>7 DEF done, ready

LEMMA LastDoes ==
    ASSUME core \in Core, NEW inst, inst = current_inst, NEW byte \in Byte,
           inst.memory_action = "Write" => inst.mnemonic = "Sta",
           inst.memory_action = "Write" => inst.address_mode.kind # "Immediate"
    PROVE  LET op == LastOp(inst)
               done == AfterAccess(BeforeAccess(core, op), op, byte)
               e == AluEffect(done, op)
           IN  /\ e.a = core.a
               /\ inst.memory_action # "Write" => done.data = byte /\ e.op0 = byte
               /\ inst.memory_action = "Write" => done.data = core.a
<1> DEFINE op == LastOp(inst)
           ready == BeforeAccess(core, op)
           done == AfterAccess(ready, op, byte)
           e == AluEffect(done, op)
<1>1. DOMAIN core = {"a", "x", "y", "s", "pc", "flags",
         "ea", "ptr", "op0", "signed_offset8", "data", "targets"}
  BY DEF Core
<1>2. CASE inst.memory_action = "Write"
  <2>1. op.bus.read = FALSE /\ op.inc_src = FALSE /\ op.local_latch = "None" /\ op.alu.op = "None"
    BY <1>2 DEF LastOp, AluWrite, Op, Cycle, Alu
  <2>2. PrepareStore(inst, core) = [core EXCEPT !.data = core.a]
    BY <1>2 DEF PrepareStore
  <2>3. ready = [core EXCEPT !.data = core.a]
    BY <2>1, <2>2 DEF BeforeAccess
  <2> HIDE DEF ready
  <2>4. done = [ready EXCEPT !.data = ready.data]
    BY <2>1 DEF AfterAccess, ReadLatch
  <2>5. e = done
    BY <2>1 DEF AluEffect
  <2> HIDE DEF done, e, op
  <2>6. e.a = core.a /\ done.data = core.a
    BY <1>1, <2>3, <2>4, <2>5
  <2>7. QED
    BY <1>2, <2>6 DEF e, done, ready, op
<1>3. CASE inst.memory_action # "Write"
  <2>1. op.bus.read = TRUE /\ op.local_latch = "Op0" /\ op.alu.op = "None"
        /\ (op.inc_src => op.bus.addr = "Pc")
    BY <1>3 DEF LastOp, ReadOp, Op, Cycle, Alu
  <2>2. ready = core
    BY <2>1 DEF BeforeAccess
  <2>3. done = IF op.inc_src THEN AddToLatch([core EXCEPT !.data = byte, !.op0 = byte], "Pc", 1)
               ELSE [core EXCEPT !.data = byte, !.op0 = byte]
    BY <2>1, <2>2 DEF AfterAccess, WriteLatch
  <2>4. e = done
    BY <2>1 DEF AluEffect
  <2> HIDE DEF done, e, op
  <2>5. e.a = core.a /\ done.data = byte /\ e.op0 = byte
    <3> DEFINE c == [core EXCEPT !.data = byte, !.op0 = byte]
    <3>1. AddToLatch(c, "Pc", 1) = [c EXCEPT !.pc = (@ + 1) % 65536]
      BY DEF AddToLatch
    <3>2. c.a = core.a /\ c.data = byte /\ c.op0 = byte /\ DOMAIN c = DOMAIN core
      BY <1>1
    <3> HIDE DEF c
    <3>3. /\ AddToLatch(c, "Pc", 1).a = core.a /\ AddToLatch(c, "Pc", 1).data = byte
          /\ AddToLatch(c, "Pc", 1).op0 = byte
      BY <1>1, <3>1, <3>2
    <3>4. QED
      BY <2>3, <2>4, <3>2, <3>3 DEF c
  <2>6. QED
    BY <1>3, <2>5 DEF e, done, ready, op
<1>4. QED
  BY <1>2, <1>3

-----------------------------------------------------------------------------
(* What the effects leave, of the byte read.                               *)

\* A and the flags once an instruction of the column is done with `byte`
Answered(m, byte, a, c) ==
    LET result == CASE m = "Ora" -> Or(a, byte) [] m = "And" -> And(a, byte)
                    [] m = "Eor" -> Xor(a, byte) [] m = "Lda" -> byte [] OTHER -> a
    IN  /\ c.a = result
        /\ m = "Sta" => byte = a
        /\ m \in {"Ora", "And", "Eor", "Lda"} => /\ "Z" \in c.flags <=> result = 0
                                                 /\ "N" \in c.flags <=> result >= 128
        /\ m = "Cmp" => /\ "Z" \in c.flags <=> a = byte
                        /\ "C" \in c.flags <=> a >= byte
                        /\ "N" \in c.flags <=> (a - byte) % 256 >= 128

LEMMA SignBit == ASSUME NEW n \in Byte PROVE Negative(n) <=> n >= 128
<1>1. SIGN = 128
  BY EightBit DEF SIGN
<1>2. n \in Int /\ 0 <= n /\ n <= 255
  BY DEF Byte
<1>3. (n \div 128) % 2 = 1 <=> n >= 128
  BY ONLY <1>2
<1>4. QED
  BY <1>1, <1>3 DEF Negative

LEMMA LoadedFlags ==
    ASSUME NEW c \in Core, NEW n \in Byte
    PROVE  LET d == Update(c, "a", Zn(n))
           IN  /\ d.a = n
               /\ "Z" \in d.flags <=> n = 0
               /\ "N" \in d.flags <=> n >= 128
<1> DEFINE flags == Apply(Zn(n), c.flags)
           d == Update(c, "a", Zn(n))
<1>1. Zn(n).value = n /\ Zn(n).flag_mask = {"Z", "N"}
      /\ Zn(n).flags = Flag("N", Negative(n)) \cup Flag("Z", n = 0)
  BY DEF Zn, AluResult
<1>2. ("Z" \in flags <=> n = 0) /\ ("N" \in flags <=> Negative(n))
  BY <1>1 DEF Apply, Flag
<1>3. d.a = n /\ d.flags = flags
  <2>1. d = [c EXCEPT !["a"] = n, !.flags = Apply(Zn(n), @)]
    BY <1>1 DEF Update
  <2> HIDE DEF d
  <2>2. QED
    BY <2>1 DEF Core
<1> HIDE DEF flags, d
<1>4. QED
  BY <1>2, <1>3, SignBit DEF d

LEMMA ComparedFlags ==
    ASSUME NEW c \in Core, NEW m \in Byte, NEW n \in Byte
    PROVE  LET d == Compare(c, m, n)
           IN  /\ d.a = c.a
               /\ "Z" \in d.flags <=> m = n
               /\ "C" \in d.flags <=> m >= n
               /\ "N" \in d.flags <=> (m - n) % 256 >= 128
<1> DEFINE q == (m - n) % 256
           flags == Apply(Zn(q), c.flags)
           d == Compare(c, m, n)
<1>1. (q = 0 <=> m = n) /\ q \in Byte
  <2>1. m \in Int /\ n \in Int /\ 0 <= m /\ m <= 255 /\ 0 <= n /\ n <= 255
    BY DEF Byte
  <2>2. ((m - n) % 256 = 0 <=> m = n) /\ (m - n) % 256 \in 0..255
    BY ONLY <2>1
  <2>3. QED
    BY <2>2 DEF Byte
<1> HIDE DEF q
<1>2. Zn(q).flag_mask = {"Z", "N"}
      /\ Zn(q).flags = Flag("N", Negative(q)) \cup Flag("Z", q = 0)
  BY DEF Zn, AluResult
<1>3. ("Z" \in flags <=> q = 0) /\ ("N" \in flags <=> Negative(q))
  BY <1>2 DEF Apply, Flag
<1>3a. Negative(q) <=> q >= 128
  BY <1>1, SignBit
<1> HIDE DEF flags
<1>4. d = SetFlag([c EXCEPT !.flags = flags], "C", m >= n)
  BY DEF Compare, q, flags
<1> HIDE DEF d
<1>5. d.a = c.a /\ d.flags = (flags \ {"C"}) \cup Flag("C", m >= n)
  BY <1>4 DEF SetFlag, Core
<1>6. /\ "Z" \in d.flags <=> m = n
      /\ "C" \in d.flags <=> m >= n
      /\ "N" \in d.flags <=> q >= 128
  BY <1>1, <1>3, <1>3a, <1>5 DEF Flag
<1>7. QED
  BY <1>5, <1>6 DEF d, q

LEMMA ColumnEffect ==
    ASSUME NEW c \in Core, NEW byte, Column,
           LET k == current_inst.address_mode.kind
               m == current_inst.mnemonic
           IN  /\ k \in MemoryModes \cup {"Immediate"}
               /\ current_inst.memory_action = IF m = "Sta" THEN "Write" ELSE "Read"
               /\ IF m = "Sta" THEN byte = c.a ELSE byte = c.op0
    PROVE  Answered(current_inst.mnemonic, byte, c.a, Retire(c))
<1> DEFINE m == current_inst.mnemonic
           d == Retire(c)
<1>1. d = IF m = "Sta" THEN c ELSE ReadEffect(F, current_inst, c)
  BY DEF Retire, MemoryModes
<1>2. c.a \in Byte /\ c.op0 \in Byte
  BY CoreTypes
<1>3. /\ Or(c.a, c.op0) \in Byte /\ And(c.a, c.op0) \in Byte /\ Xor(c.a, c.op0) \in Byte
  BY <1>2, LogicBytes
<1> HIDE DEF d
<1>4. CASE m = "Sta"
  BY <1>1, <1>4 DEF Answered, d
<1>5. CASE m = "Ora"
  <2>1. d = Update(c, "a", Zn(Or(c.a, c.op0)))
    BY <1>1, <1>5 DEF ReadEffect
  <2>2. d.a = Or(c.a, c.op0) /\ ("Z" \in d.flags <=> Or(c.a, c.op0) = 0) /\ ("N" \in d.flags <=> Or(c.a, c.op0) >= 128)
    BY <1>2, <1>3, <2>1, LoadedFlags
  <2>3. QED
    BY <2>2, <1>5 DEF Answered, d
<1>6. CASE m = "And"
  <2>1. d = Update(c, "a", Zn(And(c.a, c.op0)))
    BY <1>1, <1>6 DEF ReadEffect
  <2>2. d.a = And(c.a, c.op0) /\ ("Z" \in d.flags <=> And(c.a, c.op0) = 0) /\ ("N" \in d.flags <=> And(c.a, c.op0) >= 128)
    BY <1>2, <1>3, <2>1, LoadedFlags
  <2>3. QED
    BY <2>2, <1>6 DEF Answered, d
<1>7. CASE m = "Eor"
  <2>1. d = Update(c, "a", Zn(Xor(c.a, c.op0)))
    BY <1>1, <1>7 DEF ReadEffect
  <2>2. d.a = Xor(c.a, c.op0) /\ ("Z" \in d.flags <=> Xor(c.a, c.op0) = 0) /\ ("N" \in d.flags <=> Xor(c.a, c.op0) >= 128)
    BY <1>2, <1>3, <2>1, LoadedFlags
  <2>3. QED
    BY <2>2, <1>7 DEF Answered, d
<1>8. CASE m = "Lda"
  <2>1. d = Update(c, "a", Zn(c.op0))
    BY <1>1, <1>8 DEF ReadEffect
  <2>2. d.a = c.op0 /\ ("Z" \in d.flags <=> c.op0 = 0) /\ ("N" \in d.flags <=> c.op0 >= 128)
    BY <1>2, <1>3, <2>1, LoadedFlags
  <2>3. QED
    BY <2>2, <1>8 DEF Answered, d
<1>9. CASE m = "Cmp"
  <2>1. d = Compare(c, c.a, c.op0)
    BY <1>1, <1>9 DEF ReadEffect
  <2>2. d.a = c.a /\ ("Z" \in d.flags <=> c.a = c.op0) /\ ("C" \in d.flags <=> c.a >= c.op0)
        /\ ("N" \in d.flags <=> (c.a - c.op0) % 256 >= 128)
    BY <1>2, <2>1, ComparedFlags
  <2>3. QED
    BY <1>9, <2>2 DEF Answered, d
<1>10. QED
  BY <1>4, <1>5, <1>6, <1>7, <1>8, <1>9 DEF Column, InColumn

-----------------------------------------------------------------------------
(* The queue of an instruction of the column.                              *)

LEMMA LedBy ==
    ASSUME NEW inst, NEW u \in Seq(Leads)
    PROVE  Led(inst, u \o << LastOp(inst) >>)
<1> DEFINE l == LastOp(inst)
           S == Leads \cup {l}
           v == << l >>
           s == u \o v
<1> HIDE DEF l
<1>1. v \in Seq(S) /\ Len(v) = 1 /\ v[1] = l
  OBVIOUS
<1>2. u \in Seq(S) /\ \A i \in 1..Len(u) : u[i] \in Leads
  <2>1. Leads \subseteq S
    OBVIOUS
  <2> HIDE DEF S
  <2>2. QED
    BY <2>1, SeqMonotonic, ElementOfSeq
<1>3. Len(u) \in Nat
  BY LenProperties
<1> HIDE DEF S, v
<1>4. /\ s \in Seq(S) /\ Len(s) = Len(u) + 1
      /\ \A i \in 1..Len(s) : s[i] = IF i <= Len(u) THEN u[i] ELSE v[i - Len(u)]
  BY <1>1, <1>2, ConcatProperties
<1> HIDE DEF s
<1>5. \A i \in 1..Len(s) : i < Len(s) => s[i] \in Leads
  BY <1>2, <1>3, <1>4
<1>6. s[Len(s)] = l
  BY <1>1, <1>3, <1>4
<1>7. QED
  BY <1>3, <1>4, <1>5, <1>6 DEF Led, S, s, l, v

LEMMA ColumnEmission ==
    ASSUME NEW inst \in Instruction, inst.address_mode \in AddressMode,
           inst.memory_action \in {"Read", "Write"},
           inst.address_mode.kind \in MemoryModes \cup {"Immediate"}
    PROVE  Led(inst, EmitUcycs(F, inst.address_mode, inst.memory_action))
<1> DEFINE k == inst.address_mode.kind
           act == inst.memory_action
           offset == inst.address_mode.offset
           l == LastOp(inst)
           fin == FinishAction(F, act)
           emitted == EmitUcycs(F, inst.address_mode, act)
<1>1. offset \in OffsetType
  BY DEF AddressMode
<1>2. k # "Immediate" => fin = << l >>
  BY DEF FinishAction, LastOp
<1>3. /\ ReadOp("Pc", "EaLo", TRUE) \in Leads /\ ReadOp("Pc", "EaHi", TRUE) \in Leads
      /\ ReadOp("Pc", "PtrLo", TRUE) \in Leads /\ ReadOp("PtrLo", "EaLo", TRUE) \in Leads
      /\ ReadOp("PtrLo", "EaHi", FALSE) \in Leads
  BY DEF Leads, PlainLeads
<1>4. /\ ReadAndOffset("EaLo", offset) \in Leads /\ ReadAndOffset("PtrLo", offset) \in Leads
      /\ OffsetOptFix(offset) \in Leads
  BY <1>1 DEF Leads
<1>5. /\ << >> \in Seq(Leads)
      /\ \A a \in Leads : << a >> \in Seq(Leads)
      /\ \A a, b \in Leads : << a, b >> \in Seq(Leads)
      /\ \A s, t \in Seq(Leads) : s \o t \in Seq(Leads)
  BY EmptySeq, Tuples, ConcatProperties
<1> HIDE DEF fin, l, emitted
<1>6. CASE k = "Immediate"
  <2>1. emitted = << ReadOp("Pc", "Op0", TRUE) >> /\ l = ReadOp("Pc", "Op0", TRUE)
    BY <1>6 DEF EmitUcycs, EmitImmediate, LastOp, emitted, l
  <2>2. emitted = << >> \o << l >>
    BY <2>1
  <2>3. QED
    BY <1>5, <2>2, LedBy DEF emitted, l
<1>7. CASE k = "DirectPage"
  <2> DEFINE u == << ReadOp("Pc", "EaLo", TRUE) >>
             v == IF offset # "None" THEN << ReadAndOffset("EaLo", offset) >> ELSE << >>
  <2>1. emitted = (u \o v) \o fin
    BY <1>7 DEF EmitUcycs, EmitDp, emitted, fin
  <2>2. u \o v \in Seq(Leads)
    BY <1>3, <1>4, <1>5
  <2> HIDE DEF u, v
  <2>3. QED
    BY <1>2, <1>7, <2>1, <2>2, LedBy DEF emitted, l
<1>8. CASE k = "Absolute"
  <2> DEFINE u == << ReadOp("Pc", "EaLo", TRUE), ReadOp("Pc", "EaHi", TRUE) >>
             v == IF offset # "None" THEN << OffsetOptFix(offset) >> ELSE << >>
  <2>1. emitted = (u \o v) \o fin
    BY <1>8 DEF EmitUcycs, EmitAbsolute, emitted, fin
  <2>2. u \o v \in Seq(Leads)
    BY <1>3, <1>4, <1>5
  <2> HIDE DEF u, v
  <2>3. QED
    BY <1>2, <1>8, <2>1, <2>2, LedBy DEF emitted, l
<1>9. CASE k = "DpIndirect"
  <2> DEFINE u == << ReadOp("Pc", "PtrLo", TRUE) >>
             v == IF offset = "X" THEN << ReadAndOffset("PtrLo", offset) >> ELSE << >>
             w == << ReadOp("PtrLo", "EaLo", TRUE), ReadOp("PtrLo", "EaHi", FALSE) >>
             x == IF offset = "Y" THEN << OffsetOptFix(offset) >> ELSE << >>
  <2>1. emitted = (((u \o v) \o w) \o x) \o fin
    BY <1>9 DEF EmitUcycs, EmitDpInd, emitted, fin
  <2>2. u \in Seq(Leads) /\ v \in Seq(Leads) /\ w \in Seq(Leads) /\ x \in Seq(Leads)
    BY <1>3, <1>4, <1>5
  <2> HIDE DEF u, v, w, x
  <2>3. ((u \o v) \o w) \o x \in Seq(Leads)
    BY <1>5, <2>2
  <2>4. QED
    BY <1>2, <1>9, <2>1, <2>3, LedBy DEF emitted, l
<1>10. QED
  BY <1>6, <1>7, <1>8, <1>9 DEF MemoryModes

\* What is left of such a queue is one again, or empty.
LEMMA LedTail ==
    ASSUME NEW inst, NEW s, Led(inst, s), Len(s) # 1
    PROVE  Led(inst, Tail(s)) /\ Len(Tail(s)) = Len(s) - 1 /\ Head(s) \in Leads
<1> DEFINE S == Leads \cup {LastOp(inst)}
           t == Tail(s)
<1>1. s \in Seq(S) /\ Len(s) \in Nat /\ Len(s) > 1 /\ s # << >>
  <2>1. s \in Seq(S) /\ Len(s) > 0
    BY DEF Led
  <2> HIDE DEF S
  <2>2. Len(s) \in Nat
    BY <2>1, LenProperties
  <2>3. s # << >>
    BY <2>1, EmptySeq
  <2> DEFINE n == Len(s)
  <2>4. n \in Nat /\ n > 0 /\ n # 1
    BY <2>1, <2>2
  <2> HIDE DEF n
  <2>5. n > 1
    BY <2>4
  <2>6. QED
    BY <2>1, <2>2, <2>3, <2>5 DEF n
<1>2. /\ t \in Seq(S) /\ Len(t) = Len(s) - 1 /\ Head(s) = s[1]
      /\ \A i \in 1..Len(t) : t[i] = s[i + 1]
  BY <1>1, HeadTailProperties
<1> HIDE DEF t
<1>3. \A i \in 1..Len(t) : i < Len(t) => t[i] \in Leads
  BY <1>1, <1>2 DEF Led
<1>4. t[Len(t)] = LastOp(inst)
  <2>1. Len(t) \in 1..Len(t) /\ Len(t) + 1 = Len(s)
    BY <1>1, <1>2
  <2>2. QED
    BY <1>2, <2>1 DEF Led
<1>5. Head(s) \in Leads
  BY <1>1, <1>2 DEF Led
<1>6. Len(t) > 0
  BY <1>1, <1>2
<1>7. Led(inst, t)
  BY <1>2, <1>3, <1>4, <1>6 DEF Led, S
<1>8. QED
  BY <1>2, <1>5, <1>7 DEF t

\* Executing an op of such a queue: the last one ends it, and so does the access before
\* the last of an indexed read that does not carry.
LEMMA ColumnQueue ==
    ASSUME IInv, HistoryInv, current_inst # NoInst, ~IsEmpty(ucycs), Column,
           Led(current_inst, ucycs.todo), NEW crossed, NEW taken,
           NEW after, after = AfterAlu(FrontOp(ucycs), Pop(ucycs), crossed, taken)
    PROVE  LET op == FrontOp(ucycs)
               s == ucycs.todo
               t == after.todo
           IN  IF Len(s) = 1 THEN op = LastOp(current_inst) /\ t = << >>
               ELSE /\ op \in Leads
                    /\ \/ t = Tail(s) /\ Led(current_inst, t) /\ Len(t) = Len(s) - 1
                       \/ /\ t = << >> /\ op.alu.op = "OffsetWithExtraCycle"
                          /\ current_inst.memory_action = "Read"
<1> DEFINE op == FrontOp(ucycs)
           s == ucycs.todo
           t == after.todo
           act == current_inst.memory_action
<1>1. TapeOK(ucycs)
  BY DEF IInv, QueueInv
<1>2. op = s[1] /\ s \in Seq(MicroOp) /\ s # << >> /\ Len(s) \in Nat \ {0}
  BY <1>1, TapeFacts
<1>3. /\ op.alu.op \notin {"Jam", "Branch", "OffsetWithExtraCycle", "FixPtr"} => t = Tail(s)
  BY <1>1, QueueAfter
<1>4. CASE Len(s) = 1
  <2>1. op = LastOp(current_inst)
    BY <1>2, <1>4 DEF Led
  <2>2. op.alu.op = "None"
    BY <2>1 DEF LastOp, AluWrite, ReadOp, Op, Alu
  <2>3. Tail(s) = << >>
    BY <1>2, <1>4, TailOfOne DEF Size
  <2>4. QED
    BY <1>3, <1>4, <2>1, <2>2, <2>3
<1>5. CASE Len(s) # 1
  <2>1. Led(current_inst, Tail(s)) /\ Len(Tail(s)) = Len(s) - 1 /\ Head(s) \in Leads
    BY <1>5, LedTail
  <2>2. Head(s) = s[1]
    BY <1>2
  <2>3. op \in Leads
    BY <1>2, <2>1, <2>2
  <2>4. op.alu.op \in {"None", "AddOffset", "OffsetWithExtraCycle"}
    BY <2>3, LeadShapes
  <2> HIDE DEF op, t
  <2>5. CASE op.alu.op # "OffsetWithExtraCycle"
    <3>1. t = Tail(s)
      BY <1>3, <2>4, <2>5
    <3>2. QED
      BY <1>5, <2>1, <2>3, <3>1 DEF op, t
  <2>6. CASE op.alu.op = "OffsetWithExtraCycle"
    <3>1. Running(current_opcode, current_inst, run, s, extra_adc_sbc_cycle)
      BY UnderWay
    <3>2. AllInPlace(current_inst, run.source, s) /\ act \in MemoryAction
      BY <3>1, StartedFacts DEF Running
    <3>3. t = IF Skips(current_opcode, current_inst, crossed) THEN Tail(Tail(s)) ELSE Tail(s)
      BY <1>1, <2>6, <3>2, OffsetAfter DEF op, t
    <3>4. CASE t = Tail(s)
      BY <1>5, <2>1, <2>3, <3>4 DEF op, t
    <3>5. CASE t = Tail(Tail(s)) /\ Skips(current_opcode, current_inst, crossed)
      <4>1. act \in {"Read", "Write"}
        BY ColumnOfTable DEF HistoryInv, Column
      <4>2. act # "Write"
        BY <3>5 DEF Skips, Dummy
      <4>3. act = "Read"
        BY <4>1, <4>2
      <4>4. 1 \in 1..Len(s)
        BY <1>2
      <4>5. InPlace(current_inst, run.source, s, 1)
        BY <3>2, <4>4 DEF AllInPlace
      <4>6. Len(s) = 1 + 1
        BY <1>2, <2>6, <4>3, <4>5 DEF InPlace, op
      <4>7. Tail(s) \in Seq(MicroOp) /\ Size(Tail(s)) = 1
        <5>1. Tail(s) \in Seq(MicroOp)
          BY <1>2, HeadTailProperties
        <5>2. Len(Tail(s)) = 1
          BY <2>1, <4>6
        <5>3. QED
          BY <5>1, <5>2 DEF Size
      <4>8. t = << >>
        BY <3>5, <4>7, TailOfOne
      <4>9. QED
        BY <1>5, <2>3, <2>6, <4>3, <4>8 DEF op, t
    <3>6. QED
      BY <3>3, <3>4, <3>5
  <2>7. QED
    BY <2>5, <2>6
<1>6. QED
  BY <1>4, <1>5

-----------------------------------------------------------------------------
(* The steps of a test case.                                               *)

\* What executing an op comes to, with the byte the bus answers
LEMMA ExecuteGives ==
    ASSUME TestInv, ExecuteData(QuietLines, Answers)
    PROVE  LET op == FrontOp(ucycs)
               addr == AccessAddress(BeforeAccess(core, op), op)
           IN  \E byte \in Byte :
                  LET done == AfterAccess(BeforeAccess(core, op), op, byte)
                      e == AluEffect(done, op)
                  IN  /\ e \in Core
                      /\ ucycs' = AfterAlu(op, Pop(ucycs), Crosses(op, done), Taken(op, done))
                      /\ core' = IF IsEmpty(ucycs') THEN Retire(e) ELSE e
                      /\ access' = [addr |-> addr, data |-> done.data, vpa |-> op.bus.vpa,
                                    read |-> op.bus.read]
<1> DEFINE op == FrontOp(ucycs)
           ready == BeforeAccess(core, op)
           addr == AccessAddress(ready, op)
<1>1. current_inst # NoInst /\ ~IsEmpty(ucycs)
  BY DEF ExecuteData
<1>2. PICK byte \in IF op.bus.read THEN Answers[op.local_latch][addr] ELSE {0} :
          LET done == AfterAccess(ready, op, byte)
              e == AluEffect(done, op)
          IN  /\ ExecuteMicroOp(op, Crosses(op, done), Taken(op, done), Pulled(op, done))
              /\ core' = IF IsEmpty(ucycs') THEN Retire(e) ELSE e
              /\ Accesses(addr, done.data, op.bus.vpa, op.bus.read)
  BY DEF ExecuteData
<1>3. IInv /\ HistoryInv /\ DataInv /\ entry \in Entries
  BY DEF TestInv
<1>4. core \in Core /\ current_opcode \in 0..255
  BY <1>3 DEF DataInv, IInv, StateTypeOK
<1>5. /\ op \in MicroOp /\ op \in Builds \cup Indexes \cup Increments \cup Others
      /\ Fitting(op, core.ea) /\ op.bus.addr \in Addressable
      /\ op.alu.op = "SetPc" => core.targets # << >>
  BY <1>1, <1>3, FrontFacts
<1> HIDE DEF op
<1>6. \A b \in Byte : Executed(op, addr, AfterAccess(ready, op, b),
                                AluEffect(AfterAccess(ready, op, b), op))
  BY <1>4, <1>5, OpMade
<1>7. byte \in Byte
  <2>1. addr \in Effective \cup {-1} /\ Answering(Answers)
    BY <1>3, <1>6, ByteRange, TestAnswers DEF Executed
  <2>2. op.local_latch \in Latch
    BY <1>5 DEF MicroOp
  <2>3. /\ op.bus.read => byte \in Answers[op.local_latch][addr]
        /\ ~op.bus.read => byte = 0
    BY <1>2
  <2> HIDE DEF addr
  <2>4. QED
    BY <2>1, <2>2, <2>3, ByteRange DEF Answering
<1> DEFINE done == AfterAccess(ready, op, byte)
           e == AluEffect(done, op)
<1>8. e \in Core
  BY <1>6, <1>7 DEF Executed
<1>9. /\ ExecuteMicroOp(op, Crosses(op, done), Taken(op, done), Pulled(op, done))
      /\ core' = IF IsEmpty(ucycs') THEN Retire(e) ELSE e
      /\ Accesses(addr, done.data, op.bus.vpa, op.bus.read)
  BY <1>2
<1> HIDE DEF done, e, addr
<1>10. ucycs' = AfterAlu(op, Pop(ucycs), Crosses(op, done), Taken(op, done))
  BY <1>9 DEF ExecuteMicroOp
<1>11. access' = [addr |-> addr, data |-> done.data, vpa |-> op.bus.vpa, read |-> op.bus.read]
  BY <1>9 DEF Accesses
<1>12. QED
  BY <1>7, <1>8, <1>9, <1>10, <1>11 DEF op, ready, done, e, addr

SecondByte == (entry.pc + 1) % 65536

\* An instruction of the column: until its last op A is what it was, and then it and the
\* flags answer to the byte accessed last.
ColumnHolds ==
    LET s == ucycs.todo
        immediate == current_inst.address_mode.kind = "Immediate"
    IN  /\ Len(log) > 0 /\ Len(log) + Len(s) <= 8
        /\ s # << >> => /\ Led(current_inst, s) /\ core.a = entry.a
                        /\ immediate => Len(log) = 1 /\ Len(s) = 1 /\ core.pc = SecondByte
        /\ s = << >> => /\ Answered(current_inst.mnemonic, Last(log).data, entry.a, core)
                        /\ immediate => /\ Len(log) = 2
                                        /\ log[2].vpa /\ log[2].addr = SecondByte

ColInv ==
    /\ TestInv /\ log \in Seq(Access)
    /\ extra_adc_sbc_cycle => current_inst # NoInst /\ current_inst.mnemonic \in {"Adc", "Sbc"}
    /\ current_inst # NoInst /\ Column => ColumnHolds

\* The access made is the last of the log.
LEMMA Logged ==
    ASSUME log \in Seq(Access), access' \in Access, Continues, Len(log) < MaxCycles
    PROVE  /\ log' = Append(log, access') /\ log' \in Seq(Access)
           /\ Len(log') = Len(log) + 1 /\ log'[Len(log) + 1] = access' /\ Last(log') = access'
<1>1. log' = Append(log, access')
  BY DEF Continues
<1>2. log' \in Seq(Access) /\ Len(log') = Len(log) + 1 /\ log'[Len(log) + 1] = access'
  BY <1>1, AppendProperties
<1>3. QED
  BY <1>1, <1>2 DEF Last

LEMMA LoggedType ==
    ASSUME log \in Seq(Access), access' \in Access, Continues
    PROVE  log' \in Seq(Access)
<1>1. log' = Append(log, access') \/ log' = log
  BY DEF Continues
<1>2. Append(log, access') \in Seq(Access)
  BY AppendProperties
<1>3. QED
  BY <1>1, <1>2

LEMMA ExecuteColumn ==
    ASSUME ColInv, Column, ExecuteData(QuietLines, Answers), TestInv'
    PROVE  log' \in Seq(Access) /\ ColumnHolds'
<1> DEFINE op == FrontOp(ucycs)
           s == ucycs.todo
           t == ucycs'.todo
           inst == current_inst
           immediate == inst.address_mode.kind = "Immediate"
           addr == AccessAddress(BeforeAccess(core, op), op)
<1>1. TestInv /\ log \in Seq(Access)
  BY DEF ColInv
<1>2. IInv /\ HistoryInv /\ core \in Core /\ access' \in Access
  BY <1>1 DEF TestInv, DataInv
<1>3. /\ inst # NoInst /\ ~IsEmpty(ucycs) /\ Continues /\ entry' = entry /\ inst' = inst
      /\ current_opcode' = current_opcode
  BY DEF ExecuteData, Continues
<1>4. ColumnHolds /\ s # << >>
  BY <1>3 DEF ColInv, IsEmpty
<1>5. /\ Len(log) > 0 /\ Len(log) + Len(s) <= 8 /\ Led(inst, s) /\ core.a = entry.a
      /\ immediate => Len(log) = 1 /\ Len(s) = 1 /\ core.pc = SecondByte
  BY <1>4 DEF ColumnHolds
<1>6. /\ inst.memory_action = IF inst.mnemonic = "Sta" THEN "Write" ELSE "Read"
      /\ inst.address_mode.kind \in MemoryModes \cup {"Immediate"}
      /\ inst.mnemonic = "Sta" => ~immediate
  BY <1>2, <1>3, ColumnOfTable DEF HistoryInv, Column, MemoryModes
<1>7. PICK byte \in Byte :
          LET done == AfterAccess(BeforeAccess(core, op), op, byte)
              e == AluEffect(done, op)
          IN  /\ e \in Core
              /\ ucycs' = AfterAlu(op, Pop(ucycs), Crosses(op, done), Taken(op, done))
              /\ core' = IF IsEmpty(ucycs') THEN Retire(e) ELSE e
              /\ access' = [addr |-> addr, data |-> done.data, vpa |-> op.bus.vpa,
                            read |-> op.bus.read]
  BY <1>1, ExecuteGives
<1> DEFINE done == AfterAccess(BeforeAccess(core, op), op, byte)
           e == AluEffect(done, op)
<1>8. IF Len(s) = 1 THEN op = LastOp(inst) /\ t = << >>
      ELSE /\ op \in Leads
           /\ \/ t = Tail(s) /\ Led(inst, t) /\ Len(t) = Len(s) - 1
              \/ t = << >> /\ op.alu.op = "OffsetWithExtraCycle" /\ inst.memory_action = "Read"
  BY <1>2, <1>3, <1>5, <1>7, ColumnQueue
<1>9. Len(log) \in Nat /\ Len(s) \in Nat
  <2>1. s \in Seq(Leads \cup {LastOp(inst)})
    BY <1>5 DEF Led
  <2>2. QED
    BY <1>1, <2>1, LenProperties
<1>10. /\ log' \in Seq(Access) /\ Len(log') = Len(log) + 1
       /\ log'[Len(log) + 1] = access' /\ Last(log') = access'
  <2> DEFINE m == Len(log)
             n == Len(s)
  <2>1. m \in Nat /\ n \in Nat /\ m + n <= 8
    BY <1>5, <1>9
  <2> HIDE DEF m, n
  <2>2. m < MaxCycles
    BY <2>1 DEF MaxCycles
  <2>3. QED
    BY <1>1, <1>2, <1>3, <2>2, Logged DEF m
<1>11. inst.address_mode' = inst.address_mode /\ SecondByte' = SecondByte
  BY <1>3 DEF SecondByte
<1>12. ASSUME t = << >>, Answered(inst.mnemonic, access'.data, core.a, core'),
              immediate => Len(log) = 1 /\ access'.vpa /\ access'.addr = SecondByte
       PROVE  ColumnHolds'
  <2>1. Len(t) = 0
    BY <1>12
  <2>2. Len(log') > 0 /\ Len(log') + Len(t) <= 8
    <3> DEFINE m == Len(log)
               n == Len(s)
    <3>1. m \in Nat /\ n \in Nat /\ m > 0 /\ m + n <= 8 /\ n > 0
      <4>1. n > 0
        BY <1>5 DEF Led
      <4> HIDE DEF s
      <4>2. QED
        BY <1>5, <1>9, <4>1
    <3>2. Len(log') = m + 1
      BY <1>10
    <3> HIDE DEF m, n, t
    <3>3. m + 1 > 0 /\ (m + 1) + 0 <= 8
      BY ONLY <3>1
    <3>4. QED
      BY <2>1, <3>2, <3>3
  <2>3. Answered(inst'.mnemonic, Last(log').data, entry'.a, core')
    BY <1>3, <1>5, <1>10, <1>12
  <2>4. inst'.address_mode.kind = "Immediate" =>
            Len(log') = 2 /\ log'[2].vpa /\ log'[2].addr = SecondByte'
    <3> SUFFICES ASSUME immediate
                 PROVE  Len(log') = 2 /\ log'[2].vpa /\ log'[2].addr = SecondByte'
      BY <1>11
    <3>1. Len(log) = 1 /\ access'.vpa /\ access'.addr = SecondByte
      BY <1>12
    <3>2. Len(log') = 2 /\ log'[2] = access'
      BY <1>10, <3>1
    <3>3. QED
      BY <1>11, <3>1, <3>2
  <2>5. ucycs'.todo = << >>
    BY <1>12
  <2> HIDE DEF t
  <2>6. QED
    BY <2>2, <2>3, <2>4, <2>5, Zenon DEF ColumnHolds, t
<1>13. CASE Len(s) = 1
  <2>1. op = LastOp(inst) /\ t = << >>
    BY <1>8, <1>13
  <2>2. /\ e.a = core.a
        /\ inst.memory_action # "Write" => done.data = byte /\ e.op0 = byte
        /\ inst.memory_action = "Write" => done.data = core.a
    BY <1>2, <1>6, <2>1, LastDoes
  <2>3. immediate => op.bus.vpa = TRUE /\ addr = core.pc
    <3> SUFFICES ASSUME immediate PROVE op.bus.vpa = TRUE /\ addr = core.pc
      OBVIOUS
    <3>1. op = ReadOp("Pc", "Op0", TRUE)
      BY <2>1 DEF LastOp
    <3> HIDE DEF op
    <3>2. /\ op.bus.vpa = TRUE /\ op.bus.addr = "Pc" /\ op.bus.read = TRUE
          /\ op.alu.op = "None"
      BY <3>1 DEF ReadOp, Op, Cycle, Alu
    <3>3. BeforeAccess(core, op) = core
      BY <3>2 DEF BeforeAccess
    <3>4. core.pc \in Int
      <4>1. core \in Core
        BY <1>2
      <4>2. core.pc \in Address
        BY ONLY <4>1, CoreTypes
      <4>3. QED
        BY <4>2 DEF Address
    <3>5. AccessAddress(core, op) = core.pc
      BY <3>2, <3>4 DEF AccessAddress, AddressOf
    <3>6. QED
      BY <3>2, <3>3, <3>5
  <2>4. core' = Retire(e) /\ access'.data = done.data
        /\ (immediate => access'.vpa /\ access'.addr = SecondByte)
    <3>1. IsEmpty(ucycs')
      BY <2>1 DEF IsEmpty
    <3> HIDE DEF done, addr
    <3>2. core' = Retire(e)
      BY <1>7, <3>1 DEF done
    <3>3. access' = [addr |-> addr, data |-> done.data, vpa |-> op.bus.vpa, read |-> op.bus.read]
      BY <1>7 DEF done
    <3> HIDE DEF e, op
    <3>4. QED
      BY <1>5, <2>3, <3>2, <3>3
  <2>5. e \in Core
    BY <1>7
  <2> HIDE DEF done, e, addr, op, s, t
  <2>6. IF inst.mnemonic = "Sta" THEN done.data = e.a ELSE done.data = e.op0
    BY <1>6, <2>2
  <2>7. Answered(inst.mnemonic, done.data, core.a, core')
    BY <1>6, <2>2, <2>4, <2>5, <2>6, ColumnEffect
  <2>8. Answered(inst.mnemonic, access'.data, core.a, core')
    BY <2>4, <2>7
  <2>9. immediate => Len(log) = 1 /\ access'.vpa /\ access'.addr = SecondByte
    BY <1>5, <2>4
  <2>10. ColumnHolds'
    BY <1>12, <2>1, <2>8, <2>9 DEF t
  <2>11. QED
    BY <1>10, <2>10
<1>14. CASE Len(s) # 1
  <2>1. op \in Leads /\ ~immediate
    BY <1>5, <1>8, <1>14
  <2>2. e.a = core.a /\ done.data = byte /\ (op.alu.op = "OffsetWithExtraCycle" => e.op0 = byte)
    BY <1>2, <2>1, LeadKeepsA
  <2>3. access'.data = byte
    <3> HIDE DEF addr
    <3>1. access' = [addr |-> addr, data |-> done.data, vpa |-> op.bus.vpa, read |-> op.bus.read]
      BY <1>7 DEF done
    <3> HIDE DEF done, op
    <3>2. QED
      BY <2>2, <3>1
  <2>4. CASE t = Tail(s) /\ Led(inst, t) /\ Len(t) = Len(s) - 1
    <3>1. t # << >>
      <4>1. Len(t) > 0
        BY <2>4 DEF Led
      <4>2. Len(<< >>) = 0
        BY EmptySeq
      <4> HIDE DEF t
      <4>3. QED
        BY <4>1, <4>2
    <3>2. core' = e
      BY <1>7, <3>1 DEF IsEmpty, t
    <3>3. Len(log') > 0 /\ Len(log') + Len(t) <= 8
      <4> DEFINE m == Len(log)
                 n == Len(s)
      <4>1. m \in Nat /\ n \in Nat /\ m > 0 /\ m + n <= 8
        BY <1>5, <1>9
      <4>2. Len(log') = m + 1 /\ Len(t) = n - 1
        BY <1>10, <2>4
      <4> HIDE DEF m, n, t
      <4>3. m + 1 > 0 /\ (m + 1) + (n - 1) <= 8
        BY ONLY <4>1
      <4>4. QED
        BY <4>2, <4>3
    <3> HIDE DEF e
    <3>4. Led(inst', t) /\ core'.a = entry'.a
      BY <1>3, <1>5, <2>2, <2>4, <3>2
    <3>5. inst'.address_mode.kind # "Immediate"
      BY <1>3, <2>1
    <3>6. ColumnHolds'
      BY <3>1, <3>3, <3>4, <3>5 DEF ColumnHolds
    <3>7. QED
      BY <1>10, <3>6
  <2>5. CASE t = << >> /\ op.alu.op = "OffsetWithExtraCycle" /\ inst.memory_action = "Read"
    <3>1. core' = Retire(e) /\ e \in Core
      BY <1>7, <2>5 DEF IsEmpty
    <3> HIDE DEF done, e, addr, op, s, t
    <3>2. IF inst.mnemonic = "Sta" THEN byte = e.a ELSE byte = e.op0
      BY <1>6, <2>2, <2>5
    <3>3. Answered(inst.mnemonic, byte, core.a, core')
      BY <1>6, <2>2, <3>1, <3>2, ColumnEffect
    <3>4. ColumnHolds'
      BY <1>12, <2>1, <2>3, <2>5, <3>3
    <3>5. QED
      BY <1>10, <3>4
  <2>6. QED
    BY <1>8, <1>14, <2>4, <2>5
<1>15. QED
  BY <1>13, <1>14

LEMMA FetchColumn ==
    ASSUME TestInv, FirstFetchData(QuietLines, Answers), Column', access' \in Access
    PROVE  log' \in Seq(Access) /\ ColumnHolds'
<1>1. PICK opcode \in Opcode : FetchAndPrepare(opcode)
  BY DEF FirstFetchData, FirstFetch
<1> DEFINE inst == Decode[opcode]
           s == EmitUcycs(F, inst.address_mode, inst.memory_action)
<1>2. /\ current_opcode' = opcode /\ current_inst' = inst /\ ucycs' = PushAll(EmptyTape, s)
      /\ core' = [Scratch(core) EXCEPT !.pc = (@ + 1) % 65536]
      /\ entry' = core /\ log' = << access' >> /\ core \in Core
  <2>1. ucycs = EmptyTape /\ core \in Core
    BY DEF TestInv, IInv, QueueInv, DataInv, FirstFetchData, FirstFetch
  <2>2. QED
    BY <1>1, <2>1 DEF FetchAndPrepare, FirstFetchData, FetchData, Starts
<1>3. InColumn(opcode, inst) /\ inst \in Instruction
  BY <1>2, DecodeAssumption DEF Column
<1>4. /\ inst.memory_action \in {"Read", "Write"} /\ inst.address_mode \in AddressMode
      /\ inst.address_mode.kind \in MemoryModes \cup {"Immediate"}
  BY <1>3, ColumnOfTable DEF Instruction
<1>5. Led(inst, s)
  BY <1>3, <1>4, ColumnEmission
<1>6. s \in Seq(MicroOp) /\ Len(s) <= 7 /\ Len(s) \in Nat
  <2>1. s \in Seq(MicroOp) /\ Len(s) <= 7
    BY EmitFresh DEF Fresh
  <2> HIDE DEF s
  <2>2. QED
    BY <2>1, LenProperties
<1>7. inst.address_mode.kind = "Immediate" => Len(s) = 1
  <2> SUFFICES ASSUME inst.address_mode.kind = "Immediate" PROVE Len(s) = 1
    OBVIOUS
  <2>1. s = << ReadOp("Pc", "Op0", TRUE) >>
    BY DEF EmitUcycs, EmitImmediate
  <2> HIDE DEF s
  <2>2. QED
    BY <2>1
<1> HIDE DEF s, inst
<1>8. ucycs'.todo = s
  BY <1>2, <1>6, ConcatEmptySeq DEF PushAll, EmptyTape
<1>9. core'.a = core.a /\ core'.pc = (core.pc + 1) % 65536
  BY <1>2 DEF Scratch, Core
<1>10. log' \in Seq(Access) /\ Len(log') = 1
  BY <1>2
<1>11. s # << >>
  BY <1>5, EmptySeq DEF Led
<1>12. Len(log') > 0 /\ Len(log') + Len(s) <= 8
  BY <1>6, <1>10
<1>13. Led(current_inst', ucycs'.todo) /\ core'.a = entry'.a
  BY <1>2, <1>5, <1>8, <1>9
<1>14. current_inst'.address_mode.kind = "Immediate" =>
           Len(log') = 1 /\ Len(ucycs'.todo) = 1 /\ core'.pc = SecondByte'
  BY <1>2, <1>7, <1>8, <1>9, <1>10 DEF SecondByte
<1>15. QED
  BY <1>8, <1>10, <1>11, <1>12, <1>13, <1>14 DEF ColumnHolds

LEMMA ColumnStarts == SetupInitial => ColInv
<1> SUFFICES ASSUME SetupInitial PROVE ColInv
  OBVIOUS
<1>1. TestInv
  BY TestInit
<1>2. log = << >> /\ current_inst = NoInst /\ extra_adc_sbc_cycle = FALSE
  BY DEF SetupInitial, Powered
<1>3. log \in Seq(Access)
  BY <1>2, EmptySeq
<1>4. QED
  BY <1>1, <1>2, <1>3 DEF ColInv

LEMMA ColumnNext == ColInv /\ [TestCycle]_allVars => ColInv'
<1> SUFFICES ASSUME ColInv, [TestCycle]_allVars PROVE ColInv'
  OBVIOUS
<1>1. TestInv /\ TestInv' /\ log \in Seq(Access)
  BY TestNext DEF ColInv
<1>2. /\ extra_adc_sbc_cycle =>
            current_inst # NoInst /\ current_inst.mnemonic \in {"Adc", "Sbc"}
      /\ current_inst # NoInst /\ Column => ColumnHolds
  BY DEF ColInv
<1>3. access' \in Access
  BY <1>1 DEF TestInv, DataInv
<1>4. CASE FirstFetchData(QuietLines, Answers)
  <2>1. extra_adc_sbc_cycle' = extra_adc_sbc_cycle /\ current_inst = NoInst /\ log' = << access' >>
    BY <1>4 DEF FirstFetchData, FirstFetch, FetchData, Starts
  <2>2. ~extra_adc_sbc_cycle'
    BY <1>2, <2>1
  <2>3. log' \in Seq(Access)
    BY <1>3, <2>1
  <2>4. Column' => ColumnHolds'
    BY <1>1, <1>3, <1>4, FetchColumn
  <2>5. QED
    BY <1>1, <2>2, <2>3, <2>4 DEF ColInv
<1>5. CASE ExecuteData(QuietLines, Answers)
  <2>1. /\ UNCHANGED << current_inst, current_opcode, extra_adc_sbc_cycle >> /\ Continues
        /\ current_inst # NoInst
    BY <1>5 DEF ExecuteData
  <2>2. log' \in Seq(Access)
    BY <1>1, <1>3, <2>1, LoggedType
  <2>3. Column' => ColumnHolds'
    <3>1. Column' <=> Column
      BY <2>1 DEF Column
    <3>2. QED
      BY <1>1, <1>5, <3>1, ExecuteColumn
  <2>4. QED
    BY <1>1, <1>2, <2>1, <2>2, <2>3 DEF ColInv
<1>6. CASE DecimalCycleData(QuietLines, Answers)
  <2>1. /\ UNCHANGED << current_inst, current_opcode >> /\ Continues
        /\ current_inst # NoInst /\ current_inst.mnemonic \in {"Adc", "Sbc"}
    BY <1>6 DEF DecimalCycleData, DecimalCycle, AtBoundary, DecimalInstruction
  <2>2. log' \in Seq(Access)
    BY <1>1, <1>3, <2>1, LoggedType
  <2>3. ~Column'
    BY <2>1 DEF Column, InColumn
  <2>4. QED
    BY <1>1, <2>1, <2>2, <2>3 DEF ColInv
<1>7. CASE UNCHANGED allVars
  <2>1. UNCHANGED << log, entry, core, ucycs, current_inst, current_opcode, extra_adc_sbc_cycle >>
    BY <1>7 DEF allVars, dataVars, vars, cpuVars
  <2>2. (Column' <=> Column) /\ (ColumnHolds' <=> ColumnHolds)
    BY <2>1 DEF Column, ColumnHolds, SecondByte
  <2>3. QED
    BY <1>1, <1>2, <2>1, <2>2 DEF ColInv
<1>8. QED
  BY <1>4, <1>5, <1>6, <1>7 DEF TestCycle

\* The second byte of a two-byte instruction is the one fetched behind the opcode.
LEMMA SecondFetch ==
    ASSUME Body = log, log \in Seq(Access), Len(log) = 2, log[2].vpa, log[2].addr = SecondByte
    PROVE  InstructionByte(1) = Last(log).data
<1> DEFINE fetches == {i \in 2..Len(Body) : Body[i].vpa /\ Body[i].addr = (entry.pc + 1) % 65536}
<1>1. fetches = {2}
  BY DEF SecondByte
<1>2. Min({2}) = 2
  BY DEF Min
<1>3. InstructionByte(1) = Body[Min(fetches)].data
  BY DEF InstructionByte
<1> HIDE DEF fetches
<1>4. InstructionByte(1) = log[2].data
  BY <1>1, <1>2, <1>3
<1>5. Last(log) = log[2]
  BY DEF Last
<1>6. QED
  BY <1>4, <1>5

LEMMA ColumnAnswers == ColInv => AccumulatorColumn
<1> DEFINE row == MatrixRow(current_opcode)
           byte == IF mode.kind = "Immediate" THEN InstructionByte(1) ELSE FinalAccess.data
           result == CASE row = 1 -> Or(entry.a, byte)
                       [] row = 2 -> And(entry.a, byte)
                       [] row = 3 -> Xor(entry.a, byte)
                       [] row = 6 -> byte
                       [] OTHER -> entry.a
<1> SUFFICES ASSUME ColInv, AtBoundary, current_opcode % 4 = 1,
                    mnemonic \in {AccumulatorOps[i] : i \in 1..8}
             PROVE  /\ row = 5 => FinalAccess.data = entry.a
                    /\ row \notin {4, 8} => core.a = result
                    /\ row \in {1, 2, 3, 6} => /\ "Z" \in core.flags <=> result = 0
                                               /\ "N" \in core.flags <=> result >= 128
                    /\ row = 7 => /\ "Z" \in core.flags <=> entry.a = byte
                                  /\ "C" \in core.flags <=> entry.a >= byte
                                  /\ "N" \in core.flags <=> (entry.a - byte) % 256 >= 128
  BY DEF AccumulatorColumn
<1>1. /\ current_inst # NoInst /\ ucycs.todo = << >>
      /\ current_opcode \in Opcode /\ current_inst = Decode[current_opcode]
      /\ log \in Seq(Access)
  BY DEF AtBoundary, IsEmpty, ColInv, TestInv, HistoryInv
<1>2. mnemonic = AccumulatorOps[row]
  BY <1>1, ColumnAssumption DEF ColumnFacts, mnemonic
<1>3. row \in 1..8
  <2>1. current_opcode \in 0..255
    BY <1>1, DecodeAssumption
  <2>2. current_opcode \div 32 \in 0..7
    BY <2>1
  <2>3. QED
    BY <2>2 DEF MatrixRow
<1> HIDE DEF row
<1>4. /\ row = 1 => mnemonic = "Ora"
      /\ row = 2 => mnemonic = "And"
      /\ row = 3 => mnemonic = "Eor"
      /\ row = 5 => mnemonic = "Sta"
      /\ row = 6 => mnemonic = "Lda"
      /\ row = 7 => mnemonic = "Cmp"
  BY <1>2 DEF AccumulatorOps
<1>5. CASE row \in {4, 8}
  BY <1>5
<1>6. CASE row \in {1, 2, 3, 5, 6, 7}
  <2>1. Column
    BY <1>4, <1>6 DEF Column, InColumn, mnemonic
  <2>2. ColumnHolds
    BY <1>1, <2>1 DEF ColInv
  <2>3. /\ Answered(mnemonic, Last(log).data, entry.a, core)
        /\ mode.kind = "Immediate" => Len(log) = 2 /\ log[2].vpa /\ log[2].addr = SecondByte
    BY <1>1, <2>2 DEF ColumnHolds, mnemonic, mode
  <2>4. Body = log
    <3>1. ~extra_adc_sbc_cycle
      BY <2>1 DEF ColInv, Column, InColumn
    <3>2. QED
      BY <3>1 DEF Body
  <2>5. FinalAccess = Last(log)
    BY <2>4 DEF FinalAccess
  <2>6. byte = Last(log).data
    BY <1>1, <2>3, <2>4, <2>5, SecondFetch
  <2> HIDE DEF byte
  <2>7. Answered(mnemonic, byte, entry.a, core)
    BY <2>3, <2>6
  <2>8. FinalAccess.data = byte
    BY <2>5, <2>6
  <2>9. QED
    BY <1>4, <1>6, <2>7, <2>8 DEF Answered
<1>7. QED
  BY <1>3, <1>5, <1>6

\* Every ORA, AND, EOR, LDA, STA and CMP of column 1, in all of its addressing modes, does
\* what the manual says with the byte its last access transferred, or with the byte behind
\* the opcode, for every flavor, starting registers and bytes read, whether or not its
\* index carries into the high byte: A stays as it was until the last micro-op is done,
\* and the effect is then applied once, to the operand that access left.
THEOREM AccumulatorColumnKept == TestSpec => []AccumulatorColumn
BY ColumnStarts, ColumnNext, ColumnAnswers, PTL DEF TestSpec

-----------------------------------------------------------------------------
(* Read-modify-writes, and the undocumented combinations.                  *)

\* The instructions followed: every read-modify-write of memory, and the others that
\* UndocumentedCombine is about
Modifies(inst) == inst.memory_action = "ReadModifyWrite"
Combining == {"Alr", "Anc", "Sbx", "Arr", "Usbc"}
RowOps == {"Tsb", "Trb", "Asl", "Rol", "Lsr", "Ror", "Inc", "Dec",
           "Slo", "Rla", "Sre", "Rra", "Dcp", "Isc"}
Followed(inst) ==
    LET k == inst.address_mode.kind
        m == inst.mnemonic
    IN  \/ k \in MemoryModes /\ Modifies(inst) /\ m \in RowOps \cup BitOps
        \/ k \in MemoryModes /\ m = "Sax" /\ inst.memory_action = "Write"
        \/ k \in MemoryModes /\ m = "Lax" /\ inst.memory_action = "Read"
        \/ k = "Immediate" /\ m \in Combining /\ inst.memory_action = "Read"

\* Which op stands `left` places before the end of the queue of such an instruction
EarlyLeads ==
    PlainLeads \cup {ReadAndOffset("EaLo", offset) : offset \in OffsetType}
    \cup {ReadAndOffset("PtrLo", offset) : offset \in OffsetType}
Trail(inst) == IF Modifies(inst) THEN 3 ELSE 1
Stands(inst, left, op) ==
    LET trail == Trail(inst)
    IN  /\ left > trail => op \in EarlyLeads
        /\ left = trail => op \in Leads
        /\ left = trail - 1 => op = LastOp(inst)
        /\ Modifies(inst) /\ left = 1 => op = AluModify(~F.RMW_DUMMY_WRITE)
        /\ Modifies(inst) /\ left = 0 => op = AluWrite
Shaped(inst, s) == \A i \in 1..Len(s) : Stands(inst, Len(s) - i, s[i])

\* The same registers, and the operand `byte` in its latch
Alike(c, d) == Within(c, d, {}) /\ d.op0 = c.op0
Held(c, byte) == Within(entry, c, {}) /\ c.op0 = byte

LEMMA WithinUnchanged ==
    ASSUME NEW c, NEW d
    PROVE  Within(c, d, {}) <=> /\ d.a = c.a /\ d.x = c.x /\ d.y = c.y /\ d.s = c.s
                                /\ d.flags = c.flags
BY DEF Within

-----------------------------------------------------------------------------
(* What its ops do.                                                        *)

LEMMA LeadKeeps ==
    ASSUME core \in Core, NEW op \in Leads, NEW byte \in Byte
    PROVE  LET done == AfterAccess(BeforeAccess(core, op), op, byte)
               e == AluEffect(done, op)
           IN  /\ op.bus.read /\ done.data = byte
               /\ Within(core, e, {})
               /\ op.alu.op = "OffsetWithExtraCycle" => e.op0 = byte
<1> DEFINE ready == BeforeAccess(core, op)
           read == WriteLatch([ready EXCEPT !.data = byte], op.local_latch, byte)
           done == AfterAccess(ready, op, byte)
           e == AluEffect(done, op)
<1>1. /\ op.bus.read /\ op.local_latch \in {"EaLo", "EaHi", "PtrLo", "None", "Op0"}
      /\ op.inc_src => op.bus.addr \in {"Pc", "PtrLo"}
      /\ op.alu.op \in {"None", "AddOffset", "OffsetWithExtraCycle"}
      /\ op.alu.op = "AddOffset" => op.alu.latch \in {"EaLo", "PtrLo"}
      /\ op.alu.op = "OffsetWithExtraCycle" => op.local_latch = "Op0" /\ ~op.inc_src
  BY LeadShapes
<1>2. Within(core, ready, {}) /\ DOMAIN ready = DOMAIN core
  BY <1>1 DEF BeforeAccess, Core, Within
<1>3. DOMAIN core = {"a", "x", "y", "s", "pc", "flags",
         "ea", "ptr", "op0", "signed_offset8", "data", "targets"}
  BY DEF Core
<1>4. Within(core, read, {}) /\ DOMAIN read = DOMAIN core
  BY <1>1, <1>2, <1>3 DEF WriteLatch, Within
<1>5. done = IF op.inc_src THEN AddToLatch(read, op.bus.addr, 1) ELSE read
  BY <1>1 DEF AfterAccess
<1> HIDE DEF ready, read, done
<1>6. Within(core, done, {}) /\ DOMAIN done = DOMAIN core
  BY <1>1, <1>3, <1>4, <1>5 DEF AddToLatch, Within
<1>7. Within(core, e, {})
  <2>1. CASE op.alu.op = "None"
    BY <1>6, <2>1 DEF AluEffect
  <2>2. CASE op.alu.op = "AddOffset"
    BY <1>1, <1>3, <1>6, <2>2 DEF AluEffect, AddToLatch, Within
  <2>3. CASE op.alu.op = "OffsetWithExtraCycle"
    BY <1>3, <1>6, <2>3 DEF AluEffect, Within
  <2>4. QED
    BY <1>1, <2>1, <2>2, <2>3
<1>8. done.data = byte /\ (op.alu.op = "OffsetWithExtraCycle" => e.op0 = byte)
  BY LeadKeepsA DEF done, ready
<1>9. QED
  BY <1>1, <1>7, <1>8 DEF done, ready

LEMMA OperandRead ==
    ASSUME core \in Core, NEW op \in {ReadOp("Ea", "Op0", FALSE), ReadOp("Pc", "Op0", TRUE)},
           NEW byte \in Byte
    PROVE  LET done == AfterAccess(BeforeAccess(core, op), op, byte)
               e == AluEffect(done, op)
           IN  /\ op.bus.read /\ op.alu.op = "None" /\ done.data = byte
               /\ Within(core, e, {}) /\ e.op0 = byte
<1> DEFINE done == AfterAccess(BeforeAccess(core, op), op, byte)
           e == AluEffect(done, op)
           c == [core EXCEPT !.data = byte, !.op0 = byte]
<1>1. op.bus.read = TRUE /\ op.local_latch = "Op0" /\ op.alu.op = "None"
      /\ (op.inc_src => op.bus.addr = "Pc")
  BY DEF ReadOp, Op, Cycle, Alu
<1>2. BeforeAccess(core, op) = core
  BY <1>1 DEF BeforeAccess
<1>3. done = IF op.inc_src THEN AddToLatch(c, "Pc", 1) ELSE c
  BY <1>1, <1>2 DEF AfterAccess, WriteLatch
<1>4. e = done
  BY <1>1 DEF AluEffect
<1>5. Within(core, c, {}) /\ c.data = byte /\ c.op0 = byte /\ DOMAIN c = DOMAIN core
  BY DEF Core, Within
<1> HIDE DEF done, e, c
<1>6. LET d == AddToLatch(c, "Pc", 1)
      IN  Within(core, d, {}) /\ d.data = byte /\ d.op0 = byte
  <2>1. AddToLatch(c, "Pc", 1) = [c EXCEPT !.pc = (@ + 1) % 65536]
    BY DEF AddToLatch
  <2>2. DOMAIN core = {"a", "x", "y", "s", "pc", "flags",
         "ea", "ptr", "op0", "signed_offset8", "data", "targets"}
    BY DEF Core
  <2>3. QED
    BY <1>5, <2>1, <2>2 DEF Within
<1>7. Within(core, done, {}) /\ done.data = byte /\ done.op0 = byte
  BY <1>3, <1>5, <1>6
<1>8. QED
  BY <1>1, <1>4, <1>7 DEF done, e

LEMMA StoredOperand ==
    ASSUME NEW c, NEW inst, Modifies(inst), inst.mnemonic \in RowOps \cup BitOps
    PROVE  PrepareStore(inst, c) = [c EXCEPT !.data = c.op0]
<1>1. inst.memory_action = "ReadModifyWrite"
  BY DEF Modifies
<1>2. inst.mnemonic \notin {"Sta", "Pha", "Stx", "Phx", "Sty", "Phy", "Stz", "Php", "Sax", "Sha",
                           "Tas", "Shy", "Shx"}
  BY DEF RowOps, BitOps
<1>3. QED
  BY <1>1, <1>2 DEF PrepareStore

LEMMA ModifyDone ==
    ASSUME core \in Core, Modifies(current_inst), current_inst.mnemonic \in RowOps \cup BitOps, NEW read \in BOOLEAN, NEW byte \in Byte
    PROVE  LET op == AluModify(read)
               done == AfterAccess(BeforeAccess(core, op), op, byte)
               e == AluEffect(done, op)
           IN  /\ op.bus.read = read /\ op.alu.op = "Modify"
               /\ ~read => done.data = core.op0
               /\ done \in Core /\ Alike(core, done)
               /\ e = ModifyEffect(F, current_inst.mnemonic, current_opcode, done)
<1> DEFINE op == AluModify(read)
           ready == BeforeAccess(core, op)
           done == AfterAccess(ready, op, byte)
           e == AluEffect(done, op)
<1>1. /\ op.bus.read = read /\ op.inc_src = FALSE /\ op.local_latch = "None"
      /\ op.alu.op = "Modify"
  BY DEF AluModify, Op, Cycle, Alu
<1>2. e = ModifyEffect(F, current_inst.mnemonic, current_opcode, done)
  BY <1>1 DEF AluEffect
<1>3. core.op0 \in Byte
  BY CoreTypes
<1>4. done = [core EXCEPT !.data = IF read THEN byte ELSE core.op0]
  <2>1. CASE read
    <3>1. ready = core
      BY <1>1, <2>1 DEF BeforeAccess
    <3> HIDE DEF op
    <3>2. done = [core EXCEPT !.data = byte]
      BY <1>1, <2>1, <3>1 DEF AfterAccess, WriteLatch
    <3>3. QED
      BY <2>1, <3>2
  <2>2. CASE ~read
    <3>1. PrepareStore(current_inst, core) = [core EXCEPT !.data = core.op0]
      BY StoredOperand
    <3>2. ready = [core EXCEPT !.data = core.op0]
      BY <1>1, <2>2, <3>1 DEF BeforeAccess
    <3> HIDE DEF op, ready
    <3>3. done = [ready EXCEPT !.data = ready.data]
      BY <1>1, <2>2 DEF AfterAccess, ReadLatch
    <3>4. [ready EXCEPT !.data = ready.data] = [core EXCEPT !.data = core.op0]
      BY <3>2 DEF Core
    <3>5. QED
      BY <2>2, <3>3, <3>4
  <2>3. QED
    BY <2>1, <2>2
<1> HIDE DEF op, ready, done, e
<1>5. done \in Core /\ Alike(core, done) /\ (~read => done.data = core.op0)
  BY <1>3, <1>4 DEF Core, Alike, Within
<1>6. QED
  BY <1>1, <1>2, <1>5 DEF op, ready, done, e

LEMMA WriteDone ==
    ASSUME core \in Core, NEW byte \in Byte,
           \/ Modifies(current_inst) /\ current_inst.mnemonic \in RowOps \cup BitOps
           \/ (current_inst.mnemonic = "Sax" /\ current_inst.memory_action = "Write")
    PROVE  LET op == AluWrite
               done == AfterAccess(BeforeAccess(core, op), op, byte)
               e == AluEffect(done, op)
           IN  /\ ~op.bus.read /\ op.alu.op = "None"
               /\ done.data = IF Modifies(current_inst) THEN core.op0 ELSE And(core.a, core.x)
               /\ e \in Core /\ Alike(core, e)
<1> DEFINE op == AluWrite
           ready == BeforeAccess(core, op)
           done == AfterAccess(ready, op, byte)
           e == AluEffect(done, op)
           stored == IF Modifies(current_inst) THEN core.op0 ELSE And(core.a, core.x)
<1>1. op.bus.read = FALSE /\ op.inc_src = FALSE /\ op.local_latch = "None" /\ op.alu.op = "None"
  BY DEF AluWrite, Op, Cycle, Alu
<1>2. stored \in Byte
  BY CoreTypes, LogicBytes
<1>3. PrepareStore(current_inst, core) = [core EXCEPT !.data = stored]
  <2>1. CASE Modifies(current_inst)
    <3>1. current_inst.mnemonic \in RowOps \cup BitOps
      BY <2>1 DEF Modifies
    <3>2. PrepareStore(current_inst, core) = [core EXCEPT !.data = core.op0]
      BY <2>1, <3>1, StoredOperand
    <3>3. stored = core.op0
      BY <2>1
    <3> HIDE DEF stored
    <3>4. QED
      BY <3>2, <3>3
  <2>2. CASE ~Modifies(current_inst)
    <3>1. current_inst.mnemonic = "Sax" /\ current_inst.memory_action = "Write"
      BY <2>2
    <3>2. PrepareStore(current_inst, core) = [core EXCEPT !.data = And(core.a, core.x)]
      BY <3>1 DEF PrepareStore
    <3>3. QED
      BY <2>2, <3>2
  <2>3. QED
    BY <2>1, <2>2
<1> HIDE DEF op, stored
<1>4. ready = [core EXCEPT !.data = stored]
  BY <1>1, <1>3 DEF BeforeAccess
<1> HIDE DEF ready
<1>5. done = [ready EXCEPT !.data = ready.data]
  BY <1>1 DEF AfterAccess, ReadLatch
<1>6. done = [core EXCEPT !.data = stored]
  BY <1>4, <1>5 DEF Core
<1>7. e = done
  BY <1>1 DEF AluEffect
<1> HIDE DEF done, e
<1>8. done \in Core /\ Alike(core, done) /\ done.data = stored
  BY <1>2, <1>6 DEF Core, Alike, Within
<1>9. QED
  BY <1>1, <1>7, <1>8 DEF op, ready, done, e, stored

-----------------------------------------------------------------------------
(* The queue of such an instruction.                                       *)

LEMMA ShapedTail ==
    ASSUME NEW inst, NEW s \in Seq(MicroOp), s # << >>, Shaped(inst, s)
    PROVE  /\ Stands(inst, Len(s) - 1, s[1])
           /\ Tail(s) \in Seq(MicroOp) /\ Len(Tail(s)) = Len(s) - 1 /\ Shaped(inst, Tail(s))
<1> DEFINE t == Tail(s)
<1>1. Len(s) \in Nat \ {0}
  BY EmptySeq, LenProperties
<1>2. t \in Seq(MicroOp) /\ Len(t) = Len(s) - 1 /\ \A i \in 1..Len(t) : t[i] = s[i + 1]
  BY HeadTailProperties
<1> HIDE DEF t
<1>3. Stands(inst, Len(s) - 1, s[1])
  BY <1>1 DEF Shaped
<1>4. ASSUME NEW i \in 1..Len(t) PROVE Stands(inst, Len(t) - i, t[i])
  <2>1. i + 1 \in 1..Len(s) /\ Len(s) - (i + 1) = Len(t) - i /\ t[i] = s[i + 1]
    BY <1>1, <1>2
  <2>2. Stands(inst, Len(s) - (i + 1), s[i + 1])
    BY <2>1 DEF Shaped
  <2>3. QED
    BY <2>1, <2>2
<1>5. QED
  BY <1>2, <1>3, <1>4 DEF Shaped, t

\* Leads in front of a shaped queue that holds at least the trail
LEMMA ShapedBy ==
    ASSUME NEW inst, NEW u \in Seq(EarlyLeads), NEW v \in Seq(MicroOp), Shaped(inst, v),
           Len(v) >= Trail(inst)
    PROVE  Shaped(inst, u \o v) /\ Len(u \o v) >= Trail(inst)
<1> DEFINE s == u \o v
           trail == Trail(inst)
<1>1. Len(u) \in Nat /\ Len(v) \in Nat
  BY LenProperties
<1>1a. trail \in {1, 3} /\ (Modifies(inst) => trail = 3) /\ Len(v) >= trail
  BY DEF Trail
<1> HIDE DEF trail
<1>2. /\ Len(s) = Len(u) + Len(v)
      /\ \A i \in 1..Len(s) : s[i] = IF i <= Len(u) THEN u[i] ELSE v[i - Len(u)]
  <2>1. u \in Seq(EarlyLeads \cup MicroOp) /\ v \in Seq(EarlyLeads \cup MicroOp)
    BY SeqMonotonic
  <2>2. QED
    BY <2>1, ConcatProperties
<1> HIDE DEF s
<1>3. ASSUME NEW i \in 1..Len(s) PROVE Stands(inst, Len(s) - i, s[i])
  <2>1. CASE i <= Len(u)
    <3>1. u[i] \in EarlyLeads /\ s[i] = u[i]
      <4>1. i \in 1..Len(u)
        BY <1>1, <1>2, <2>1
      <4>2. QED
        BY <1>2, <2>1, <4>1, ElementOfSeq
    <3>2. EarlyLeads \subseteq Leads
      BY DEF EarlyLeads, Leads
    <3> DEFINE left == Len(s) - i
    <3>3. left \in Int /\ left >= trail
      BY <1>1, <1>1a, <1>2, <2>1
    <3> HIDE DEF left
    <3>4. left # trail - 1 /\ (Modifies(inst) => left # 1 /\ left # 0)
      BY <1>1a, <3>3
    <3>5. QED
      BY <3>1, <3>2, <3>4 DEF Stands, trail, left
  <2>2. CASE ~(i <= Len(u))
    <3>1. i - Len(u) \in 1..Len(v) /\ Len(v) - (i - Len(u)) = Len(s) - i
      BY <1>1, <1>2, <2>2
    <3>2. s[i] = v[i - Len(u)]
      BY <1>2, <2>2
    <3>3. Stands(inst, Len(v) - (i - Len(u)), v[i - Len(u)])
      BY <3>1 DEF Shaped
    <3>4. QED
      BY <3>1, <3>2, <3>3
  <2>3. QED
    BY <2>1, <2>2
<1>4. Len(s) >= trail
  BY <1>1, <1>1a, <1>2
<1>5. QED
  BY <1>3, <1>4 DEF Shaped, s, trail

LEMMA Prepended ==
    ASSUME NEW S, NEW x \in S, NEW s \in Seq(S), NEW t, t = << x >> \o s
    PROVE  /\ t \in Seq(S) /\ Len(t) = Len(s) + 1 /\ t[1] = x
           /\ \A i \in 1..Len(s) : t[i + 1] = s[i]
<1> DEFINE u == << x >>
<1>1. u \in Seq(S) /\ Len(u) = 1 /\ u[1] = x
  OBVIOUS
<1>2. Len(s) \in Nat
  BY LenProperties
<1>2a. t = u \o s
  OBVIOUS
<1> HIDE DEF u
<1>3. /\ t \in Seq(S) /\ Len(t) = Len(u) + Len(s)
      /\ \A i \in 1..Len(t) : t[i] = IF i <= Len(u) THEN u[i] ELSE s[i - Len(u)]
  BY <1>1, <1>2a, ConcatProperties
<1>4. t[1] = x
  BY <1>1, <1>2, <1>3
<1>5. ASSUME NEW i \in 1..Len(s) PROVE t[i + 1] = s[i]
  <2>1. i + 1 \in 1..Len(t) /\ ~(i + 1 <= Len(u)) /\ i + 1 - Len(u) = i
    BY <1>1, <1>2, <1>3
  <2>2. QED
    BY <1>3, <2>1
<1>6. QED
  BY <1>1, <1>2, <1>3, <1>4, <1>5

\* The ops from the dummy cycle of an index on
LEMMA ShapedEnds ==
    ASSUME NEW inst, inst.memory_action \in MemoryAction, NEW offset \in OffsetType,
           inst.address_mode.kind # "Immediate"
    PROVE  LET end == FinishAction(F, inst.memory_action)
               fixed == << OffsetOptFix(offset) >> \o end
           IN  /\ Shaped(inst, end) /\ Shaped(inst, fixed)
               /\ end \in Seq(MicroOp) /\ fixed \in Seq(MicroOp)
               /\ Len(end) >= Trail(inst)
               /\ Len(fixed) >= Trail(inst)
<1> DEFINE x == OffsetOptFix(offset)
           r == ReadOp("Ea", "Op0", FALSE)
           m == AluModify(~F.RMW_DUMMY_WRITE)
           w == AluWrite
           end == FinishAction(F, inst.memory_action)
           fixed == << x >> \o end
<1>1. x \in Leads
  BY DEF Leads
<1>2. x \in MicroOp /\ r \in MicroOp /\ m \in MicroOp /\ w \in MicroOp
  <2>1. F.RMW_DUMMY_WRITE \in BOOLEAN
    BY FlavorAssumption DEF FlavorType
  <2>2. QED
    BY <2>1 DEF MicroOp, OffsetOptFix, ReadOp, AluModify, AluWrite, Op, Cycle, Alu, BusCycleType,
                AluOpType, Latch, OffsetType
<1>3. CASE Modifies(inst)
  <2>1. end = << r, m, w >> /\ LastOp(inst) = r
    BY <1>3 DEF FinishAction, LastOp, Modifies
  <2> HIDE DEF x, r, m, w, end
  <2>2. end \in Seq(MicroOp) /\ Len(end) = 3 /\ end[1] = r /\ end[2] = m /\ end[3] = w
    BY <1>2, <2>1
  <2>2b. fixed = << x >> \o end
    OBVIOUS
  <2> HIDE DEF fixed
  <2>2a. /\ fixed \in Seq(MicroOp) /\ Len(fixed) = Len(end) + 1 /\ fixed[1] = x
         /\ \A i \in 1..Len(end) : fixed[i + 1] = end[i]
    <3>1. x \in MicroOp /\ end \in Seq(MicroOp)
      BY <1>2, <2>2
    <3>2. QED
      BY ONLY <2>2b, <3>1, Prepended
  <2>3. /\ Len(end) = 3 /\ end[1] = r /\ end[2] = m /\ end[3] = w
        /\ Len(fixed) = 4 /\ fixed[1] = x /\ fixed[2] = r /\ fixed[3] = m /\ fixed[4] = w
    <3>1. fixed[1 + 1] = end[1] /\ fixed[2 + 1] = end[2] /\ fixed[3 + 1] = end[3]
      BY <2>2, <2>2a
    <3>2. QED
      BY <2>2, <2>2a, <3>1
  <2>4. Stands(inst, 3, x) /\ Stands(inst, 2, r) /\ Stands(inst, 1, m) /\ Stands(inst, 0, w)
    BY <1>1, <1>3, <2>1 DEF Stands, Trail, m, w
  <2>5. Shaped(inst, end)
    BY <2>3, <2>4 DEF Shaped
  <2>6. Shaped(inst, fixed)
    BY <2>3, <2>4 DEF Shaped
  <2>7. end \in Seq(MicroOp) /\ fixed \in Seq(MicroOp)
    BY <2>2, <2>2a
  <2>8. QED
    BY <1>3, <2>3, <2>5, <2>6, <2>7 DEF Trail, end, fixed, x
<1>4. CASE ~Modifies(inst)
  <2> DEFINE l == LastOp(inst)
  <2>1. end = << l >> /\ l \in {r, w}
    BY <1>4 DEF FinishAction, LastOp, Modifies, MemoryAction
  <2> HIDE DEF x, r, m, w, l, end
  <2>2. end \in Seq(MicroOp) /\ Len(end) = 1 /\ end[1] = l
    BY <1>2, <2>1
  <2>2b. fixed = << x >> \o end
    OBVIOUS
  <2> HIDE DEF fixed
  <2>2a. /\ fixed \in Seq(MicroOp) /\ Len(fixed) = Len(end) + 1 /\ fixed[1] = x
         /\ \A i \in 1..Len(end) : fixed[i + 1] = end[i]
    <3>1. x \in MicroOp /\ end \in Seq(MicroOp)
      BY <1>2, <2>2
    <3>2. QED
      BY ONLY <2>2b, <3>1, Prepended
  <2>3. Len(end) = 1 /\ end[1] = l /\ Len(fixed) = 2 /\ fixed[1] = x /\ fixed[2] = l
    <3>1. fixed[1 + 1] = end[1]
      BY <2>2, <2>2a
    <3>2. QED
      BY <2>2, <2>2a, <3>1
  <2>4. Stands(inst, 1, x) /\ Stands(inst, 0, l)
    BY <1>1, <1>4 DEF Stands, Trail, l
  <2>5. Shaped(inst, end)
    BY <2>3, <2>4 DEF Shaped
  <2>6. Shaped(inst, fixed)
    BY <2>3, <2>4 DEF Shaped
  <2>7. end \in Seq(MicroOp) /\ fixed \in Seq(MicroOp)
    BY <2>2, <2>2a
  <2>8. QED
    BY <1>4, <2>3, <2>5, <2>6, <2>7 DEF Trail, end, fixed, x
<1>5. QED
  BY <1>3, <1>4

LEMMA FollowedEmission ==
    ASSUME NEW inst \in Instruction, Followed(inst), inst.address_mode \in AddressMode,
           inst.memory_action \in MemoryAction
    PROVE  LET s == EmitUcycs(F, inst.address_mode, inst.memory_action)
           IN  Shaped(inst, s) /\ Len(s) >= Trail(inst)
<1> DEFINE k == inst.address_mode.kind
           act == inst.memory_action
           offset == inst.address_mode.offset
           fin == FinishAction(F, act)
           fixed == << OffsetOptFix(offset) >> \o fin
           emitted == EmitUcycs(F, inst.address_mode, act)
<1>1. offset \in OffsetType
  BY DEF AddressMode
<1>2. k \in MemoryModes \/ (k = "Immediate" /\ ~Modifies(inst))
  BY DEF Followed, Modifies
<1>3. /\ ReadOp("Pc", "EaLo", TRUE) \in EarlyLeads /\ ReadOp("Pc", "EaHi", TRUE) \in EarlyLeads
      /\ ReadOp("Pc", "PtrLo", TRUE) \in EarlyLeads
      /\ ReadOp("PtrLo", "EaLo", TRUE) \in EarlyLeads
      /\ ReadOp("PtrLo", "EaHi", FALSE) \in EarlyLeads
  BY DEF EarlyLeads, PlainLeads
<1>4. ReadAndOffset("EaLo", offset) \in EarlyLeads /\ ReadAndOffset("PtrLo", offset) \in EarlyLeads
  BY <1>1 DEF EarlyLeads
<1>5. /\ << >> \in Seq(EarlyLeads)
      /\ \A a \in EarlyLeads : << a >> \in Seq(EarlyLeads)
      /\ \A a, b \in EarlyLeads : << a, b >> \in Seq(EarlyLeads)
      /\ \A s, t \in Seq(EarlyLeads) : s \o t \in Seq(EarlyLeads)
  BY EmptySeq, Tuples, ConcatProperties
<1>6. ASSUME k \in MemoryModes, NEW u \in Seq(EarlyLeads), NEW v, v \in {fin, fixed}
      PROVE  Shaped(inst, u \o v) /\ Len(u \o v) >= Trail(inst)
  <2>1. k # "Immediate"
    BY <1>6 DEF MemoryModes
  <2>2. /\ Shaped(inst, fin) /\ Shaped(inst, fixed)
        /\ fin \in Seq(MicroOp) /\ fixed \in Seq(MicroOp)
        /\ Len(fin) >= Trail(inst)
        /\ Len(fixed) >= Trail(inst)
    BY <1>1, <2>1, ShapedEnds
  <2> HIDE DEF fin, fixed
  <2>3. QED
    BY <1>6, <2>2, ShapedBy
<1>7. k # "Immediate" => /\ fin \in Seq(MicroOp) /\ << OffsetOptFix(offset) >> \in Seq(MicroOp)
                         /\ fixed = << OffsetOptFix(offset) >> \o fin
  <2>1. OffsetOptFix(offset) \in MicroOp
    BY <1>1 DEF MicroOp, OffsetOptFix, Op, Cycle, Alu, BusCycleType, AluOpType, Latch, OffsetType
  <2>2. << OffsetOptFix(offset) >> \in Seq(MicroOp)
    BY <2>1
  <2>3. k # "Immediate" => fin \in Seq(MicroOp)
    BY <1>1, ShapedEnds
  <2>4. QED
    BY <2>2, <2>3
<1>7a. ASSUME NEW u \in Seq(EarlyLeads), NEW x, NEW v \in Seq(MicroOp),
              x = << >> \/ (x = << OffsetOptFix(offset) >> /\ x \in Seq(MicroOp))
       PROVE  (u \o x) \o v \in {u \o v, u \o (<< OffsetOptFix(offset) >> \o v)}
  <2> DEFINE S == EarlyLeads \cup MicroOp
  <2>1. EarlyLeads \subseteq S /\ MicroOp \subseteq S
    OBVIOUS
  <2> HIDE DEF S
  <2>1a. u \in Seq(S) /\ v \in Seq(S)
    BY <2>1, SeqMonotonic
  <2>2. CASE x = << >>
    BY <1>7a, <2>1a, <2>2, ConcatEmptySeq
  <2>3. CASE x = << OffsetOptFix(offset) >> /\ x \in Seq(MicroOp)
    <3>1. x \in Seq(S)
      BY <2>1, <2>3, SeqMonotonic
    <3>2. (u \o x) \o v = u \o (x \o v)
      BY <2>1a, <3>1, ConcatAssociative
    <3>3. QED
      BY <2>3, <3>2
  <2>4. QED
    BY <1>7a, <2>2, <2>3
<1> HIDE DEF fin, emitted
<1>8. CASE k = "Immediate"
  <2> DEFINE l == ReadOp("Pc", "Op0", TRUE)
  <2>1. emitted = << l >> /\ LastOp(inst) = l
    BY <1>8 DEF EmitUcycs, EmitImmediate, LastOp, emitted
  <2> HIDE DEF l
  <2>2. Len(emitted) = 1 /\ emitted[1] = LastOp(inst) /\ ~Modifies(inst)
    BY <1>2, <1>8, <2>1 DEF MemoryModes
  <2>3. Stands(inst, 0, LastOp(inst))
    BY <2>2 DEF Stands, Trail
  <2>4. QED
    BY <2>2, <2>3 DEF Shaped, Trail, emitted
<1>9. CASE k = "DirectPage"
  <2> DEFINE u == << ReadOp("Pc", "EaLo", TRUE) >>
             v == IF offset # "None" THEN << ReadAndOffset("EaLo", offset) >> ELSE << >>
  <2>1. emitted = (u \o v) \o fin
    BY <1>9 DEF EmitUcycs, EmitDp, emitted, fin
  <2>2. u \o v \in Seq(EarlyLeads)
    BY <1>3, <1>4, <1>5
  <2> HIDE DEF u, v
  <2>3. QED
    BY <1>6, <1>9, <2>1, <2>2 DEF emitted, MemoryModes
<1>10. CASE k = "Absolute"
  <2> DEFINE u == << ReadOp("Pc", "EaLo", TRUE), ReadOp("Pc", "EaHi", TRUE) >>
             v == IF offset # "None" THEN << OffsetOptFix(offset) >> ELSE << >>
  <2>1. emitted = (u \o v) \o fin
    BY <1>10 DEF EmitUcycs, EmitAbsolute, emitted, fin
  <2>2. u \in Seq(EarlyLeads)
    BY <1>3, <1>4, <1>5
  <2>3. emitted = u \o fin \/ emitted = u \o fixed
    <3>1. k # "Immediate"
      BY <1>10
    <3> HIDE DEF u, fixed
    <3>2. v = << >> \/ (v = << OffsetOptFix(offset) >> /\ v \in Seq(MicroOp))
      BY <1>7, <3>1
    <3> HIDE DEF v
    <3>3. fin \in Seq(MicroOp) /\ fixed = << OffsetOptFix(offset) >> \o fin
      BY <1>7, <3>1
    <3>4. (u \o v) \o fin \in {u \o fin, u \o (<< OffsetOptFix(offset) >> \o fin)}
      BY <1>7a, <2>2, <3>2, <3>3
    <3>5. QED
      BY <2>1, <3>3, <3>4
  <2> HIDE DEF u, v
  <2>4. QED
    BY <1>6, <1>10, <2>2, <2>3 DEF emitted, MemoryModes
<1>11. CASE k = "DpIndirect"
  <2> DEFINE u == << ReadOp("Pc", "PtrLo", TRUE) >>
             v == IF offset = "X" THEN << ReadAndOffset("PtrLo", offset) >> ELSE << >>
             w == << ReadOp("PtrLo", "EaLo", TRUE), ReadOp("PtrLo", "EaHi", FALSE) >>
             x == IF offset = "Y" THEN << OffsetOptFix(offset) >> ELSE << >>
             uvw == (u \o v) \o w
  <2>1. emitted = (uvw \o x) \o fin
    BY <1>11 DEF EmitUcycs, EmitDpInd, emitted, fin
  <2>2. u \in Seq(EarlyLeads) /\ v \in Seq(EarlyLeads) /\ w \in Seq(EarlyLeads)
    BY <1>3, <1>4, <1>5
  <2> HIDE DEF u, v, w
  <2>3. uvw \in Seq(EarlyLeads)
    BY <1>5, <2>2
  <2> HIDE DEF uvw
  <2>4. emitted = uvw \o fin \/ emitted = uvw \o fixed
    <3>1. k # "Immediate"
      BY <1>11
    <3> HIDE DEF fixed
    <3>2. x = << >> \/ (x = << OffsetOptFix(offset) >> /\ x \in Seq(MicroOp))
      BY <1>7, <3>1
    <3> HIDE DEF x
    <3>3. fin \in Seq(MicroOp) /\ fixed = << OffsetOptFix(offset) >> \o fin
      BY <1>7, <3>1
    <3>4. (uvw \o x) \o fin \in {uvw \o fin, uvw \o (<< OffsetOptFix(offset) >> \o fin)}
      BY <1>7a, <2>3, <3>2, <3>3
    <3>5. QED
      BY <2>1, <3>3, <3>4
  <2> HIDE DEF x
  <2>5. QED
    BY <1>6, <1>11, <2>3, <2>4 DEF emitted, MemoryModes
<1>12. QED
  BY <1>2, <1>8, <1>9, <1>10, <1>11 DEF MemoryModes

\* Executing an op of such a queue: it is the one that stands there, and the queue goes on
\* behind it, or behind the read that the dummy cycle of an index stands in for.
LEMMA MatrixQueue ==
    ASSUME IInv, HistoryInv, current_inst # NoInst, ~IsEmpty(ucycs), Followed(current_inst),
           Shaped(current_inst, ucycs.todo), NEW crossed, NEW taken,
           NEW after, after = AfterAlu(FrontOp(ucycs), Pop(ucycs), crossed, taken)
    PROVE  LET op == FrontOp(ucycs)
               s == ucycs.todo
               t == after.todo
           IN  /\ Len(s) \in Nat \ {0} /\ Stands(current_inst, Len(s) - 1, op)
               /\ t \in Seq(MicroOp) /\ Shaped(current_inst, t)
               /\ \/ Len(t) = Len(s) - 1
                  \/ /\ Len(t) = Len(s) - 2 /\ Len(s) = Trail(current_inst) + 1
                     /\ op \in Leads /\ op.alu.op = "OffsetWithExtraCycle"
                     /\ current_inst.memory_action # "Write"
<1> DEFINE op == FrontOp(ucycs)
           s == ucycs.todo
           t == after.todo
           r == Tail(s)
<1>1. TapeOK(ucycs)
  BY DEF IInv, QueueInv
<1>2. op = s[1] /\ s \in Seq(MicroOp) /\ s # << >> /\ Len(s) \in Nat \ {0}
  BY <1>1, TapeFacts
<1>3. /\ op.alu.op \notin {"Jam", "Branch", "OffsetWithExtraCycle", "FixPtr"} => t = r
  BY <1>1, QueueAfter
<1>4. /\ Stands(current_inst, Len(s) - 1, op)
      /\ r \in Seq(MicroOp) /\ Len(r) = Len(s) - 1 /\ Shaped(current_inst, r)
  BY <1>2, ShapedTail
<1> DEFINE left == Len(s) - 1
<1>5. left \in Nat
  BY <1>2
<1>6. op \in Leads \/ op.alu.op \in {"None", "Modify"}
  <2>1. (LastOp(current_inst)).alu.op = "None" /\ AluWrite.alu.op = "None"
        /\ AluModify(~F.RMW_DUMMY_WRITE).alu.op = "Modify"
    BY DEF LastOp, AluWrite, AluModify, ReadOp, Op, Alu
  <2>2. EarlyLeads \subseteq Leads
    BY DEF EarlyLeads, Leads
  <2> HIDE DEF op, left
  <2>3. Stands(current_inst, left, op)
    BY <1>4 DEF left
  <2>4. CASE Modifies(current_inst)
    <3>1. left > 3 \/ left = 3 \/ left = 3 - 1 \/ left = 1 \/ left = 0
      BY ONLY <1>5
    <3>2. QED
      BY <2>1, <2>2, <2>3, <2>4, <3>1 DEF Stands, Trail
  <2>5. CASE ~Modifies(current_inst)
    <3>1. left > 1 \/ left = 1 \/ left = 1 - 1
      BY ONLY <1>5
    <3>2. QED
      BY <2>1, <2>2, <2>3, <2>5, <3>1 DEF Stands, Trail
  <2>6. QED
    BY <2>4, <2>5
<1>7. CASE op.alu.op # "OffsetWithExtraCycle"
  <2>1. op.alu.op \notin {"Jam", "Branch", "OffsetWithExtraCycle", "FixPtr"}
    BY <1>6, <1>7, LeadShapes
  <2>2. t = r
    BY <1>3, <2>1
  <2> HIDE DEF op, t, r
  <2>3. QED
    BY <1>2, <1>4, <2>2 DEF op, t
<1>8. CASE op.alu.op = "OffsetWithExtraCycle"
  <2>1. Running(current_opcode, current_inst, run, s, extra_adc_sbc_cycle)
    BY UnderWay
  <2>2. AllInPlace(current_inst, run.source, s) /\ current_inst.memory_action \in MemoryAction
    BY <2>1, StartedFacts DEF Running
  <2> HIDE DEF op
  <2>3. t = IF Skips(current_opcode, current_inst, crossed) THEN Tail(r) ELSE r
    BY <1>1, <1>8, <2>2, OffsetAfter DEF op
  <2>4. op \in Leads
    BY <1>6, <1>8
  <2>5. left = Trail(current_inst)
    <3>1. \A a \in EarlyLeads : a.alu.op # "OffsetWithExtraCycle"
      <4>1. \A a \in PlainLeads : a.alu.op = "None"
        <5>1. \A src, dest, inc : ReadOp(src, dest, inc).alu.op = "None"
          BY DEF ReadOp, Op, Alu
        <5>2. QED
          BY <5>1 DEF PlainLeads
      <4>2. \A src, offset : ReadAndOffset(src, offset).alu.op = "AddOffset"
        BY DEF ReadAndOffset, Op, Alu
      <4>3. QED
        BY <4>1, <4>2 DEF EarlyLeads
    <3>2. (LastOp(current_inst)).alu.op = "None" /\ AluWrite.alu.op = "None"
          /\ AluModify(~F.RMW_DUMMY_WRITE).alu.op = "Modify"
      BY DEF LastOp, AluWrite, AluModify, ReadOp, Op, Alu
    <3> HIDE DEF left
    <3>3. Stands(current_inst, left, op)
      BY <1>4 DEF left
    <3>4. CASE Modifies(current_inst)
      <4>1. left > 3 \/ left = 3 \/ left = 3 - 1 \/ left = 1 \/ left = 0
        BY ONLY <1>5
      <4>2. QED
        BY <1>8, <3>1, <3>2, <3>3, <3>4, <4>1 DEF Stands, Trail
    <3>5. CASE ~Modifies(current_inst)
      <4>1. left > 1 \/ left = 1 \/ left = 1 - 1
        BY ONLY <1>5
      <4>2. QED
        BY <1>8, <3>1, <3>2, <3>3, <3>5, <4>1 DEF Stands, Trail
    <3>6. QED
      BY <3>4, <3>5
  <2>6. CASE Skips(current_opcode, current_inst, crossed)
    <3>1. current_inst.memory_action # "Write"
      BY <2>6 DEF Skips, Dummy
    <3>2. r # << >>
      <4>1. Len(r) = Trail(current_inst)
        BY <1>4, <2>5
      <4>2. Trail(current_inst) \in {1, 3}
        BY DEF Trail
      <4> HIDE DEF r
      <4>3. Len(r) # 0
        BY <4>1, <4>2
      <4>4. QED
        BY <4>3, EmptySeq
    <3>3. Tail(r) \in Seq(MicroOp) /\ Len(Tail(r)) = Len(r) - 1 /\ Shaped(current_inst, Tail(r))
      BY <1>4, <3>2, ShapedTail
    <3>4. t = Tail(r)
      BY <2>3, <2>6
    <3> HIDE DEF r, t
    <3>5. Len(t) = Len(s) - 2 /\ Len(s) = Trail(current_inst) + 1
      BY <1>2, <1>4, <2>5, <3>3, <3>4
    <3>6. QED
      BY <1>2, <1>4, <1>8, <2>4, <3>1, <3>3, <3>4, <3>5 DEF op, t
  <2>7. CASE ~Skips(current_opcode, current_inst, crossed)
    <3>1. t = r
      BY <2>3, <2>7
    <3> HIDE DEF t, r
    <3>2. QED
      BY <1>2, <1>4, <3>1 DEF op, t
  <2>8. QED
    BY <2>6, <2>7
<1>9. QED
  BY <1>7, <1>8

-----------------------------------------------------------------------------
(* The course of such an instruction.                                      *)

\* With `k` ops to go, the `n` accesses `h` made and the registers `c`: what holds of a
\* read-modify-write, and of the other instructions followed
AllRead(h, j) == \A i \in 1..j : h[i].read
Dummied(a, byte) == IF F.RMW_DUMMY_WRITE THEN ~a.read /\ a.data = byte ELSE a.read
ModifiedFrom(byte, c) ==
    \E d \in Core : /\ Held(d, byte)
                    /\ Alike(ModifyEffect(F, current_inst.mnemonic, current_opcode, d), c)
Modifying(k, n, h, c) ==
    /\ k >= 3 => Within(entry, c, {}) /\ AllRead(h, n)
    /\ k = 2 => Held(c, h[n].data) /\ AllRead(h, n)
    /\ k = 1 => /\ n >= 2 /\ AllRead(h, n - 1) /\ Dummied(h[n], h[n - 1].data)
                /\ ModifiedFrom(h[n - 1].data, c)
    /\ k = 0 => /\ n >= 3 /\ AllRead(h, n - 2) /\ Dummied(h[n - 1], h[n - 2].data)
                /\ ~h[n].read /\ h[n].data = c.op0 /\ ModifiedFrom(h[n - 2].data, c)
ReadFrom(byte, c) == \E d \in Core : Held(d, byte) /\ c = ReadEffect(F, current_inst, d)
Loading(k, n, h, c) ==
    LET immediate == current_inst.address_mode.kind = "Immediate"
    IN  /\ k # 0 => /\ Within(entry, c, {})
                    /\ immediate => n = 1 /\ k = 1 /\ c.pc = SecondByte
        /\ k = 0 => /\ current_inst.memory_action = "Read" => ReadFrom(h[n].data, c)
                    /\ current_inst.memory_action = "Write" =>
                          Within(entry, c, {}) /\ h[n].data = And(entry.a, entry.x)
                    /\ immediate => n = 2 /\ h[2].vpa /\ h[2].addr = SecondByte

LEMMA Appended ==
    ASSUME NEW S, NEW h \in Seq(S), NEW a \in S, NEW g, g = Append(h, a)
    PROVE  /\ g \in Seq(S) /\ Len(h) \in Nat /\ Len(g) = Len(h) + 1 /\ g[Len(h) + 1] = a
           /\ \A i \in 1..Len(h) : g[i] = h[i]
BY AppendProperties, LenProperties

LEMMA AlikeOn ==
    ASSUME NEW c, NEW d, NEW e, Alike(c, d), Alike(d, e)
    PROVE  Alike(c, e)
BY WithinUnchanged DEF Alike

LEMMA HeldAlike ==
    ASSUME NEW c, NEW d, NEW byte, Held(c, byte), Alike(c, d)
    PROVE  Held(d, byte)
BY WithinUnchanged DEF Alike, Held

LEMMA ReadsOn ==
    ASSUME NEW n \in Nat, NEW g, NEW h, NEW a, \A i \in 1..n : g[i] = h[i], g[n + 1] = a
    PROVE  /\ AllRead(h, n) /\ a.read => AllRead(g, n + 1)
           /\ AllRead(h, n) => AllRead(g, n)
           /\ AllRead(h, n - 1) => AllRead(g, n - 1)
           /\ n >= 1 => g[n] = h[n]
           /\ n >= 2 => g[n - 1] = h[n - 1]
<1>1. ASSUME AllRead(h, n), a.read, NEW i \in 1..(n + 1) PROVE g[i].read
  <2>1. i \in 1..n \/ i = n + 1
    OBVIOUS
  <2>2. QED
    BY <1>1, <2>1 DEF AllRead
<1>2. \A i \in 1..(n - 1) : i \in 1..n
  OBVIOUS
<1>3. n >= 1 => n \in 1..n
  OBVIOUS
<1>4. n >= 2 => n - 1 \in 1..n
  OBVIOUS
<1>5. QED
  BY <1>1, <1>2, <1>3, <1>4 DEF AllRead

\* One access of a read-modify-write
LEMMA ModifyStep ==
    ASSUME core \in Core, Followed(current_inst), Modifies(current_inst),
           NEW h \in Seq(Access), Len(h) > 0, NEW k \in Nat \ {0}, NEW j,
           Modifying(k, Len(h), h, core), NEW op, Stands(current_inst, k - 1, op), NEW byte \in Byte,
           NEW done, done = AfterAccess(BeforeAccess(core, op), op, byte),
           NEW e, e = AluEffect(done, op),
           NEW a \in Access, a.data = done.data, a.read = op.bus.read,
           NEW g, g = Append(h, a),
           \/ j = k - 1
           \/ j = k - 2 /\ k = 4 /\ op.alu.op = "OffsetWithExtraCycle"
    PROVE  Modifying(j, Len(g), g, e)
<1> DEFINE n == Len(h)
           m == Len(g)
<1>1. /\ n \in Nat /\ n > 0 /\ m = n + 1 /\ g[n + 1] = a
      /\ \A i \in 1..n : g[i] = h[i]
  BY Appended
<1>1a. /\ AllRead(h, n) /\ a.read => AllRead(g, m)
       /\ AllRead(h, n) => AllRead(g, n)
       /\ AllRead(h, n - 1) => AllRead(g, n - 1)
       /\ g[n] = h[n] /\ (n >= 2 => g[n - 1] = h[n - 1]) /\ g[m] = a
  <2> HIDE DEF n, m
  <2>1. n >= 1
    BY <1>1
  <2>2. QED
    BY ONLY <1>1, <2>1, ReadsOn
<1>2. /\ k >= 3 => Within(entry, core, {}) /\ AllRead(h, n)
      /\ k = 2 => Held(core, h[n].data) /\ AllRead(h, n)
      /\ k = 1 => /\ n >= 2 /\ AllRead(h, n - 1) /\ Dummied(h[n], h[n - 1].data)
                  /\ ModifiedFrom(h[n - 1].data, core)
  BY DEF Modifying
<1>3. current_inst.address_mode.kind # "Immediate" /\ current_inst.mnemonic \in RowOps \cup BitOps
  BY DEF Followed, Modifies, MemoryModes
<1> SUFFICES Modifying(j, m, g, e)
  OBVIOUS
<1> HIDE DEF n, m
<1>4. CASE k >= 4
  <2>1. op \in Leads
    <3>1. k - 1 > 3 \/ k - 1 = 3
      BY <1>4
    <3>2. EarlyLeads \subseteq Leads
      BY DEF EarlyLeads, Leads
    <3>3. QED
      BY <3>1, <3>2 DEF Stands, Trail
  <2>2. /\ op.bus.read /\ done.data = byte /\ Within(core, e, {})
        /\ op.alu.op = "OffsetWithExtraCycle" => e.op0 = byte
    BY <2>1, LeadKeeps
  <2>3. Within(entry, e, {}) /\ AllRead(h, n)
    BY <1>2, <1>4, <2>2, WithinOn
  <2>4. AllRead(g, m)
    BY <1>1a, <2>2, <2>3
  <2>5. CASE j = k - 1
    <3>1. j >= 3 /\ j # 2 /\ j # 1 /\ j # 0
      BY <1>4, <2>5
    <3>2. QED
      BY <2>3, <2>4, <3>1 DEF Modifying
  <2>6. CASE j = k - 2 /\ k = 4 /\ op.alu.op = "OffsetWithExtraCycle"
    <3>1. j = 2 /\ ~(j >= 3) /\ j # 1 /\ j # 0
      BY <2>6
    <3>2. Held(e, g[m].data)
      BY <1>1a, <2>2, <2>3, <2>6 DEF Held
    <3>3. QED
      BY <2>4, <3>1, <3>2 DEF Modifying
  <2>7. QED
    BY <2>5, <2>6
<1>5. CASE k = 3
  <2>1. op = ReadOp("Ea", "Op0", FALSE)
    <3>1. k - 1 = 3 - 1
      BY <1>5
    <3>2. op = LastOp(current_inst)
      BY <3>1 DEF Stands, Trail
    <3>3. QED
      BY <1>3, <3>2 DEF LastOp, Modifies
  <2>2. op.bus.read /\ done.data = byte /\ Within(core, e, {}) /\ e.op0 = byte
    BY <2>1, OperandRead
  <2>3. Within(entry, e, {}) /\ AllRead(h, n)
    BY <1>2, <1>5, <2>2, WithinOn
  <2>4. AllRead(g, m)
    BY <1>1a, <2>2, <2>3
  <2>5. j = 2 /\ ~(j >= 3) /\ j # 1 /\ j # 0
    BY <1>5
  <2>6. Held(e, g[m].data)
    BY <1>1a, <2>2, <2>3 DEF Held
  <2>7. QED
    BY <2>4, <2>5, <2>6 DEF Modifying
<1>6. CASE k = 2
  <2>1. op = AluModify(~F.RMW_DUMMY_WRITE)
    <3>1. k - 1 = 1
      BY <1>6
    <3>2. QED
      BY <3>1 DEF Stands, Trail
  <2>2. F.RMW_DUMMY_WRITE \in BOOLEAN
    BY FlavorAssumption DEF FlavorType
  <2>3. /\ op.bus.read = ~F.RMW_DUMMY_WRITE
        /\ F.RMW_DUMMY_WRITE => done.data = core.op0
        /\ done \in Core /\ Alike(core, done)
        /\ e = ModifyEffect(F, current_inst.mnemonic, current_opcode, done)
    BY <1>3, <2>1, <2>2, ModifyDone
  <2>4. Held(core, h[n].data) /\ AllRead(h, n)
    BY <1>2, <1>6
  <2>5. j = 1 /\ ~(j >= 3) /\ j # 2 /\ j # 0
    BY <1>6
  <2>5a. m >= 2 /\ m - 1 = n
    BY ONLY <1>1
  <2>6. AllRead(g, n)
    BY <1>1a, <2>4
  <2>7. Dummied(a, h[n].data)
    BY <2>3, <2>4 DEF Dummied, Held
  <2>8. ModifiedFrom(h[n].data, e)
    <3>1. Held(done, h[n].data)
      BY <2>3, <2>4, HeldAlike
    <3>2. Alike(e, e)
      BY DEF Alike, Within
    <3>3. QED
      BY <2>3, <3>1, <3>2 DEF ModifiedFrom
  <2>9. QED
    BY <1>1a, <2>5, <2>5a, <2>6, <2>7, <2>8 DEF Modifying
<1>7. CASE k = 1
  <2>1. op = AluWrite
    <3>1. k - 1 = 0
      BY <1>7
    <3>2. QED
      BY <3>1 DEF Stands, Trail
  <2>2. ~op.bus.read /\ done.data = core.op0 /\ e \in Core /\ Alike(core, e)
    BY <1>3, <2>1, WriteDone
  <2>3. /\ n >= 2 /\ AllRead(h, n - 1) /\ Dummied(h[n], h[n - 1].data)
        /\ ModifiedFrom(h[n - 1].data, core)
    BY <1>2, <1>7
  <2>4. j = 0 /\ ~(j >= 3) /\ j # 2 /\ j # 1
    BY <1>7
  <2>4a. m >= 3 /\ m - 2 = n - 1 /\ m - 1 = n
    BY ONLY <1>1, <2>3
  <2>5. AllRead(g, n - 1)
    BY <1>1a, <2>3
  <2>6. e.op0 = core.op0
    BY <2>2 DEF Alike
  <2>7. ModifiedFrom(h[n - 1].data, e)
    BY <2>2, <2>3, AlikeOn DEF ModifiedFrom
  <2>8. ~a.read /\ a.data = e.op0
    BY <2>2, <2>6
  <2>9. QED
    BY <1>1a, <2>3, <2>4, <2>4a, <2>5, <2>7, <2>8 DEF Modifying
<1>8. QED
  BY <1>4, <1>5, <1>6, <1>7

\* What retiring such an instruction comes to
LEMMA FollowedRetires ==
    ASSUME Followed(current_inst), NEW c
    PROVE  /\ current_inst.memory_action \in {"Read", "Write", "ReadModifyWrite"}
           /\ current_inst.memory_action = "Read" => Retire(c) = ReadEffect(F, current_inst, c)
           /\ current_inst.memory_action # "Read" => Retire(c) = c
<1>1. current_inst.address_mode.kind \in {"DirectPage", "Absolute", "DpIndirect", "Immediate"}
  BY DEF Followed, MemoryModes
<1>2. current_inst.memory_action \in {"Read", "Write", "ReadModifyWrite"}
  BY DEF Followed, Modifies
<1>3. current_inst.address_mode.kind \notin {"Implied", "Brk"}
  BY <1>1
<1>4. Retire(c) = IF current_inst.memory_action = "Read" THEN ReadEffect(F, current_inst, c) ELSE c
  BY <1>3 DEF Retire
<1>5. QED
  BY <1>2, <1>4

\* One access of another instruction
LEMMA LoadStep ==
    ASSUME core \in Core, Followed(current_inst), ~Modifies(current_inst),
           NEW h \in Seq(Access), Len(h) > 0, NEW k \in Nat \ {0}, NEW j,
           Loading(k, Len(h), h, core), NEW op, Stands(current_inst, k - 1, op), NEW byte \in Byte,
           NEW done, done = AfterAccess(BeforeAccess(core, op), op, byte),
           NEW e \in Core, e = AluEffect(done, op),
           NEW a \in Access, a.data = done.data, a.vpa = op.bus.vpa,
           a.addr = AccessAddress(BeforeAccess(core, op), op),
           NEW g, g = Append(h, a),
           NEW c, c = IF j = 0 THEN Retire(e) ELSE e,
           \/ j = k - 1
           \/ /\ j = k - 2 /\ k = 2 /\ op.alu.op = "OffsetWithExtraCycle"
              /\ current_inst.memory_action # "Write"
    PROVE  Loading(j, Len(g), g, c)
<1> DEFINE n == Len(h)
           m == Len(g)
           act == current_inst.memory_action
           immediate == current_inst.address_mode.kind = "Immediate"
<1>1. n \in Nat /\ n > 0 /\ m = n + 1 /\ g[n + 1] = a
  BY Appended
<1>2. Within(entry, core, {}) /\ (immediate => n = 1 /\ k = 1 /\ core.pc = SecondByte)
  BY DEF Loading
<1>3. /\ act \in {"Read", "Write"}
      /\ act = "Read" => Retire(e) = ReadEffect(F, current_inst, e)
      /\ act = "Write" => Retire(e) = e
  BY FollowedRetires DEF Modifies
<1>4. g[m] = a
  BY <1>1
<1> SUFFICES Loading(j, m, g, c)
  OBVIOUS
<1> HIDE DEF n, m
<1>5. CASE k >= 2
  <2>1. op \in Leads
    <3>1. k - 1 > 1 \/ k - 1 = 1
      BY <1>5
    <3>2. EarlyLeads \subseteq Leads
      BY DEF EarlyLeads, Leads
    <3>3. QED
      BY <3>1, <3>2 DEF Stands, Trail
  <2>2. /\ done.data = byte /\ Within(core, e, {})
        /\ op.alu.op = "OffsetWithExtraCycle" => e.op0 = byte
    BY <2>1, LeadKeeps
  <2>3. Within(entry, e, {}) /\ ~immediate
    <3>1. k # 1
      BY <1>5
    <3>2. QED
      BY <1>2, <2>2, <3>1, WithinOn
  <2>4. CASE j = k - 1
    <3>1. j # 0
      BY <1>5, <2>4
    <3>2. c = e
      BY <3>1
    <3> HIDE DEF act
    <3>3. QED
      BY <2>3, <3>1, <3>2 DEF Loading
  <2>5. CASE /\ j = k - 2 /\ k = 2 /\ op.alu.op = "OffsetWithExtraCycle" /\ act # "Write"
    <3>1. j = 0 /\ act = "Read"
      BY <1>3, <2>5
    <3>2. c = ReadEffect(F, current_inst, e)
      BY <1>3, <3>1
    <3>3. Held(e, g[m].data)
      BY <1>4, <2>2, <2>3, <2>5 DEF Held
    <3>4. ReadFrom(g[m].data, c)
      BY <3>2, <3>3 DEF ReadFrom
    <3>5. QED
      BY <2>3, <3>1, <3>4 DEF Loading
  <2>6. QED
    BY <2>4, <2>5
<1>6. CASE k = 1
  <2>1. op = LastOp(current_inst) /\ j = 0
    <3>1. k - 1 = 1 - 1
      BY <1>6
    <3>2. op = LastOp(current_inst)
      BY <3>1 DEF Stands, Trail
    <3>3. j = 0
      BY <1>6
    <3>4. QED
      BY <3>2, <3>3
  <2>2. immediate => m = 2 /\ a.vpa /\ a.addr = SecondByte
    <3> SUFFICES ASSUME immediate PROVE m = 2 /\ a.vpa /\ a.addr = SecondByte
      OBVIOUS
    <3>1. op = ReadOp("Pc", "Op0", TRUE)
      BY <2>1 DEF LastOp
    <3>2. /\ op.bus.vpa = TRUE /\ op.bus.addr = "Pc" /\ op.bus.read = TRUE
          /\ op.alu.op = "None"
      BY <3>1 DEF ReadOp, Op, Cycle, Alu
    <3>3. BeforeAccess(core, op) = core
      BY <3>2 DEF BeforeAccess
    <3>4. core.pc \in Int
      <4>1. core.pc \in Address
        BY CoreTypes
      <4>2. QED
        BY <4>1 DEF Address
    <3>5. AccessAddress(core, op) = core.pc
      BY <3>2, <3>4 DEF AccessAddress, AddressOf
    <3>6. QED
      BY <1>1, <1>2, <3>2, <3>3, <3>5
  <2>3. CASE act = "Read"
    <3>1. op \in {ReadOp("Ea", "Op0", FALSE), ReadOp("Pc", "Op0", TRUE)}
      BY <2>1, <2>3 DEF LastOp
    <3>2. done.data = byte /\ Within(core, e, {}) /\ e.op0 = byte
      BY <3>1, OperandRead
    <3>3. Held(e, g[m].data)
      BY <1>2, <1>4, <3>2, WithinOn DEF Held
    <3>4. c = ReadEffect(F, current_inst, e)
      BY <1>3, <2>1, <2>3
    <3>5. ReadFrom(g[m].data, c)
      BY <3>3, <3>4 DEF ReadFrom
    <3>6. immediate => m = 2 /\ g[2].vpa /\ g[2].addr = SecondByte
      BY <1>4, <2>2
    <3>7. QED
      BY <2>1, <2>3, <3>5, <3>6 DEF Loading
  <2>4. CASE act = "Write"
    <3>1. current_inst.mnemonic = "Sax" /\ ~immediate
      BY <2>4 DEF Followed, Modifies, MemoryModes
    <3>2. op = AluWrite
      BY <2>1, <2>4, <3>1 DEF LastOp
    <3>3. done.data = And(core.a, core.x) /\ Alike(core, e)
      BY <2>4, <3>1, <3>2, WriteDone
    <3>4. Within(entry, e, {})
      BY <1>2, <3>3, WithinOn DEF Alike
    <3>5. a.data = And(entry.a, entry.x)
      BY <1>2, <3>3 DEF Within
    <3>6. c = e
      BY <1>3, <2>1, <2>4
    <3>7. QED
      BY <1>4, <2>1, <2>4, <3>1, <3>4, <3>5, <3>6 DEF Loading
  <2>5. QED
    BY <1>3, <2>3, <2>4
<1>7. QED
  BY <1>5, <1>6

\* An instruction that is followed, under way or done
MatrixHolds ==
    LET s == ucycs.todo
    IN  /\ Len(log) > 0 /\ Len(log) + Len(s) <= 8
        /\ s \in Seq(MicroOp) /\ Shaped(current_inst, s)
        /\ IF Modifies(current_inst) THEN Modifying(Len(s), Len(log), log, core)
           ELSE Loading(Len(s), Len(log), log, core)
MatrixInv ==
    /\ TestInv /\ log \in Seq(Access)
    /\ extra_adc_sbc_cycle => current_inst # NoInst /\ current_inst.mnemonic \in {"Adc", "Sbc"}
    /\ current_inst # NoInst /\ Followed(current_inst) => MatrixHolds

LEMMA ExecuteMatrix ==
    ASSUME MatrixInv, Followed(current_inst), ExecuteData(QuietLines, Answers), TestInv'
    PROVE  log' \in Seq(Access) /\ MatrixHolds'
<1> DEFINE op == FrontOp(ucycs)
           s == ucycs.todo
           t == ucycs'.todo
           k == Len(s)
           j == Len(t)
           addr == AccessAddress(BeforeAccess(core, op), op)
<1>1. TestInv /\ log \in Seq(Access)
  BY DEF MatrixInv
<1>2. IInv /\ HistoryInv /\ core \in Core /\ access' \in Access
  BY <1>1 DEF TestInv, DataInv
<1>3. /\ current_inst # NoInst /\ ~IsEmpty(ucycs) /\ Continues /\ entry' = entry
      /\ current_inst' = current_inst /\ current_opcode' = current_opcode
  BY DEF ExecuteData, Continues
<1>4. MatrixHolds /\ s # << >>
  BY <1>3 DEF MatrixInv, IsEmpty
<1>5. Len(log) > 0 /\ Len(log) + k <= 8 /\ Shaped(current_inst, s)
  BY <1>4 DEF MatrixHolds
<1>6. PICK byte \in Byte :
          LET done == AfterAccess(BeforeAccess(core, op), op, byte)
              e == AluEffect(done, op)
          IN  /\ e \in Core
              /\ ucycs' = AfterAlu(op, Pop(ucycs), Crosses(op, done), Taken(op, done))
              /\ core' = IF IsEmpty(ucycs') THEN Retire(e) ELSE e
              /\ access' = [addr |-> addr, data |-> done.data, vpa |-> op.bus.vpa,
                            read |-> op.bus.read]
  BY <1>1, ExecuteGives
<1> DEFINE done == AfterAccess(BeforeAccess(core, op), op, byte)
           e == AluEffect(done, op)
<1>7. /\ k \in Nat \ {0} /\ Stands(current_inst, k - 1, op)
      /\ t \in Seq(MicroOp) /\ Shaped(current_inst, t)
      /\ \/ j = k - 1
         \/ /\ j = k - 2 /\ k = Trail(current_inst) + 1
            /\ op.alu.op = "OffsetWithExtraCycle" /\ current_inst.memory_action # "Write"
  BY <1>2, <1>3, <1>5, <1>6, MatrixQueue
<1>8. /\ e \in Core
      /\ core' = IF t = << >> THEN Retire(e) ELSE e
      /\ access'.data = done.data /\ access'.read = op.bus.read /\ access'.vpa = op.bus.vpa
      /\ access'.addr = addr
  <2>1. /\ e \in Core /\ core' = IF IsEmpty(ucycs') THEN Retire(e) ELSE e
        /\ access' = [addr |-> addr, data |-> done.data, vpa |-> op.bus.vpa,
                      read |-> op.bus.read]
    BY <1>6
  <2> HIDE DEF done, e, addr, op
  <2>2. QED
    BY <2>1 DEF IsEmpty
<1>9. t = << >> <=> j = 0
  BY <1>7, EmptySeq
<1>10. j \in Nat /\ k \in Nat /\ Len(log) \in Nat
  BY <1>1, <1>7, LenProperties
<1>11. Len(log) + 1 > 0 /\ (Len(log) + 1) + j <= 8 /\ Len(log) < MaxCycles
  <2> DEFINE m == Len(log)
  <2>1. m \in Nat /\ m + k <= 8 /\ m > 0
    BY <1>5, <1>10
  <2> HIDE DEF m, j, k
  <2>2. j < k
    BY <1>7, <1>10
  <2>3. QED
    BY <1>10, <2>1, <2>2 DEF MaxCycles, m
<1>12. log' = Append(log, access') /\ log' \in Seq(Access) /\ Len(log') = Len(log) + 1
  BY <1>1, <1>2, <1>3, <1>11, Logged
<1>13. IF Modifies(current_inst) THEN Modifying(k, Len(log), log, core)
       ELSE Loading(k, Len(log), log, core)
  BY <1>4 DEF MatrixHolds
<1>14. core' = IF j = 0 THEN Retire(e) ELSE e
  BY <1>8, <1>9
<1> HIDE DEF done, e, addr, op, s, t, k, j
<1>15. CASE Modifies(current_inst)
  <2>1. Retire(e) = e
    BY <1>15, FollowedRetires DEF Modifies
  <2>2. core' = e
    BY <1>14, <2>1
  <2>3. k = Trail(current_inst) + 1 => k = 4
    BY <1>15 DEF Trail
  <2>4. \/ j = k - 1
        \/ j = k - 2 /\ k = 4 /\ op.alu.op = "OffsetWithExtraCycle"
    BY <1>7, <2>3
  <2>5. Modifying(j, Len(log'), log', core')
    BY <1>1, <1>2, <1>5, <1>7, <1>8, <1>12, <1>13, <1>15, <2>2, <2>4, ModifyStep DEF done, e
  <2>6. QED
    BY <1>3, <1>7, <1>11, <1>12, <1>15, <2>5 DEF MatrixHolds, Modifying, Held, ModifiedFrom, t, j
<1>16. CASE ~Modifies(current_inst)
  <2>1. k = Trail(current_inst) + 1 => k = 2
    BY <1>16 DEF Trail
  <2>2. \/ j = k - 1
        \/ /\ j = k - 2 /\ k = 2 /\ op.alu.op = "OffsetWithExtraCycle"
           /\ current_inst.memory_action # "Write"
    BY <1>7, <2>1
  <2>3. access'.addr = AccessAddress(BeforeAccess(core, op), op)
    BY <1>8 DEF addr
  <2>4. Loading(j, Len(log'), log', core')
    BY <1>1, <1>2, <1>5, <1>7, <1>8, <1>12, <1>13, <1>14, <1>16, <2>2, <2>3, LoadStep DEF done, e
  <2>5. QED
    <3>1. Loading(j, Len(log'), log', core') = Loading(Len(ucycs.todo), Len(log), log, core)'
      BY <1>3 DEF Loading, ReadFrom, Held, SecondByte, t, j
    <3>2. QED
      BY <1>3, <1>7, <1>11, <1>12, <1>16, <2>4, <3>1 DEF MatrixHolds, t, j
<1>17. QED
  BY <1>15, <1>16

LEMMA FetchMatrix ==
    ASSUME TestInv, FirstFetchData(QuietLines, Answers), Followed(current_inst'), access' \in Access
    PROVE  log' \in Seq(Access) /\ MatrixHolds'
<1>1. PICK opcode \in Opcode : FetchAndPrepare(opcode)
  BY DEF FirstFetchData, FirstFetch
<1> DEFINE inst == Decode[opcode]
           s == EmitUcycs(F, inst.address_mode, inst.memory_action)
           k == Len(s)
<1>2. /\ current_opcode' = opcode /\ current_inst' = inst /\ ucycs' = PushAll(EmptyTape, s)
      /\ core' = [Scratch(core) EXCEPT !.pc = (@ + 1) % 65536]
      /\ entry' = core /\ log' = << access' >> /\ core \in Core /\ access'.read
  <2>1. ucycs = EmptyTape /\ core \in Core
    BY DEF TestInv, IInv, QueueInv, DataInv, FirstFetchData, FirstFetch
  <2>2. access' = [addr |-> core.pc, data |-> current_opcode', vpa |-> TRUE, read |-> TRUE]
    BY DEF FirstFetchData, FetchData, Accesses
  <2>3. QED
    BY <1>1, <2>1, <2>2 DEF FetchAndPrepare, FirstFetchData, FetchData, Starts
<1>3. inst \in Instruction /\ Followed(inst)
  BY <1>2, DecodeAssumption
<1>4. inst.memory_action \in MemoryAction /\ inst.address_mode \in AddressMode
  BY <1>3 DEF Instruction
<1>5. Shaped(inst, s) /\ k >= Trail(inst)
  BY <1>3, <1>4, FollowedEmission
<1>6. s \in Seq(MicroOp) /\ k <= 7 /\ k \in Nat
  <2>1. s \in Seq(MicroOp) /\ Len(s) <= 7
    BY EmitFresh DEF Fresh
  <2> HIDE DEF s
  <2>2. QED
    BY <2>1, LenProperties
<1>7. inst.address_mode.kind = "Immediate" => k = 1
  <2> SUFFICES ASSUME inst.address_mode.kind = "Immediate" PROVE Len(s) = 1
    OBVIOUS
  <2>1. s = << ReadOp("Pc", "Op0", TRUE) >>
    BY DEF EmitUcycs, EmitImmediate
  <2> HIDE DEF s
  <2>2. QED
    BY <2>1
<1> HIDE DEF s, inst
<1>8. ucycs'.todo = s
  BY <1>2, <1>6, ConcatEmptySeq DEF PushAll, EmptyTape
<1>9. Within(core, core', {}) /\ core'.pc = (core.pc + 1) % 65536
  BY <1>2 DEF Scratch, Core, Within
<1>10. log' \in Seq(Access) /\ Len(log') = 1 /\ log'[1] = access'
  BY <1>2
<1>11. AllRead(log', 1)
  BY <1>2, <1>10 DEF AllRead
<1>12. Len(log') > 0 /\ Len(log') + k <= 8
  BY <1>6, <1>10
<1> HIDE DEF k
<1>13. CASE Modifies(inst)
  <2>1. k >= 3 /\ k # 2 /\ k # 1 /\ k # 0
    BY <1>5, <1>6, <1>13 DEF Trail
  <2>2. QED
    BY <1>2, <1>5, <1>6, <1>8, <1>9, <1>10, <1>11, <1>12, <1>13, <2>1
    DEF MatrixHolds, Modifying, k
<1>14. CASE ~Modifies(inst)
  <2>1. k # 0
    BY <1>5, <1>6, <1>14 DEF Trail
  <2>2. inst.address_mode.kind = "Immediate" => k = 1 /\ core'.pc = SecondByte'
    BY <1>2, <1>7, <1>9 DEF SecondByte
  <2>3. QED
    BY <1>2, <1>5, <1>6, <1>8, <1>9, <1>10, <1>12, <1>14, <2>1, <2>2
    DEF MatrixHolds, Loading, k
<1>15. QED
  BY <1>13, <1>14

LEMMA MatrixStarts == SetupInitial => MatrixInv
<1> SUFFICES ASSUME SetupInitial PROVE MatrixInv
  OBVIOUS
<1>1. TestInv
  BY TestInit
<1>2. log = << >> /\ current_inst = NoInst /\ extra_adc_sbc_cycle = FALSE
  BY DEF SetupInitial, Powered
<1>3. log \in Seq(Access)
  BY <1>2, EmptySeq
<1>4. QED
  BY <1>1, <1>2, <1>3 DEF MatrixInv

\* ADC and SBC are not among the instructions followed.
LEMMA NotDecimal == ASSUME NEW inst, Followed(inst) PROVE inst.mnemonic \notin {"Adc", "Sbc"}
BY DEF Followed, RowOps, BitOps, Combining

LEMMA MatrixNext == MatrixInv /\ [TestCycle]_allVars => MatrixInv'
<1> SUFFICES ASSUME MatrixInv, [TestCycle]_allVars PROVE MatrixInv'
  OBVIOUS
<1>1. TestInv /\ TestInv' /\ log \in Seq(Access)
  BY TestNext DEF MatrixInv
<1>2. /\ extra_adc_sbc_cycle =>
            current_inst # NoInst /\ current_inst.mnemonic \in {"Adc", "Sbc"}
      /\ current_inst # NoInst /\ Followed(current_inst) => MatrixHolds
  BY DEF MatrixInv
<1>3. access' \in Access
  BY <1>1 DEF TestInv, DataInv
<1>4. CASE FirstFetchData(QuietLines, Answers)
  <2>1. extra_adc_sbc_cycle' = extra_adc_sbc_cycle /\ current_inst = NoInst /\ log' = << access' >>
    BY <1>4 DEF FirstFetchData, FirstFetch, FetchData, Starts
  <2>2. ~extra_adc_sbc_cycle'
    BY <1>2, <2>1
  <2>3. log' \in Seq(Access)
    BY <1>3, <2>1
  <2>4. Followed(current_inst') => MatrixHolds'
    BY <1>1, <1>3, <1>4, FetchMatrix
  <2>5. QED
    BY <1>1, <2>2, <2>3, <2>4 DEF MatrixInv
<1>5. CASE ExecuteData(QuietLines, Answers)
  <2>1. /\ UNCHANGED << current_inst, current_opcode, extra_adc_sbc_cycle >> /\ Continues
        /\ current_inst # NoInst
    BY <1>5 DEF ExecuteData
  <2>2. log' \in Seq(Access)
    BY <1>1, <1>3, <2>1, LoggedType
  <2>3. Followed(current_inst') => MatrixHolds'
    BY <1>1, <1>5, <2>1, ExecuteMatrix
  <2>4. QED
    BY <1>1, <1>2, <2>1, <2>2, <2>3 DEF MatrixInv
<1>6. CASE DecimalCycleData(QuietLines, Answers)
  <2>1. /\ UNCHANGED << current_inst, current_opcode >> /\ Continues
        /\ current_inst # NoInst /\ current_inst.mnemonic \in {"Adc", "Sbc"}
    BY <1>6 DEF DecimalCycleData, DecimalCycle, AtBoundary, DecimalInstruction
  <2>2. log' \in Seq(Access)
    BY <1>1, <1>3, <2>1, LoggedType
  <2>3. ~Followed(current_inst')
    BY <2>1, NotDecimal
  <2>4. QED
    BY <1>1, <2>1, <2>2, <2>3 DEF MatrixInv
<1>7. CASE UNCHANGED allVars
  <2>1. UNCHANGED << log, entry, core, ucycs, current_inst, current_opcode, extra_adc_sbc_cycle >>
    BY <1>7 DEF allVars, dataVars, vars, cpuVars
  <2>2. MatrixHolds' <=> MatrixHolds
    BY <2>1 DEF MatrixHolds, Modifying, Loading, ReadFrom, ModifiedFrom, Held, SecondByte
  <2>3. QED
    BY <1>1, <1>2, <2>1, <2>2 DEF MatrixInv
<1>8. QED
  BY <1>4, <1>5, <1>6, <1>7 DEF TestCycle

-----------------------------------------------------------------------------
(* What a read-modify-write makes of the byte.                             *)

\* A byte is the sum of the weights of its bits.
Part(bits, i, weight) == IF i \in bits THEN weight ELSE 0
LEMMA BitSum ==
    ASSUME NEW bits, bits \subseteq 0..7
    PROVE  FromBits(bits) = Part(bits, 0, 1) + Part(bits, 1, 2) + Part(bits, 2, 4) + Part(bits, 3, 8)
                            + Part(bits, 4, 16) + Part(bits, 5, 32) + Part(bits, 6, 64)
                            + Part(bits, 7, 128)
<1> DEFINE part(i) == IF i \in bits THEN BitWeight(i) ELSE 0
<1>1. /\ part(0) = Part(bits, 0, 1) /\ part(1) = Part(bits, 1, 2) /\ part(2) = Part(bits, 2, 4)
      /\ part(3) = Part(bits, 3, 8) /\ part(4) = Part(bits, 4, 16) /\ part(5) = Part(bits, 5, 32)
      /\ part(6) = Part(bits, 6, 64) /\ part(7) = Part(bits, 7, 128)
  BY BitWeights DEF Part
<1>2. /\ part(8) = 0 /\ part(9) = 0 /\ part(10) = 0 /\ part(11) = 0 /\ part(12) = 0
      /\ part(13) = 0 /\ part(14) = 0 /\ part(15) = 0
  OBVIOUS
<1>3. FromBits(bits) = (part(0) + part(1) + part(2) + part(3))
                       + (part(4) + part(5) + part(6) + part(7))
                       + (part(8) + part(9) + part(10) + part(11))
                       + (part(12) + part(13) + part(14) + part(15))
  BY DEF FromBits
<1>4. /\ part(0) \in Int /\ part(1) \in Int /\ part(2) \in Int /\ part(3) \in Int
      /\ part(4) \in Int /\ part(5) \in Int /\ part(6) \in Int /\ part(7) \in Int
  BY <1>1 DEF Part
<1> HIDE DEF part
<1>5. QED
  BY <1>1, <1>2, <1>3, <1>4

LEMMA BitsBack == ASSUME NEW n \in Byte PROVE FromBits(Bits(n)) = n
<1> DEFINE bits == Bits(n)
           q1 == n \div 2
           q2 == n \div 4
           q3 == n \div 8
           q4 == n \div 16
           q5 == n \div 32
           q6 == n \div 64
           q7 == n \div 128
           b0 == n % 2
           b1 == q1 % 2
           b2 == q2 % 2
           b3 == q3 % 2
           b4 == q4 % 2
           b5 == q5 % 2
           b6 == q6 % 2
           b7 == q7 % 2
<1>1. bits \subseteq 0..7
  BY ByteBits
<1>2. n \in Int /\ 0 <= n /\ n <= 255
  BY DEF Byte
<1>3. /\ 0 \in bits <=> b0 = 1
      /\ 1 \in bits <=> b1 = 1
      /\ 2 \in bits <=> b2 = 1
      /\ 3 \in bits <=> b3 = 1
      /\ 4 \in bits <=> b4 = 1
      /\ 5 \in bits <=> b5 = 1
      /\ 6 \in bits <=> b6 = 1
      /\ 7 \in bits <=> b7 = 1
  <2>1. n \div 1 = n
    BY <1>2
  <2>2. QED
    BY <2>1, BitWeights DEF Bits
<1>4. n = 2 * q1 + b0
  BY ONLY <1>2
<1>5. q1 = 2 * q2 + b1
  BY ONLY <1>2
<1>6. q2 = 2 * q3 + b2
  BY ONLY <1>2
<1>7. q3 = 2 * q4 + b3
  BY ONLY <1>2
<1>8. q4 = 2 * q5 + b4
  BY ONLY <1>2
<1>9. q5 = 2 * q6 + b5
  BY ONLY <1>2
<1>10. q6 = 2 * q7 + b6
  BY ONLY <1>2
<1>11. q7 = b7
  BY ONLY <1>2
<1>12. /\ b0 \in {0, 1} /\ b1 \in {0, 1} /\ b2 \in {0, 1} /\ b3 \in {0, 1}
       /\ b4 \in {0, 1} /\ b5 \in {0, 1} /\ b6 \in {0, 1} /\ b7 \in {0, 1}
  BY ONLY <1>2
<1> HIDE DEF bits, q1, q2, q3, q4, q5, q6, q7, b0, b1, b2, b3, b4, b5, b6, b7
<1>13. /\ Part(bits, 0, 1) = b0 /\ Part(bits, 1, 2) = 2 * b1 /\ Part(bits, 2, 4) = 4 * b2
       /\ Part(bits, 3, 8) = 8 * b3 /\ Part(bits, 4, 16) = 16 * b4 /\ Part(bits, 5, 32) = 32 * b5
       /\ Part(bits, 6, 64) = 64 * b6 /\ Part(bits, 7, 128) = 128 * b7
  BY <1>3, <1>12 DEF Part
<1>14. FromBits(bits) = b0 + 2 * b1 + 4 * b2 + 8 * b3 + 16 * b4 + 32 * b5 + 64 * b6 + 128 * b7
  BY <1>1, <1>13, BitSum
<1>15. n = b0 + 2 * b1 + 4 * b2 + 8 * b3 + 16 * b4 + 32 * b5 + 64 * b6 + 128 * b7
  BY ONLY <1>4, <1>5, <1>6, <1>7, <1>8, <1>9, <1>10, <1>11, <1>12
<1>16. QED
  BY <1>14, <1>15 DEF bits

LEMMA BitsSplit ==
    ASSUME NEW A, NEW B, A \subseteq 0..7
    PROVE  FromBits(A) = FromBits(A \ B) + FromBits(A \cap B)
<1> DEFINE C == A \ B
           D == A \cap B
<1>1. \A i \in 0..7 : \A w \in Int : Part(A, i, w) = Part(C, i, w) + Part(D, i, w)
  BY DEF Part
<1>2. C \subseteq 0..7 /\ D \subseteq 0..7
  OBVIOUS
<1>3. \A S, i : \A w \in Int : Part(S, i, w) \in Int
  BY DEF Part
<1> HIDE DEF C, D
<1>4. FromBits(A) = FromBits(C) + FromBits(D)
  <2> DEFINE a0 == Part(C, 0, 1)
             a1 == Part(C, 1, 2)
             a2 == Part(C, 2, 4)
             a3 == Part(C, 3, 8)
             a4 == Part(C, 4, 16)
             a5 == Part(C, 5, 32)
             a6 == Part(C, 6, 64)
             a7 == Part(C, 7, 128)
             d0 == Part(D, 0, 1)
             d1 == Part(D, 1, 2)
             d2 == Part(D, 2, 4)
             d3 == Part(D, 3, 8)
             d4 == Part(D, 4, 16)
             d5 == Part(D, 5, 32)
             d6 == Part(D, 6, 64)
             d7 == Part(D, 7, 128)
  <2>1. /\ FromBits(C) = a0 + a1 + a2 + a3 + a4 + a5 + a6 + a7
        /\ FromBits(D) = d0 + d1 + d2 + d3 + d4 + d5 + d6 + d7
    BY <1>2, BitSum
  <2>2. FromBits(A) = Part(A, 0, 1) + Part(A, 1, 2) + Part(A, 2, 4) + Part(A, 3, 8)
                      + Part(A, 4, 16) + Part(A, 5, 32) + Part(A, 6, 64) + Part(A, 7, 128)
    BY BitSum
  <2>3. /\ Part(A, 0, 1) = a0 + d0 /\ Part(A, 1, 2) = a1 + d1 /\ Part(A, 2, 4) = a2 + d2
        /\ Part(A, 3, 8) = a3 + d3 /\ Part(A, 4, 16) = a4 + d4 /\ Part(A, 5, 32) = a5 + d5
        /\ Part(A, 6, 64) = a6 + d6 /\ Part(A, 7, 128) = a7 + d7
    BY <1>1
  <2>4. /\ a0 \in Int /\ a1 \in Int /\ a2 \in Int /\ a3 \in Int
        /\ a4 \in Int /\ a5 \in Int /\ a6 \in Int /\ a7 \in Int
        /\ d0 \in Int /\ d1 \in Int /\ d2 \in Int /\ d3 \in Int
        /\ d4 \in Int /\ d5 \in Int /\ d6 \in Int /\ d7 \in Int
    BY <1>3
  <2> HIDE DEF a0, a1, a2, a3, a4, a5, a6, a7, d0, d1, d2, d3, d4, d5, d6, d7
  <2>5. QED
    BY ONLY <2>1, <2>2, <2>3, <2>4
<1>5. QED
  BY <1>4 DEF C, D

LEMMA OneBit ==
    /\ FromBits({}) = 0
    /\ \A d \in 0..7 : BitWeight(d) \in Byte /\ FromBits({d}) = BitWeight(d) /\ Bits(BitWeight(d)) = {d}
<1>1. FromBits({}) = 0
  BY DEF FromBits
<1>2. ASSUME NEW d \in 0..7
      PROVE  BitWeight(d) \in Byte /\ FromBits({d}) = BitWeight(d) /\ Bits(BitWeight(d)) = {d}
  <2>1. d \in {0, 1, 2, 3, 4, 5, 6, 7}
    OBVIOUS
  <2>2. BitWeight(d) \in Byte
    BY <2>1, BitWeights DEF Byte
  <2>3. FromBits({d}) = BitWeight(d)
    <3>1. FromBits({d}) = Part({d}, 0, 1) + Part({d}, 1, 2) + Part({d}, 2, 4) + Part({d}, 3, 8)
                          + Part({d}, 4, 16) + Part({d}, 5, 32) + Part({d}, 6, 64)
                          + Part({d}, 7, 128)
      BY BitSum
    <3>2. QED
      BY <2>1, <3>1, BitWeights DEF Part
  <2>4. Bits(BitWeight(d)) = {d}
    <3>1. Bits(BitWeight(d)) \subseteq 0..7
      BY <2>2, ByteBits
    <3>2. ASSUME NEW i \in 0..7 PROVE (BitWeight(d) \div BitWeight(i)) % 2 = 1 <=> i = d
      <4>1. i \in {0, 1, 2, 3, 4, 5, 6, 7}
        OBVIOUS
      <4>2. QED
        BY <2>1, <4>1, BitWeights
    <3>3. QED
      BY <3>1, <3>2 DEF Bits
  <2>5. QED
    BY <2>2, <2>3, <2>4
<1>3. QED
  BY <1>1, <1>2

LEMMA UpdatedLatches ==
    ASSUME NEW c \in Core, NEW r
    PROVE  LET d == Update(c, "op0", r)
               e == Update(c, "a", r)
           IN  /\ d.op0 = r.value /\ d.a = c.a /\ d.x = c.x /\ d.y = c.y /\ d.s = c.s
               /\ d.flags = Apply(r, c.flags)
               /\ e.op0 = c.op0 /\ e.a = r.value /\ e.x = c.x /\ e.y = c.y /\ e.s = c.s
               /\ e.flags = Apply(r, c.flags)
<1>1. DOMAIN c = {"a", "x", "y", "s", "pc", "flags",
         "ea", "ptr", "op0", "signed_offset8", "data", "targets"}
  BY DEF Core
<1>2. QED
  BY <1>1 DEF Update

\* The eight operations of the rows
Rotated(row, old, carry) ==
    << (2 * old) % 256, (2 * old + carry) % 256, old \div 2,
       old \div 2 + 128 * carry, 0, 0, (old - 1) % 256, (old + 1) % 256 >>[row]
CarryOf(flags) == IF "C" \in flags THEN 1 ELSE 0
ShiftRow == << "Asl", "Rol", "Lsr", "Ror" >>

LEMMA ShiftValues ==
    ASSUME NEW old \in Byte, NEW flags
    PROVE  LET carry == CarryOf(flags)
               c == "C" \in flags
           IN  /\ Asl(old).value = (2 * old) % 256 /\ Rol(old, c).value = (2 * old + carry) % 256
               /\ Lsr(old).value = old \div 2 /\ Ror(old, c).value = old \div 2 + 128 * carry
               /\ Dec(old).value = (old - 1) % 256 /\ Inc(old).value = (old + 1) % 256
<1>1. MASK = 255 /\ SIGN = 128
  BY EightBit DEF MASK, SIGN
<1>2. \A n : Truncate(n) = n % 256
  <2>1. MASK + 1 = 256
    BY <1>1
  <2>2. QED
    BY <2>1 DEF Truncate
<1>3. \A n, b : WithShiftFlags(n, b).value = n /\ Zn(n).value = n
  BY DEF WithShiftFlags, Zn, AluResult
<1>4. old \in Int
  BY DEF Byte
<1>5. /\ Asl(old).value = (2 * old) % 256 /\ Lsr(old).value = old \div 2
      /\ Dec(old).value = (old - 1) % 256 /\ Inc(old).value = (old + 1) % 256
  BY <1>2, <1>3 DEF Asl, Lsr, Dec, Inc
<1>6. CASE "C" \in flags
  <2>1. Rol(old, TRUE).value = (2 * old + 1) % 256 /\ Ror(old, TRUE).value = old \div 2 + 128
    BY <1>1, <1>2, <1>3 DEF Rol, Ror
  <2>2. CarryOf(flags) = 1 /\ ("C" \in flags) = TRUE
    BY <1>6 DEF CarryOf
  <2> DEFINE carry == CarryOf(flags)
             c == "C" \in flags
  <2>3. old \div 2 + 128 = old \div 2 + 128 * 1
    BY <1>4
  <2>4. carry = 1 /\ c = TRUE
    BY <2>2
  <2> HIDE DEF carry, c
  <2>5. Rol(old, c).value = (2 * old + carry) % 256 /\ Ror(old, c).value = old \div 2 + 128 * carry
    BY <2>1, <2>3, <2>4
  <2>6. QED
    BY <1>5, <2>5 DEF carry, c
<1>7. CASE "C" \notin flags
  <2>1. Rol(old, FALSE).value = (2 * old + 0) % 256 /\ Ror(old, FALSE).value = old \div 2 + 0
    BY <1>1, <1>2, <1>3 DEF Rol, Ror
  <2>2. CarryOf(flags) = 0 /\ ("C" \in flags) = FALSE
    BY <1>7 DEF CarryOf
  <2>3. old \div 2 + 0 = old \div 2 + 128 * 0
    BY <1>4
  <2> DEFINE carry == CarryOf(flags)
             c == "C" \in flags
  <2>4. carry = 0 /\ c = FALSE
    BY <2>2
  <2> HIDE DEF carry, c
  <2>5. Rol(old, c).value = (2 * old + carry) % 256 /\ Ror(old, c).value = old \div 2 + 128 * carry
    BY <2>1, <2>3, <2>4
  <2>6. QED
    BY <1>5, <2>5 DEF carry, c
<1>8. QED
  BY <1>6, <1>7

LEMMA RowValue ==
    ASSUME NEW d \in Core, NEW row \in 1..8, row \notin {5, 6}, NEW opcode,
           NEW m, m \in {ModifyOps[row], UndocumentedOps[row]}
    PROVE  ModifyEffect(F, m, opcode, d).op0 = Rotated(row, d.op0, CarryOf(d.flags))
<1> DEFINE old == d.op0
           carry == CarryOf(d.flags)
           shifted(by) == Update(d, "op0", ShiftOf(by, old, CarryIn(d)))
           changed(by) == [d EXCEPT !.op0 = (@ + by) % 256]
           new == ModifyEffect(F, m, opcode, d).op0
<1>1. old \in Byte /\ old \in Int
  <2>1. old \in Byte
    BY CoreTypes
  <2> HIDE DEF old
  <2>2. QED
    BY <2>1 DEF Byte
<1>2. /\ shifted("Asl").op0 = Rotated(1, old, carry) /\ shifted("Rol").op0 = Rotated(2, old, carry)
      /\ shifted("Lsr").op0 = Rotated(3, old, carry) /\ shifted("Ror").op0 = Rotated(4, old, carry)
  <2>1. \A by : shifted(by).op0 = ShiftOf(by, old, CarryIn(d)).value
    BY UpdatedLatches
  <2>2. /\ ShiftOf("Asl", old, CarryIn(d)) = Asl(old) /\ ShiftOf("Lsr", old, CarryIn(d)) = Lsr(old)
        /\ ShiftOf("Rol", old, CarryIn(d)) = Rol(old, "C" \in d.flags)
        /\ ShiftOf("Ror", old, CarryIn(d)) = Ror(old, "C" \in d.flags)
    BY DEF ShiftOf, CarryIn
  <2>3. /\ Rotated(1, old, carry) = (2 * old) % 256 /\ Rotated(2, old, carry) = (2 * old + carry) % 256
        /\ Rotated(3, old, carry) = old \div 2 /\ Rotated(4, old, carry) = old \div 2 + 128 * carry
    BY DEF Rotated
  <2>4. /\ Asl(old).value = (2 * old) % 256 /\ Rol(old, "C" \in d.flags).value = (2 * old + carry) % 256
        /\ Lsr(old).value = old \div 2 /\ Ror(old, "C" \in d.flags).value = old \div 2 + 128 * carry
    <3> HIDE DEF old
    <3>1. QED
      BY <1>1, ShiftValues DEF carry
  <2> HIDE DEF shifted, carry, old
  <2>5. QED
    BY <2>1, <2>2, <2>3, <2>4
<1>3. /\ shifted("Asl") \in Core /\ shifted("Rol") \in Core /\ shifted("Lsr") \in Core
      /\ shifted("Ror") \in Core
  <2>1. CarryIn(d) \in BOOLEAN
    BY DEF CarryIn
  <2>2. \A by \in {"Asl", "Lsr", "Rol", "Ror"} : Keeps(d, shifted(by))
    BY <1>1, <2>1, ShiftResults, UpdateKeeps
  <2>3. QED
    BY <2>2 DEF Keeps
<1>4. /\ changed(-1).op0 = Rotated(7, old, carry) /\ changed(1).op0 = Rotated(8, old, carry)
      /\ changed(-1).flags = d.flags
  <2>1. Rotated(7, old, carry) = (old - 1) % 256 /\ Rotated(8, old, carry) = (old + 1) % 256
    BY DEF Rotated
  <2>2. old + (-1) = old - 1
    BY <1>1
  <2>3. DOMAIN d = {"a", "x", "y", "s", "pc", "flags",
         "ea", "ptr", "op0", "signed_offset8", "data", "targets"}
    BY DEF Core
  <2>4. changed(-1).op0 = (old + (-1)) % 256 /\ changed(1).op0 = (old + 1) % 256
        /\ changed(-1).flags = d.flags
    BY <2>3
  <2>5. QED
    BY <2>1, <2>2, <2>4
<1>5. changed(1) \in Core /\ changed(-1) \in Core
  <2>1. old + (-1) \in Int /\ old + 1 \in Int
    BY <1>1
  <2>2. (old + (-1)) % 256 \in Byte /\ (old + 1) % 256 \in Byte
    BY <2>1, WordSums
  <2> DEFINE less == (old + (-1)) % 256
             more == (old + 1) % 256
  <2>3. changed(-1) = [d EXCEPT !.op0 = less] /\ changed(1) = [d EXCEPT !.op0 = more]
    OBVIOUS
  <2> HIDE DEF less, more, changed
  <2>4. less \in Byte /\ more \in Byte
    BY <2>2 DEF less, more
  <2>5. QED
    BY <2>3, <2>4, SetByte DEF Keeps
<1>6. /\ ModifyOps[1] = "Asl" /\ ModifyOps[2] = "Rol" /\ ModifyOps[3] = "Lsr" /\ ModifyOps[4] = "Ror"
      /\ ModifyOps[7] = "Dec" /\ ModifyOps[8] = "Inc"
      /\ UndocumentedOps[1] = "Slo" /\ UndocumentedOps[2] = "Rla" /\ UndocumentedOps[3] = "Sre"
      /\ UndocumentedOps[4] = "Rra" /\ UndocumentedOps[7] = "Dcp" /\ UndocumentedOps[8] = "Isc"
  BY DEF ModifyOps, UndocumentedOps
<1>7. row \in {1, 2, 3, 4, 7, 8}
  OBVIOUS
<1> HIDE DEF shifted, changed, old, carry
<1>8. CASE m \in {"Asl", "Rol", "Lsr", "Ror"}
  <2>1. new = shifted(m).op0
    BY <1>8 DEF ModifyEffect, shifted, old
  <2>2. CASE m = "Asl"
    <3>1. row = 1
      BY <1>6, <1>7, <2>2
    <3>2. QED
      BY <1>2, <2>1, <2>2, <3>1 DEF old, carry
  <2>3. CASE m = "Rol"
    <3>1. row = 2
      BY <1>6, <1>7, <2>3
    <3>2. QED
      BY <1>2, <2>1, <2>3, <3>1 DEF old, carry
  <2>4. CASE m = "Lsr"
    <3>1. row = 3
      BY <1>6, <1>7, <2>4
    <3>2. QED
      BY <1>2, <2>1, <2>4, <3>1 DEF old, carry
  <2>5. CASE m = "Ror"
    <3>1. row = 4
      BY <1>6, <1>7, <2>5
    <3>2. QED
      BY <1>2, <2>1, <2>5, <3>1 DEF old, carry
  <2>6. QED
    BY <1>8, <2>2, <2>3, <2>4, <2>5
<1>9. CASE m \in {"Slo", "Rla", "Sre", "Rra"}
  <2>1. ASSUME NEW c \in Core, NEW r PROVE Update(c, "a", r).op0 = c.op0
    BY UpdatedLatches
  <2>2. CASE m = "Slo"
    <3>1. row = 1
      BY <1>6, <1>7, <2>2
    <3>2. ModifyEffect(F, m, opcode, d) = Update(shifted("Asl"), "a", Zn(Or(shifted("Asl").a, shifted("Asl").op0)))
      BY <2>2 DEF ModifyEffect, shifted, old
    <3>3. QED
      BY <1>2, <1>3, <2>1, <3>1, <3>2 DEF old, carry
  <2>3. CASE m = "Rla"
    <3>1. row = 2
      BY <1>6, <1>7, <2>3
    <3>2. ModifyEffect(F, m, opcode, d) = Update(shifted("Rol"), "a", Zn(And(shifted("Rol").a, shifted("Rol").op0)))
      BY <2>3 DEF ModifyEffect, shifted, old
    <3>3. QED
      BY <1>2, <1>3, <2>1, <3>1, <3>2 DEF old, carry
  <2>4. CASE m = "Sre"
    <3>1. row = 3
      BY <1>6, <1>7, <2>4
    <3>2. ModifyEffect(F, m, opcode, d) = Update(shifted("Lsr"), "a", Zn(Xor(shifted("Lsr").a, shifted("Lsr").op0)))
      BY <2>4 DEF ModifyEffect, shifted, old
    <3>3. QED
      BY <1>2, <1>3, <2>1, <3>1, <3>2 DEF old, carry
  <2>5. CASE m = "Rra"
    <3>1. row = 4
      BY <1>6, <1>7, <2>5
    <3>2. ModifyEffect(F, m, opcode, d) = RotateThenAdd(F, d)
      BY <2>5 DEF ModifyEffect
    <3>3. shifted("Ror") = Update(d, "op0", Ror(d.op0, CarryIn(d)))
      BY DEF shifted, ShiftOf, old
    <3>4. RotateThenAdd(F, d)
             = Update(shifted("Ror"), "a", Adc(shifted("Ror").a, shifted("Ror").op0, shifted("Ror").flags, F.DECIMAL))
      BY <3>3 DEF RotateThenAdd
    <3>5. QED
      BY <1>2, <1>3, <2>1, <3>1, <3>2, <3>4 DEF old, carry
  <2>6. QED
    BY <1>9, <2>2, <2>3, <2>4, <2>5
<1>10. CASE m \in {"Dec", "Inc"}
  <2>1. Dec(old).value = Rotated(7, old, carry) /\ Inc(old).value = Rotated(8, old, carry)
    BY <1>1, ShiftValues DEF Rotated
  <2>1a. \A r : Update(d, "op0", r).op0 = r.value
    BY UpdatedLatches
  <2>2. CASE m = "Dec"
    <3>1. row = 7
      BY <1>6, <1>7, <2>2
    <3>2. ModifyEffect(F, m, opcode, d) = Update(d, "op0", Dec(old))
      BY <2>2 DEF ModifyEffect, old
    <3>3. QED
      BY <2>1, <2>1a, <3>1, <3>2 DEF old, carry
  <2>3. CASE m = "Inc"
    <3>1. row = 8
      BY <1>6, <1>7, <2>3
    <3>2. ModifyEffect(F, m, opcode, d) = Update(d, "op0", Inc(old))
      BY <2>3 DEF ModifyEffect, old
    <3>3. QED
      BY <2>1, <2>1a, <3>1, <3>2 DEF old, carry
  <2>4. QED
    BY <1>10, <2>2, <2>3
<1>11. CASE m = "Dcp"
  <2>1. row = 7
    BY <1>6, <1>7, <1>11
  <2>2. ModifyEffect(F, m, opcode, d) = Compare(changed(-1), d.a, changed(-1).op0)
    BY <1>11 DEF ModifyEffect, changed
  <2>3. \A c \in Core : \A x, y : Compare(c, x, y).op0 = c.op0
    BY DEF Compare, SetFlag, Core
  <2>4. QED
    BY <1>4, <1>5, <2>1, <2>2, <2>3 DEF old, carry
<1>12. CASE m = "Isc"
  <2>1. row = 8
    BY <1>6, <1>7, <1>12
  <2>2. ModifyEffect(F, m, opcode, d) = Update(changed(1), "a", Sbc(d.a, changed(1).op0, d.flags, F.DECIMAL))
    BY <1>12 DEF ModifyEffect, changed
  <2>3. \A r : Update(changed(1), "a", r).op0 = changed(1).op0
    BY <1>5, UpdatedLatches
  <2>4. QED
    BY <1>4, <2>1, <2>2, <2>3 DEF old, carry
<1>13. QED
  BY <1>6, <1>7, <1>8, <1>9, <1>10, <1>11, <1>12

\* Clearing or setting one bit of a byte, and the bits of one byte in another
LEMMA BitValues ==
    ASSUME NEW n \in Byte, NEW d \in 0..7
    PROVE  LET bit == BitWeight(d)
               isSet == (n \div bit) % 2 = 1
           IN  /\ AndNot(n, bit) = n - (IF isSet THEN bit ELSE 0)
               /\ Or(n, bit) = n + (IF isSet THEN 0 ELSE bit)
<1> DEFINE bit == BitWeight(d)
           isSet == (n \div bit) % 2 = 1
           A == Bits(n)
<1>1. /\ FromBits(A) = n /\ A \subseteq 0..7 /\ Bits(bit) = {d} /\ FromBits({d}) = bit
      /\ bit \in Byte
  BY BitsBack, ByteBits, OneBit
<1>2. d \in A <=> isSet
  BY DEF Bits
<1>3. n \in Int /\ bit \in Int
  BY <1>1 DEF Byte
<1>4. AndNot(n, bit) = FromBits(A \ {d}) /\ Or(n, bit) = FromBits(A \cup {d})
  BY <1>1 DEF AndNot, Or
<1> HIDE DEF A, isSet, bit
<1>5. FromBits(A \ {d}) \in Int
  <2>1. A \ {d} \subseteq 0..7
    BY <1>1
  <2>2. FromBits(A \ {d}) \in Byte
    BY <2>1, ByteFromBits
  <2>3. QED
    BY <2>2 DEF Byte
<1>6. n = FromBits(A \ {d}) + FromBits(A \cap {d})
  BY <1>1, BitsSplit
<1>7. CASE isSet
  <2>1. A \cap {d} = {d} /\ A \cup {d} = A
    BY <1>2, <1>7
  <2>2. n = FromBits(A \ {d}) + bit /\ FromBits(A \cup {d}) = n
    BY <1>1, <1>6, <2>1
  <2>3. FromBits(A \ {d}) = n - bit /\ n + 0 = n
    BY <1>3, <1>5, <2>2
  <2>4. QED
    BY <1>4, <1>7, <2>2, <2>3 DEF bit, isSet
<1>8. CASE ~isSet
  <2>1. A \cap {d} = {} /\ A \ {d} = A /\ (A \cup {d}) \ {d} = A /\ (A \cup {d}) \cap {d} = {d}
    BY <1>2, <1>8
  <2>2. A \cup {d} \subseteq 0..7
    BY <1>1
  <2>3. FromBits(A \cup {d}) = FromBits((A \cup {d}) \ {d}) + FromBits((A \cup {d}) \cap {d})
    BY <2>2, BitsSplit
  <2>4. FromBits(A \cup {d}) = n + bit /\ FromBits(A \ {d}) = n /\ n - 0 = n
    BY <1>1, <1>3, <2>1, <2>3
  <2>5. QED
    BY <1>4, <1>8, <2>4 DEF bit, isSet
<1>9. QED
  BY <1>7, <1>8

LEMMA AndNotValue ==
    ASSUME NEW m \in Byte, NEW n \in Byte
    PROVE  AndNot(m, n) = m - And(m, n)
<1>1. FromBits(Bits(m)) = m /\ Bits(m) \subseteq 0..7
  BY BitsBack, ByteBits
<1>2. m = AndNot(m, n) + And(m, n)
  BY <1>1, BitsSplit DEF AndNot, And
<1>3. AndNot(m, n) \in Byte /\ And(m, n) \in Byte
  BY LogicBytes
<1> DEFINE rest == AndNot(m, n)
           both == And(m, n)
<1>4. rest \in Int /\ both \in Int /\ m = rest + both
  BY <1>2, <1>3 DEF Byte
<1> HIDE DEF rest, both
<1>5. rest = m - both
  BY <1>4
<1>6. QED
  BY <1>5 DEF rest, both

LEMMA BitOpValue ==
    ASSUME NEW n \in Byte, NEW opcode \in 0..255, opcode % 16 = 7
    PROVE  LET bit == BitWeight((opcode \div 16) % 8)
               isSet == (n \div bit) % 2 = 1
           IN  ModifyBit(n, opcode) = IF opcode < 128 THEN n - (IF isSet THEN bit ELSE 0)
                                      ELSE n + (IF isSet THEN 0 ELSE bit)
<1> DEFINE digit == opcode \div 16
           d == digit % 8
<1>1. opcode \in Int /\ 0 <= opcode /\ opcode <= 255
  OBVIOUS
<1>2. digit \in Int /\ 0 <= digit /\ digit <= 15 /\ (digit < 8 <=> opcode < 128)
  BY ONLY <1>1
<1>3. ModifyBit(n, opcode)
         = IF digit < 8 THEN AndNot(n, BitWeight(digit)) ELSE Or(n, BitWeight(digit - 8))
  BY DEF ModifyBit
<1> HIDE DEF digit
<1>4. d \in 0..7 /\ d = IF digit < 8 THEN digit ELSE digit - 8
  BY <1>2
<1> HIDE DEF d
<1>5. /\ AndNot(n, BitWeight(d)) = n - (IF (n \div BitWeight(d)) % 2 = 1 THEN BitWeight(d) ELSE 0)
      /\ Or(n, BitWeight(d)) = n + (IF (n \div BitWeight(d)) % 2 = 1 THEN 0 ELSE BitWeight(d))
  BY <1>4, BitValues
<1>6. ModifyBit(n, opcode)
         = IF opcode < 128 THEN AndNot(n, BitWeight(d)) ELSE Or(n, BitWeight(d))
  BY <1>2, <1>3, <1>4
<1>7. QED
  BY <1>5, <1>6 DEF d, digit

\* What a read-modify-write makes of the byte, in the terms of the property
New(m, opcode, old, a, flags) ==
    LET bit == BitWeight((opcode \div 16) % 8)
        isSet == (old \div bit) % 2 = 1
    IN  CASE BitOpcode(F, opcode) -> IF opcode < 128 THEN old - (IF isSet THEN bit ELSE 0)
                                     ELSE old + (IF isSet THEN 0 ELSE bit)
          [] m = "Tsb" -> Or(old, a)
          [] m = "Trb" -> old - And(old, a)
          [] OTHER -> Rotated(MatrixRow(opcode), old, CarryOf(flags))

LEMMA ModifiedValue ==
    ASSUME NEW d \in Core, NEW opcode \in Opcode, NEW inst, inst = Decode[opcode],
           inst.address_mode.kind \in MemoryModes, Modifies(inst)
    PROVE  /\ ModifyEffect(F, inst.mnemonic, opcode, d).op0
                 = New(inst.mnemonic, opcode, d.op0, d.a, d.flags)
           /\ Followed(inst)
<1> DEFINE m == inst.mnemonic
           row == MatrixRow(opcode)
           new == ModifyEffect(F, m, opcode, d).op0
           expected == New(m, opcode, d.op0, d.a, d.flags)
<1>1. IF BitOpcode(F, opcode) THEN m \in BitOps
      ELSE \/ m \in {"Tsb", "Trb"}
           \/ row \notin {5, 6} /\ m \in {ModifyOps[row], UndocumentedOps[row]}
  BY MatrixAssumption DEF MatrixFacts, MemoryModes, Modifies
<1>2. opcode \in 0..255
  BY DecodeAssumption
<1>3. row \in 1..8
  <2>1. opcode \in Int /\ 0 <= opcode /\ opcode <= 255
    BY <1>2
  <2>2. (opcode \div 32) + 1 \in 1..8
    BY ONLY <2>1
  <2>3. QED
    BY <2>2 DEF MatrixRow
<1>4. d.a \in Byte /\ d.op0 \in Byte
  BY CoreTypes
<1>4a. \A r : Update(d, "op0", r).op0 = r.value
  BY UpdatedLatches
<1> HIDE DEF row
<1>5. CASE BitOpcode(F, opcode)
  <2>1. opcode % 16 = 7 /\ m \in BitOps
    BY <1>1, <1>5 DEF BitOpcode
  <2>2. ModifyEffect(F, m, opcode, d) = [d EXCEPT !.op0 = ModifyBit(d.op0, opcode)]
    BY <2>1 DEF ModifyEffect, BitOps
  <2>3. new = ModifyBit(d.op0, opcode)
    BY <2>2 DEF Core
  <2>4. expected = ModifyBit(d.op0, opcode)
    <3> DEFINE n == d.op0
    <3>1. n \in Byte
      BY <1>4
    <3> HIDE DEF n
    <3>2. LET bit == BitWeight((opcode \div 16) % 8)
              isSet == (n \div bit) % 2 = 1
          IN  ModifyBit(n, opcode) = IF opcode < 128 THEN n - (IF isSet THEN bit ELSE 0)
                                     ELSE n + (IF isSet THEN 0 ELSE bit)
      BY <1>2, <2>1, <3>1, BitOpValue
    <3>3. m # "Tsb" /\ m # "Trb"
      BY <2>1 DEF BitOps
    <3> HIDE DEF m
    <3>4. QED
      BY <1>5, <3>2, <3>3 DEF New, n
  <2>5. Followed(inst)
    BY <2>1 DEF Followed
  <2>6. QED
    BY <2>3, <2>4, <2>5
<1>6. CASE ~BitOpcode(F, opcode) /\ m = "Tsb"
  <2>1. ModifyEffect(F, m, opcode, d) = Update(d, "op0", Tsb(d.a, d.op0))
    BY <1>6 DEF ModifyEffect
  <2>2. Tsb(d.a, d.op0).value = Or(d.op0, d.a)
    BY DEF Tsb, AluResult
  <2>3. new = Or(d.op0, d.a)
    BY <1>4a, <2>1, <2>2
  <2>4. expected = Or(d.op0, d.a) /\ Followed(inst)
    BY <1>6 DEF New, Followed, RowOps
  <2>5. QED
    BY <2>3, <2>4
<1>7. CASE ~BitOpcode(F, opcode) /\ m = "Trb"
  <2>1. ModifyEffect(F, m, opcode, d) = Update(d, "op0", Trb(d.a, d.op0))
    BY <1>7 DEF ModifyEffect
  <2>2. Trb(d.a, d.op0).value = AndNot(d.op0, d.a)
    BY DEF Trb, AluResult
  <2>3. new = d.op0 - And(d.op0, d.a)
    BY <1>4, <1>4a, <2>1, <2>2, AndNotValue
  <2>4. expected = d.op0 - And(d.op0, d.a) /\ Followed(inst)
    BY <1>7 DEF New, Followed, RowOps
  <2>5. QED
    BY <2>3, <2>4
<1>8. CASE ~BitOpcode(F, opcode) /\ m \notin {"Tsb", "Trb"}
  <2>1. row \notin {5, 6} /\ m \in {ModifyOps[row], UndocumentedOps[row]}
    BY <1>1, <1>8
  <2>2. new = Rotated(row, d.op0, CarryOf(d.flags))
    BY <1>3, <2>1, RowValue
  <2>3. expected = Rotated(row, d.op0, CarryOf(d.flags))
    BY <1>8 DEF New, row
  <2>4. Followed(inst)
    <3>1. row \in {1, 2, 3, 4, 7, 8}
      BY <1>3, <2>1
    <3>2. /\ ModifyOps[1] = "Asl" /\ ModifyOps[2] = "Rol" /\ ModifyOps[3] = "Lsr"
          /\ ModifyOps[4] = "Ror" /\ ModifyOps[7] = "Dec" /\ ModifyOps[8] = "Inc"
          /\ UndocumentedOps[1] = "Slo" /\ UndocumentedOps[2] = "Rla" /\ UndocumentedOps[3] = "Sre"
          /\ UndocumentedOps[4] = "Rra" /\ UndocumentedOps[7] = "Dcp" /\ UndocumentedOps[8] = "Isc"
      BY DEF ModifyOps, UndocumentedOps
    <3>3. m \in RowOps
      BY <2>1, <3>1, <3>2 DEF RowOps
    <3>4. QED
      BY <3>3 DEF Followed
  <2>5. QED
    BY <2>2, <2>3, <2>4
<1>9. QED
  BY <1>5, <1>6, <1>7, <1>8

LEMMA MatrixWritesBack == MatrixInv => WritesBack
<1> SUFFICES ASSUME MatrixInv, AccessesMemory, action = "ReadModifyWrite"
             PROVE  LET last == Len(Body)
                        old == Operand
                        carry == IF "C" \in entry.flags THEN 1 ELSE 0
                        bit == BitWeight((current_opcode \div 16) % 8)
                        isSet == (old \div bit) % 2 = 1
                        new == CASE BitOpcode(F, current_opcode) ->
                                      IF current_opcode < 128 THEN old - (IF isSet THEN bit ELSE 0)
                                      ELSE old + (IF isSet THEN 0 ELSE bit)
                                 [] mnemonic = "Tsb" -> Or(old, entry.a)
                                 [] mnemonic = "Trb" -> old - And(old, entry.a)
                                 [] OTHER -> << (2 * old) % 256, (2 * old + carry) % 256, old \div 2,
                                                old \div 2 + 128 * carry, 0, 0, (old - 1) % 256,
                                                (old + 1) % 256 >>[MatrixRow(current_opcode)]
                    IN  /\ {i \in 1..last : ~Body[i].read}
                               = IF F.RMW_DUMMY_WRITE THEN {last - 1, last} ELSE {last}
                        /\ F.RMW_DUMMY_WRITE => Body[last - 1].data = old
                        /\ Body[last].data = new
  BY DEF WritesBack
<1> DEFINE n == Len(log)
           old == log[n - 2].data
<1>1. /\ current_inst # NoInst /\ IsEmpty(ucycs) /\ Modifies(current_inst)
      /\ current_inst.address_mode.kind \in MemoryModes
  BY DEF AccessesMemory, AtBoundary, mode, action, Modifies
<1>2. current_opcode \in Opcode /\ current_inst = Decode[current_opcode]
  BY <1>1 DEF MatrixInv, TestInv, HistoryInv
<1>3. core \in Core
  BY DEF MatrixInv, TestInv, DataInv
<1>4. Followed(current_inst)
  BY <1>1, <1>2, <1>3, ModifiedValue
<1>5. MatrixHolds
  BY <1>1, <1>4 DEF MatrixInv
<1>6. ~extra_adc_sbc_cycle
  BY <1>4, NotDecimal DEF MatrixInv
<1>7. Body = log /\ Operand = old
  BY <1>6 DEF Body, Operand
<1>8. Len(ucycs.todo) = 0
  BY <1>1, EmptySeq DEF IsEmpty
<1>9. /\ n >= 3 /\ AllRead(log, n - 2) /\ Dummied(log[n - 1], old)
      /\ ~log[n].read /\ log[n].data = core.op0 /\ ModifiedFrom(old, core)
  BY <1>1, <1>5, <1>8 DEF MatrixHolds, Modifying
<1>10. n \in Nat
  BY LenProperties DEF MatrixInv
<1>11. PICK d \in Core : /\ Held(d, old)
                         /\ Alike(ModifyEffect(F, current_inst.mnemonic, current_opcode, d), core)
  BY <1>9 DEF ModifiedFrom
<1>12. core.op0 = New(current_inst.mnemonic, current_opcode, d.op0, d.a, d.flags)
  <2>1. core.op0 = ModifyEffect(F, current_inst.mnemonic, current_opcode, d).op0
    BY <1>11 DEF Alike
  <2>2. QED
    BY <1>1, <1>2, <2>1, ModifiedValue
<1>13. d.op0 = old /\ d.a = entry.a /\ d.flags = entry.flags
  BY <1>11, WithinUnchanged DEF Held
<1> HIDE DEF old, n
<1>14. core.op0 = New(current_inst.mnemonic, current_opcode, old, entry.a, entry.flags)
  BY <1>12, <1>13
<1>15. {i \in 1..n : ~log[i].read} = IF F.RMW_DUMMY_WRITE THEN {n - 1, n} ELSE {n}
  <2>1. \A i \in 1..n : i \in 1..(n - 2) \/ i = n - 1 \/ i = n
    BY <1>9, <1>10
  <2>2. \A i \in 1..(n - 2) : log[i].read /\ i # n - 1 /\ i # n
    BY <1>9, <1>10 DEF AllRead
  <2>3. ~log[n].read /\ (log[n - 1].read <=> ~F.RMW_DUMMY_WRITE) /\ n \in 1..n /\ n - 1 \in 1..n
    BY <1>9, <1>10 DEF Dummied
  <2>4. QED
    BY <2>1, <2>2, <2>3
<1>16. F.RMW_DUMMY_WRITE => log[n - 1].data = old
  BY <1>9 DEF Dummied
<1>17. QED
  BY <1>7, <1>9, <1>14, <1>15, <1>16 DEF New, Rotated, CarryOf, mnemonic, n

\* A read-modify-write reads its operand, and writes back what its row of the opcode
\* matrix makes of it, for every table, address and byte: its queue ends in three ops of
\* finish_action, and no op before them changes what the operation depends on.
THEOREM WritesBackKept == TestSpec => []WritesBack
<1>1. SetupInitial => MatrixInv
  BY MatrixStarts
<1>2. MatrixInv /\ [TestCycle]_allVars => MatrixInv'
  BY MatrixNext
<1>3. MatrixInv => WritesBack
  BY MatrixWritesBack
<1>4. QED
  BY <1>1, <1>2, <1>3, PTL DEF TestSpec

-----------------------------------------------------------------------------
(* The undocumented opcodes.                                               *)

LEMMA NamedReads ==
    ASSUME current_inst \in Instruction, NEW c
    PROVE  /\ DoRead("Ora", c) = Update(c, "a", Zn(Or(c.a, c.op0)))
           /\ DoRead("And", c) = Update(c, "a", Zn(And(c.a, c.op0)))
           /\ DoRead("Eor", c) = Update(c, "a", Zn(Xor(c.a, c.op0)))
           /\ DoRead("Lda", c) = Update(c, "a", Zn(c.op0))
           /\ DoRead("Ldx", c) = Update(c, "x", Zn(c.op0))
           /\ DoRead("Cmp", c) = Compare(c, c.a, c.op0)
           /\ DoRead("Adc", c) = Update(c, "a", Adc(c.a, c.op0, c.flags, F.DECIMAL))
           /\ DoRead("Sbc", c) = Update(c, "a", Sbc(c.a, c.op0, c.flags, F.DECIMAL))
<1>1. ASSUME NEW name PROVE [current_inst EXCEPT !.mnemonic = name].mnemonic = name
  BY DEF Instruction
<1>2. ASSUME NEW name PROVE DoRead(name, c) = ReadEffect(F, [current_inst EXCEPT !.mnemonic = name], c)
  BY DEF DoRead
<1>3. ASSUME NEW inst
      PROVE  /\ inst.mnemonic = "Ora" => ReadEffect(F, inst, c) = Update(c, "a", Zn(Or(c.a, c.op0)))
             /\ inst.mnemonic = "And" => ReadEffect(F, inst, c) = Update(c, "a", Zn(And(c.a, c.op0)))
             /\ inst.mnemonic = "Eor" => ReadEffect(F, inst, c) = Update(c, "a", Zn(Xor(c.a, c.op0)))
             /\ inst.mnemonic = "Lda" => ReadEffect(F, inst, c) = Update(c, "a", Zn(c.op0))
             /\ inst.mnemonic = "Ldx" => ReadEffect(F, inst, c) = Update(c, "x", Zn(c.op0))
  BY DEF ReadEffect
<1>4. ASSUME NEW inst
      PROVE  /\ inst.mnemonic = "Cmp" => ReadEffect(F, inst, c) = Compare(c, c.a, c.op0)
             /\ inst.mnemonic = "Adc" =>
                   ReadEffect(F, inst, c) = Update(c, "a", Adc(c.a, c.op0, c.flags, F.DECIMAL))
             /\ inst.mnemonic = "Sbc" =>
                   ReadEffect(F, inst, c) = Update(c, "a", Sbc(c.a, c.op0, c.flags, F.DECIMAL))
  BY DEF ReadEffect
<1>5. QED
  BY <1>1, <1>2, <1>3, <1>4

LEMMA UpdateAlike ==
    ASSUME NEW c \in Core, NEW d \in Core, Alike(c, d), NEW register \in {"a", "x", "op0"}, NEW r
    PROVE  Alike(Update(c, register, r), Update(d, register, r))
<1>1. /\ DOMAIN c = {"a", "x", "y", "s", "pc", "flags",
         "ea", "ptr", "op0", "signed_offset8", "data", "targets"}
      /\ DOMAIN d = DOMAIN c
  BY DEF Core
<1>2. /\ d.a = c.a /\ d.x = c.x /\ d.y = c.y /\ d.s = c.s /\ d.flags = c.flags /\ d.op0 = c.op0
  BY WithinUnchanged DEF Alike
<1>3. CASE register = "a"
  BY <1>1, <1>2, <1>3 DEF Update, Alike, Within
<1>4. CASE register = "x"
  BY <1>1, <1>2, <1>4 DEF Update, Alike, Within
<1>5. CASE register = "op0"
  BY <1>1, <1>2, <1>5 DEF Update, Alike, Within
<1>6. QED
  BY <1>3, <1>4, <1>5

\* The count of a byte sets Z and N, which the operation after it sets again.
LEMMA Overridden ==
    ASSUME NEW r, {"Z", "N"} \subseteq r.flag_mask, NEW v, NEW flags
    PROVE  Apply(r, Apply(Zn(v), flags)) = Apply(r, flags)
<1>1. Zn(v).flag_mask = {"Z", "N"}
  BY Masks
<1>2. QED
  BY <1>1 DEF Apply

CountedAlike(c, d) ==
    /\ d.a = c.a /\ d.x = c.x /\ d.y = c.y /\ d.s = c.s /\ d.op0 = c.op0
    /\ \E v : d.flags = Apply(Zn(v), c.flags)

LEMMA UpdateCounted ==
    ASSUME NEW c \in Core, NEW d \in Core, CountedAlike(c, d), NEW r, {"Z", "N"} \subseteq r.flag_mask
    PROVE  Alike(Update(c, "a", r), Update(d, "a", r))
<1>1. Apply(r, d.flags) = Apply(r, c.flags)
  BY Overridden DEF CountedAlike
<1> DEFINE e == Update(c, "a", r)
           f == Update(d, "a", r)
<1>2. /\ e.op0 = c.op0 /\ e.a = r.value /\ e.x = c.x /\ e.y = c.y /\ e.s = c.s
      /\ e.flags = Apply(r, c.flags)
  BY UpdatedLatches
<1>3. /\ f.op0 = d.op0 /\ f.a = r.value /\ f.x = d.x /\ f.y = d.y /\ f.s = d.s
      /\ f.flags = Apply(r, d.flags)
  BY UpdatedLatches
<1> HIDE DEF e, f
<1>4. QED
  BY <1>1, <1>2, <1>3, WithinUnchanged DEF CountedAlike, Alike, e, f

LEMMA CompareCounted ==
    ASSUME NEW c \in Core, NEW d \in Core, CountedAlike(c, d), NEW m, NEW n
    PROVE  Alike(Compare(c, m, n), Compare(d, m, n))
<1> DEFINE q == Zn((m - n) % 256)
           e == Compare(c, m, n)
           f == Compare(d, m, n)
           flags(b) == (Apply(q, b.flags) \ {"C"}) \cup Flag("C", m >= n)
<1>1. Apply(q, d.flags) = Apply(q, c.flags)
  <2>1. q.flag_mask = {"Z", "N"}
    BY Masks
  <2> HIDE DEF q
  <2>2. QED
    BY <2>1, Overridden DEF CountedAlike
<1>2. ASSUME NEW b \in Core
      PROVE  LET g == Compare(b, m, n)
             IN  /\ g.a = b.a /\ g.x = b.x /\ g.y = b.y /\ g.s = b.s /\ g.op0 = b.op0
                 /\ g.flags = flags(b)
  <2>1. Compare(b, m, n) = SetFlag([b EXCEPT !.flags = Apply(q, @)], "C", m >= n)
    BY DEF Compare
  <2> HIDE DEF q
  <2>2. QED
    BY <2>1 DEF SetFlag, Core
<1>3. flags(c) = flags(d)
  BY <1>1
<1> HIDE DEF flags
<1>4. /\ e.a = c.a /\ e.x = c.x /\ e.y = c.y /\ e.s = c.s /\ e.op0 = c.op0 /\ e.flags = flags(c)
      /\ f.a = d.a /\ f.x = d.x /\ f.y = d.y /\ f.s = d.s /\ f.op0 = d.op0 /\ f.flags = flags(d)
  BY <1>2
<1> HIDE DEF e, f
<1>5. QED
  BY <1>3, <1>4, WithinUnchanged DEF CountedAlike, Alike, e, f

LEMMA SubtractCounted ==
    ASSUME NEW a, NEW b, NEW flags, NEW v, NEW semantics
    PROVE  /\ Sbc(a, b, Apply(Zn(v), flags), semantics) = Sbc(a, b, flags, semantics)
           /\ {"Z", "N"} \subseteq Sbc(a, b, flags, semantics).flag_mask
<1> DEFINE more == Apply(Zn(v), flags)
<1>1. ("C" \in more <=> "C" \in flags) /\ (Binary(more, semantics) <=> Binary(flags, semantics))
  <2>1. Zn(v).flag_mask = {"Z", "N"}
    BY Masks
  <2>2. QED
    BY <2>1 DEF Apply, Binary
<1> HIDE DEF more
<1>2. (IF "C" \in more THEN 0 ELSE 1) = (IF "C" \in flags THEN 0 ELSE 1)
  BY <1>1
<1>3. Sbc(a, b, more, semantics) = Sbc(a, b, flags, semantics)
  BY <1>1, <1>2 DEF Sbc
<1>4. \A x, y, z : WithArithFlags(x, y, z).flag_mask = {"Z", "N", "C", "V"}
  BY DEF WithArithFlags, AluResult
<1>5. \A x, y, z, w : [WithArithFlags(x, y, z) EXCEPT !.value = w].flag_mask = {"Z", "N", "C", "V"}
  BY DEF WithArithFlags, AluResult
<1>6. Sbc(a, b, flags, semantics).flag_mask = {"Z", "N", "C", "V"}
  BY <1>4, <1>5 DEF Sbc
<1>7. QED
  BY <1>3, <1>6 DEF more

\* The undocumented opcode of a row is the two documented ones.
LEMMA RowsAgree ==
    ASSUME current_inst \in Instruction, NEW c \in Core, NEW d \in Core, Alike(c, d),
           NEW row \in {1, 2, 3, 4, 7, 8}, NEW opcode
    PROVE  Alike(ModifyEffect(F, UndocumentedOps[row], opcode, c),
                 DoRead(AccumulatorOps[row], ModifyEffect(F, ModifyOps[row], opcode, d)))
<1> DEFINE shifted(b, by) == Update(b, "op0", ShiftOf(by, b.op0, CarryIn(b)))
           both == ModifyEffect(F, UndocumentedOps[row], opcode, c)
           first == ModifyEffect(F, ModifyOps[row], opcode, d)
           second == DoRead(AccumulatorOps[row], first)
<1>1. /\ d.a = c.a /\ d.x = c.x /\ d.y = c.y /\ d.s = c.s /\ d.flags = c.flags /\ d.op0 = c.op0
  BY WithinUnchanged DEF Alike
<1>2. c.op0 \in Byte /\ d.op0 \in Byte
  BY CoreTypes
<1>3. ASSUME NEW by \in {"Asl", "Lsr", "Rol", "Ror"}
      PROVE  /\ shifted(c, by) \in Core /\ shifted(d, by) \in Core
             /\ Alike(shifted(c, by), shifted(d, by))
             /\ ModifyEffect(F, by, opcode, d) = shifted(d, by)
  <2>1. ASSUME NEW b \in Core PROVE shifted(b, by) \in Core
    <3>1. CarryIn(b) \in BOOLEAN /\ b.op0 \in Byte
      BY CoreTypes DEF CarryIn
    <3>2. ByteResult(ShiftOf(by, b.op0, CarryIn(b)))
      BY <3>1, ShiftResults
    <3>3. QED
      BY <3>2, UpdateKeeps DEF Keeps
  <2>2. Alike(shifted(c, by), shifted(d, by))
    <3> DEFINE r == ShiftOf(by, c.op0, CarryIn(c))
    <3>1. ShiftOf(by, d.op0, CarryIn(d)) = r
      BY <1>1 DEF CarryIn
    <3>2. shifted(c, by) = Update(c, "op0", r) /\ shifted(d, by) = Update(d, "op0", r)
      BY <3>1
    <3> HIDE DEF r, shifted
    <3>3. QED
      BY <3>2, UpdateAlike
  <2>3. ModifyEffect(F, by, opcode, d) = shifted(d, by)
    BY DEF ModifyEffect
  <2>4. QED
    BY <2>1, <2>2, <2>3
<1>4. ASSUME NEW b PROVE
          /\ ModifyEffect(F, "Slo", opcode, b)
                = Update(shifted(b, "Asl"), "a", Zn(Or(shifted(b, "Asl").a, shifted(b, "Asl").op0)))
          /\ ModifyEffect(F, "Rla", opcode, b)
                = Update(shifted(b, "Rol"), "a", Zn(And(shifted(b, "Rol").a, shifted(b, "Rol").op0)))
          /\ ModifyEffect(F, "Sre", opcode, b)
                = Update(shifted(b, "Lsr"), "a", Zn(Xor(shifted(b, "Lsr").a, shifted(b, "Lsr").op0)))
          /\ ModifyEffect(F, "Rra", opcode, b)
                = Update(shifted(b, "Ror"), "a", Adc(shifted(b, "Ror").a, shifted(b, "Ror").op0,
                                                    shifted(b, "Ror").flags, F.DECIMAL))
  <2>1. ModifyEffect(F, "Rra", opcode, b) = RotateThenAdd(F, b)
    BY DEF ModifyEffect
  <2>2. ShiftOf("Ror", b.op0, CarryIn(b)) = Ror(b.op0, CarryIn(b))
    BY DEF ShiftOf
  <2>3. QED
    BY <2>1, <2>2 DEF ModifyEffect, RotateThenAdd
<1> HIDE DEF shifted
<1>5. /\ ModifyOps[1] = "Asl" /\ ModifyOps[2] = "Rol" /\ ModifyOps[3] = "Lsr" /\ ModifyOps[4] = "Ror"
      /\ ModifyOps[7] = "Dec" /\ ModifyOps[8] = "Inc"
  BY DEF ModifyOps
<1>6. /\ UndocumentedOps[1] = "Slo" /\ UndocumentedOps[2] = "Rla" /\ UndocumentedOps[3] = "Sre"
      /\ UndocumentedOps[4] = "Rra" /\ UndocumentedOps[7] = "Dcp" /\ UndocumentedOps[8] = "Isc"
  BY DEF UndocumentedOps
<1>7. /\ AccumulatorOps[1] = "Ora" /\ AccumulatorOps[2] = "And" /\ AccumulatorOps[3] = "Eor"
      /\ AccumulatorOps[4] = "Adc" /\ AccumulatorOps[7] = "Cmp" /\ AccumulatorOps[8] = "Sbc"
  BY DEF AccumulatorOps
<1>8. ASSUME NEW b \in Core, NEW e \in Core, Alike(b, e)
      PROVE  /\ e.a = b.a /\ e.op0 = b.op0 /\ e.flags = b.flags
             /\ \A r : Alike(Update(b, "a", r), Update(e, "a", r))
  BY <1>8, UpdateAlike, WithinUnchanged DEF Alike
<1>9. CASE row = 1
  <2> DEFINE b == shifted(c, "Asl")
             e == shifted(d, "Asl")
  <2>1. b \in Core /\ e \in Core /\ Alike(b, e) /\ first = e
    BY <1>3, <1>5, <1>9
  <2>2. both = Update(b, "a", Zn(Or(b.a, b.op0)))
    BY <1>4, <1>6, <1>9
  <2>3. second = DoRead("Ora", e)
    BY <1>7, <1>9, <2>1
  <2> HIDE DEF b, e, first, second, both
  <2>4. second = Update(e, "a", Zn(Or(e.a, e.op0)))
    BY <2>3, NamedReads
  <2>5. Alike(both, second)
    BY <1>8, <2>1, <2>2, <2>4
  <2>6. QED
    BY <2>5 DEF both, second, first
<1>10. CASE row = 2
  <2> DEFINE b == shifted(c, "Rol")
             e == shifted(d, "Rol")
  <2>1. b \in Core /\ e \in Core /\ Alike(b, e) /\ first = e
    BY <1>3, <1>5, <1>10
  <2>2. both = Update(b, "a", Zn(And(b.a, b.op0)))
    BY <1>4, <1>6, <1>10
  <2>3. second = DoRead("And", e)
    BY <1>7, <1>10, <2>1
  <2> HIDE DEF b, e, first, second, both
  <2>4. second = Update(e, "a", Zn(And(e.a, e.op0)))
    BY <2>3, NamedReads
  <2>5. Alike(both, second)
    BY <1>8, <2>1, <2>2, <2>4
  <2>6. QED
    BY <2>5 DEF both, second, first
<1>11. CASE row = 3
  <2> DEFINE b == shifted(c, "Lsr")
             e == shifted(d, "Lsr")
  <2>1. b \in Core /\ e \in Core /\ Alike(b, e) /\ first = e
    BY <1>3, <1>5, <1>11
  <2>2. both = Update(b, "a", Zn(Xor(b.a, b.op0)))
    BY <1>4, <1>6, <1>11
  <2>3. second = DoRead("Eor", e)
    BY <1>7, <1>11, <2>1
  <2> HIDE DEF b, e, first, second, both
  <2>4. second = Update(e, "a", Zn(Xor(e.a, e.op0)))
    BY <2>3, NamedReads
  <2>5. Alike(both, second)
    BY <1>8, <2>1, <2>2, <2>4
  <2>6. QED
    BY <2>5 DEF both, second, first
<1>12. CASE row = 4
  <2> DEFINE b == shifted(c, "Ror")
             e == shifted(d, "Ror")
  <2>1. b \in Core /\ e \in Core /\ Alike(b, e) /\ first = e
    BY <1>3, <1>5, <1>12
  <2>2. both = Update(b, "a", Adc(b.a, b.op0, b.flags, F.DECIMAL))
    BY <1>4, <1>6, <1>12
  <2>3. second = DoRead("Adc", e)
    BY <1>7, <1>12, <2>1
  <2> HIDE DEF b, e, first, second, both
  <2>4. second = Update(e, "a", Adc(e.a, e.op0, e.flags, F.DECIMAL))
    BY <2>3, NamedReads
  <2>5. Alike(both, second)
    BY <1>8, <2>1, <2>2, <2>4
  <2>6. QED
    BY <2>5 DEF both, second, first
<1>13. ASSUME NEW by \in {-1, 1}, NEW r, r = IF by = 1 THEN Inc(d.op0) ELSE Dec(d.op0)
       PROVE  LET b == [c EXCEPT !.op0 = (@ + by) % 256]
                  e == Update(d, "op0", r)
              IN  b \in Core /\ e \in Core /\ CountedAlike(b, e) /\ b.a = c.a /\ b.flags = c.flags
  <2> DEFINE n == (c.op0 + by) % 256
             b == [c EXCEPT !.op0 = (@ + by) % 256]
             e == Update(d, "op0", r)
  <2>1. c.op0 \in Int
    BY <1>2 DEF Byte
  <2>2. n \in Byte /\ r = Zn(n)
    <3>1. c.op0 + by \in Int
      BY <2>1
    <3>2. Truncate(c.op0 + by) \in Byte /\ Truncate(c.op0 + by) = n
      BY <3>1, EightBits
    <3>3. c.op0 - 1 = c.op0 + (-1)
      BY <2>1
    <3>4. r = Zn(Truncate(c.op0 + by))
      BY <1>1, <1>13, <3>3 DEF Inc, Dec
    <3>5. QED
      BY <3>2, <3>4
  <2>3. b = [c EXCEPT !.op0 = n]
    OBVIOUS
  <2> HIDE DEF n, b
  <2>4. b \in Core /\ b.op0 = n /\ b.a = c.a /\ b.x = c.x /\ b.y = c.y /\ b.s = c.s /\ b.flags = c.flags
    BY <2>2, <2>3 DEF Core
  <2>5. e \in Core
    BY <2>2, ZnResult, UpdateKeeps DEF Keeps
  <2>6. e.op0 = n /\ e.a = d.a /\ e.x = d.x /\ e.y = d.y /\ e.s = d.s /\ e.flags = Apply(Zn(n), d.flags)
    <3>1. Zn(n).value = n
      BY DEF Zn, AluResult
    <3>2. QED
      BY <2>2, <3>1, UpdatedLatches
  <2> HIDE DEF e
  <2>7. CountedAlike(b, e)
    BY <1>1, <2>4, <2>6 DEF CountedAlike
  <2>8. QED
    BY <2>4, <2>5, <2>7 DEF b, e
<1>14. CASE row = 7
  <2> DEFINE b == [c EXCEPT !.op0 = (@ + (-1)) % 256]
             e == Update(d, "op0", Dec(d.op0))
  <2>1. b \in Core /\ e \in Core /\ CountedAlike(b, e) /\ b.a = c.a
    BY <1>13
  <2>2. both = Compare(b, c.a, b.op0)
    BY <1>6, <1>14 DEF ModifyEffect
  <2>3. first = e
    BY <1>5, <1>14 DEF ModifyEffect
  <2>4. second = DoRead("Cmp", e)
    BY <1>7, <1>14, <2>3
  <2> HIDE DEF b, e, first, second, both
  <2>5. second = Compare(e, e.a, e.op0)
    BY <2>4, NamedReads
  <2>6. e.a = c.a /\ e.op0 = b.op0
    BY <2>1 DEF CountedAlike
  <2>7. Alike(both, second)
    BY <2>1, <2>2, <2>5, <2>6, CompareCounted
  <2>8. QED
    BY <2>7 DEF both, second, first
<1>15. CASE row = 8
  <2> DEFINE b == [c EXCEPT !.op0 = (@ + 1) % 256]
             e == Update(d, "op0", Inc(d.op0))
             r == Sbc(c.a, b.op0, c.flags, F.DECIMAL)
  <2>1. b \in Core /\ e \in Core /\ CountedAlike(b, e) /\ b.a = c.a /\ b.flags = c.flags
    BY <1>13
  <2>2. both = Update(b, "a", r)
    BY <1>6, <1>15 DEF ModifyEffect
  <2>3. first = e
    BY <1>5, <1>15 DEF ModifyEffect
  <2>4. second = DoRead("Sbc", e)
    BY <1>7, <1>15, <2>3
  <2> HIDE DEF b, e, first, second, both
  <2>5. second = Update(e, "a", Sbc(e.a, e.op0, e.flags, F.DECIMAL))
    BY <2>4, NamedReads
  <2>6. e.a = c.a /\ e.op0 = b.op0 /\ \E v : e.flags = Apply(Zn(v), c.flags)
    BY <2>1 DEF CountedAlike
  <2>7. Sbc(e.a, e.op0, e.flags, F.DECIMAL) = r /\ {"Z", "N"} \subseteq r.flag_mask
    BY <2>6, SubtractCounted
  <2> HIDE DEF r
  <2>8. Alike(both, second)
    BY <2>1, <2>2, <2>5, <2>7, UpdateCounted
  <2>9. QED
    BY <2>8 DEF both, second, first
<1>16. QED
  BY <1>9, <1>10, <1>11, <1>12, <1>14, <1>15

\* LAX is LDA and LDX.
LEMMA BothLoads ==
    ASSUME current_inst \in Instruction, current_inst.mnemonic = "Lax",
           NEW c \in Core, NEW d \in Core, Alike(c, d)
    PROVE  SameRegisters(ReadEffect(F, current_inst, c), DoRead("Ldx", DoRead("Lda", d)))
<1> DEFINE n == c.op0
           e == Update(d, "a", Zn(n))
           f == Update(e, "x", Zn(n))
           both == ReadEffect(F, current_inst, c)
<1>1. d.a = c.a /\ d.x = c.x /\ d.y = c.y /\ d.s = c.s /\ d.flags = c.flags /\ d.op0 = n /\ n \in Byte
  BY WithinUnchanged, CoreTypes DEF Alike
<1>2. both = [Update(c, "a", Zn(n)) EXCEPT !.x = n]
  BY DEF ReadEffect
<1> HIDE DEF n, both
<1>3. Zn(n).value = n /\ {"Z", "N"} \subseteq Zn(n).flag_mask
  BY Masks DEF Zn, AluResult
<1>4. e \in Core /\ e.op0 = n /\ e.a = n /\ e.y = c.y /\ e.s = c.s /\ e.flags = Apply(Zn(n), c.flags)
  <2>1. e \in Core
    BY <1>1, ZnResult, UpdateKeeps DEF Keeps
  <2> DEFINE r == Zn(n)
  <2> HIDE DEF r
  <2>2. e.op0 = d.op0 /\ e.a = r.value /\ e.y = d.y /\ e.s = d.s /\ e.flags = Apply(r, d.flags)
    BY UpdatedLatches DEF r
  <2>3. QED
    BY <1>1, <1>3, <2>1, <2>2 DEF r
<1>5. DoRead("Lda", d) = e
  BY <1>1, NamedReads
<1> HIDE DEF e
<1>6. DoRead("Ldx", e) = f
  BY <1>4, NamedReads
<1>7. f.a = n /\ f.x = n /\ f.y = c.y /\ f.s = c.s /\ f.flags = Apply(Zn(n), c.flags)
  <2>1. Apply(Zn(n), e.flags) = Apply(Zn(n), c.flags)
    BY <1>3, <1>4, Overridden
  <2>2. f.a = e.a /\ f.x = n /\ f.y = e.y /\ f.s = e.s /\ f.flags = Apply(Zn(n), e.flags)
    <3>1. DOMAIN e = {"a", "x", "y", "s", "pc", "flags",
         "ea", "ptr", "op0", "signed_offset8", "data", "targets"}
      BY <1>4 DEF Core
    <3>2. QED
      BY <1>3, <3>1 DEF Update
  <2>3. QED
    BY <1>4, <2>1, <2>2
<1> HIDE DEF f
<1>8. both.a = n /\ both.x = n /\ both.y = c.y /\ both.s = c.s /\ both.flags = Apply(Zn(n), c.flags)
  <2>1. DOMAIN c = {"a", "x", "y", "s", "pc", "flags",
         "ea", "ptr", "op0", "signed_offset8", "data", "targets"}
    BY DEF Core
  <2>2. QED
    BY <1>2, <1>3, <2>1 DEF Update
<1>9. QED
  BY <1>5, <1>6, <1>7, <1>8 DEF SameRegisters, both

\* The immediates
LEMMA ImmediateParts ==
    ASSUME current_inst \in Instruction, NEW c \in Core, NEW d \in Core, Alike(c, d)
    PROVE  LET anded == DoRead("And", d)
               v == And(c.a, c.op0)
           IN  /\ anded \in Core /\ v \in Byte
               /\ anded.a = v /\ anded.x = c.x /\ anded.y = c.y /\ anded.s = c.s
               /\ anded.flags = Apply(Zn(v), c.flags)
               /\ CarryIn(anded) = CarryIn(c)
<1> DEFINE anded == DoRead("And", d)
           v == And(c.a, c.op0)
<1>1. d.a = c.a /\ d.x = c.x /\ d.y = c.y /\ d.s = c.s /\ d.flags = c.flags /\ d.op0 = c.op0
  BY WithinUnchanged DEF Alike
<1>2. v \in Byte
  BY CoreTypes, LogicBytes
<1>3. anded = Update(d, "a", Zn(v))
  BY <1>1, NamedReads
<1> HIDE DEF anded, v
<1>4. Zn(v).value = v /\ Zn(v).flag_mask = {"Z", "N"}
  BY Masks DEF Zn, AluResult
<1>5. anded \in Core
  BY <1>2, <1>3, ZnResult, UpdateKeeps DEF Keeps
<1>6. /\ anded.a = v /\ anded.x = c.x /\ anded.y = c.y /\ anded.s = c.s
      /\ anded.flags = Apply(Zn(v), c.flags)
  BY <1>1, <1>3, <1>4, UpdatedLatches
<1>7. "C" \in anded.flags <=> "C" \in c.flags
  BY <1>4, <1>6 DEF Apply
<1>8. QED
  BY <1>2, <1>5, <1>6, <1>7 DEF CarryIn, anded, v

LEMMA ShiftsA ==
    ASSUME NEW c, NEW name \in {"Asl", "Lsr", "Ror"}
    PROVE  ImpliedEffect(name, c) = Update(c, "a", ShiftOf(name, c.a, CarryIn(c)))
BY DEF ImpliedEffect

LEMMA AlrCombines ==
    ASSUME current_inst \in Instruction, current_inst.mnemonic = "Alr",
           NEW c \in Core, NEW d \in Core, Alike(c, d)
    PROVE  SameRegisters(ReadEffect(F, current_inst, c), ImpliedEffect("Lsr", DoRead("And", d)))
<1> DEFINE anded == DoRead("And", d)
           v == And(c.a, c.op0)
           r == Lsr(v)
           e == Update(c, "a", r)
           f == Update(anded, "a", r)
<1>1. /\ anded \in Core
      /\ anded.a = v /\ anded.x = c.x /\ anded.y = c.y /\ anded.s = c.s
      /\ anded.flags = Apply(Zn(v), c.flags)
  BY ImmediateParts
<1>2. ReadEffect(F, current_inst, c) = e
  BY DEF ReadEffect
<1>3. ImpliedEffect("Lsr", anded) = f
  <2>1. ShiftOf("Lsr", anded.a, CarryIn(anded)) = Lsr(anded.a)
    BY DEF ShiftOf
  <2> HIDE DEF anded, v
  <2>2. QED
    BY <1>1, <2>1, ShiftsA
<1>4. {"Z", "N"} \subseteq r.flag_mask
  BY Masks
<1> HIDE DEF anded, v, r
<1>5. Apply(r, anded.flags) = Apply(r, c.flags)
  BY <1>1, <1>4, Overridden
<1>6. /\ e.a = r.value /\ e.x = c.x /\ e.y = c.y /\ e.s = c.s /\ e.flags = Apply(r, c.flags)
      /\ f.a = r.value /\ f.x = anded.x /\ f.y = anded.y /\ f.s = anded.s
      /\ f.flags = Apply(r, anded.flags)
  BY <1>1, UpdatedLatches
<1> HIDE DEF e, f
<1>7. SameRegisters(e, f)
  BY <1>1, <1>5, <1>6 DEF SameRegisters
<1>8. QED
  BY <1>2, <1>3, <1>7 DEF anded

LEMMA AncCombines ==
    ASSUME current_inst \in Instruction, current_inst.mnemonic = "Anc",
           NEW c \in Core, NEW d \in Core, Alike(c, d)
    PROVE  LET e == ReadEffect(F, current_inst, c)
               anded == DoRead("And", d)
           IN  /\ e.a = anded.a
               /\ e.flags \ {"C"} = anded.flags \ {"C"}
               /\ "C" \in e.flags <=> "C" \in ImpliedEffect("Asl", anded).flags
<1> DEFINE anded == DoRead("And", d)
           v == And(c.a, c.op0)
           e == ReadEffect(F, current_inst, c)
           g == Update(c, "a", Zn(v))
           r == Asl(v)
<1>1. /\ anded \in Core /\ v \in Byte
      /\ anded.a = v /\ anded.x = c.x /\ anded.y = c.y /\ anded.s = c.s
      /\ anded.flags = Apply(Zn(v), c.flags)
  BY ImmediateParts
<1>2. e = SetFlag(g, "C", g.a >= 128)
  BY DEF ReadEffect
<1>3. g \in Core /\ g.a = v /\ g.flags = Apply(Zn(v), c.flags)
  <2>1. Zn(v).value = v
    BY DEF Zn, AluResult
  <2> HIDE DEF v
  <2>2. QED
    BY <1>1, <2>1, UpdatedLatches, ZnResult, UpdateKeeps DEF Keeps
<1> HIDE DEF g, e, anded, v, r
<1>4. e.a = v /\ e.flags = (g.flags \ {"C"}) \cup Flag("C", v >= 128)
  BY <1>2, <1>3 DEF SetFlag, Core
<1>5. "C" \in ImpliedEffect("Asl", anded).flags <=> v >= 128
  <2>1. ShiftOf("Asl", anded.a, CarryIn(anded)) = r
    BY <1>1 DEF ShiftOf, r
  <2>2. ImpliedEffect("Asl", anded) = Update(anded, "a", r)
    BY <2>1, ShiftsA
  <2>3. ImpliedEffect("Asl", anded).flags = Apply(r, anded.flags)
    BY <1>1, <2>2, UpdatedLatches
  <2>4. r.flag_mask = {"Z", "N", "C"} /\ r.flags = Zn(Truncate(2 * v)).flags \cup Flag("C", Negative(v))
    BY DEF r, Asl, WithShiftFlags, AluResult
  <2>5. \A n : "C" \notin Zn(n).flags
    BY DEF Zn, AluResult, Flag
  <2>6. "C" \in Apply(r, anded.flags) <=> Negative(v)
    BY <2>4, <2>5 DEF Apply, Flag
  <2>7. QED
    BY <1>1, <2>3, <2>6, SignBit
<1>6. "C" \in e.flags <=> v >= 128
  BY <1>4 DEF Flag
<1>7. e.flags \ {"C"} = anded.flags \ {"C"}
  BY <1>1, <1>3, <1>4 DEF Flag
<1>8. QED
  BY <1>1, <1>4, <1>5, <1>6, <1>7 DEF e, anded

LEMMA SbxCombines ==
    ASSUME current_inst \in Instruction, current_inst.mnemonic = "Sbx",
           NEW c \in Core, NEW d \in Core, Alike(c, d)
    PROVE  LET e == ReadEffect(F, current_inst, c)
               masked == [d EXCEPT !.a = And(c.a, c.x)]
           IN  /\ e.flags = DoRead("Cmp", masked).flags
               /\ (e.x + d.op0 - masked.a) % 256 = 0
<1> DEFINE v == And(c.a, c.x)
           n == c.op0
           masked == [d EXCEPT !.a = v]
           e == ReadEffect(F, current_inst, c)
<1>1. d.a = c.a /\ d.x = c.x /\ d.y = c.y /\ d.s = c.s /\ d.flags = c.flags /\ d.op0 = n
  BY WithinUnchanged DEF Alike
<1>2. v \in Byte /\ n \in Byte
  BY CoreTypes, LogicBytes
<1>3. masked.a = v /\ masked.op0 = n /\ masked.flags = c.flags /\ DOMAIN masked = DOMAIN d
  <2> HIDE DEF v
  <2>1. QED
    BY <1>1 DEF Core
<1>4. e = [Compare(c, v, n) EXCEPT !.x = (v - n) % 256]
  BY DEF ReadEffect
<1> HIDE DEF v, n, masked, e
<1>5. DOMAIN c = DOMAIN d /\ DOMAIN c = {"a", "x", "y", "s", "pc", "flags",
         "ea", "ptr", "op0", "signed_offset8", "data", "targets"}
  BY DEF Core
<1>6. DoRead("Cmp", masked) = Compare(masked, v, n)
  BY <1>3, NamedReads
<1> DEFINE flags == (Apply(Zn((v - n) % 256), c.flags) \ {"C"}) \cup Flag("C", v >= n)
<1>7. ASSUME NEW b, DOMAIN b = DOMAIN c, b.flags = c.flags
      PROVE  Compare(b, v, n).flags = flags /\ DOMAIN Compare(b, v, n) = DOMAIN c
  BY <1>5, <1>7 DEF Compare, SetFlag
<1> HIDE DEF flags
<1>8. Compare(masked, v, n).flags = flags
  BY <1>3, <1>5, <1>7
<1>9. Compare(c, v, n).flags = flags /\ DOMAIN Compare(c, v, n) = DOMAIN c
  BY <1>7
<1>10. e.flags = flags /\ e.x = (v - n) % 256
  BY <1>4, <1>5, <1>9
<1>11. (e.x + d.op0 - masked.a) % 256 = 0
  <2>1. v \in Int /\ n \in Int /\ 0 <= v /\ v <= 255 /\ 0 <= n /\ n <= 255
    BY <1>2 DEF Byte
  <2>2. (((v - n) % 256) + n - v) % 256 = 0
    BY ONLY <2>1
  <2>3. QED
    BY <1>1, <1>3, <1>10, <2>2
<1>12. QED
  BY <1>6, <1>8, <1>10, <1>11 DEF e, masked, v

LEMMA UsbcCombines ==
    ASSUME current_inst \in Instruction, current_inst.mnemonic = "Usbc",
           NEW c \in Core, NEW d \in Core, Alike(c, d)
    PROVE  SameRegisters(ReadEffect(F, current_inst, c), DoRead("Sbc", d))
<1> DEFINE r == Sbc(c.a, c.op0, c.flags, F.DECIMAL)
           e == Update(c, "a", r)
           f == Update(d, "a", r)
<1>1. d.a = c.a /\ d.x = c.x /\ d.y = c.y /\ d.s = c.s /\ d.flags = c.flags /\ d.op0 = c.op0
  BY WithinUnchanged DEF Alike
<1>2. ReadEffect(F, current_inst, c) = e
  BY DEF ReadEffect
<1>3. DoRead("Sbc", d) = f
  BY <1>1, NamedReads
<1> HIDE DEF r
<1>4. /\ e.a = r.value /\ e.x = c.x /\ e.y = c.y /\ e.s = c.s /\ e.flags = Apply(r, c.flags)
      /\ f.a = r.value /\ f.x = d.x /\ f.y = d.y /\ f.s = d.s /\ f.flags = Apply(r, d.flags)
  BY UpdatedLatches
<1> HIDE DEF e, f
<1>5. SameRegisters(e, f)
  BY <1>1, <1>4 DEF SameRegisters
<1>6. QED
  BY <1>2, <1>3, <1>5

LEMMA ArrCombines ==
    ASSUME current_inst \in Instruction, current_inst.mnemonic = "Arr",
           NEW c \in Core, NEW d \in Core, Alike(c, d), "D" \notin c.flags
    PROVE  LET e == ReadEffect(F, current_inst, c)
               rotated == ImpliedEffect("Ror", DoRead("And", d))
               bit(n) == (rotated.a \div BitWeight(n)) % 2
           IN  /\ e.a = rotated.a
               /\ e.flags \ {"C", "V"} = rotated.flags \ {"C", "V"}
               /\ "C" \in e.flags <=> bit(6) = 1
               /\ "V" \in e.flags <=> bit(6) # bit(5)
<1> DEFINE anded == DoRead("And", d)
           v == And(c.a, c.op0)
           r == Ror(v, CarryIn(c))
           e == ReadEffect(F, current_inst, c)
           g == Update(c, "a", r)
           rotated == ImpliedEffect("Ror", anded)
           bits == Bits(r.value)
           set == SetFlag(g, "C", 6 \in bits)
           bit(n) == (rotated.a \div BitWeight(n)) % 2
<1>1. /\ anded \in Core /\ v \in Byte
      /\ anded.a = v /\ anded.flags = Apply(Zn(v), c.flags) /\ CarryIn(anded) = CarryIn(c)
  BY ImmediateParts
<1>2. e = RotateMasked(c)
  BY DEF ReadEffect, Arr
<1>3. g \in Core /\ g.a = r.value /\ g.flags = Apply(r, c.flags)
  <2> DEFINE b == CarryIn(c)
  <2>0. b \in BOOLEAN
    BY DEF CarryIn
  <2> HIDE DEF v, b
  <2>1. ByteResult(r)
    BY <1>1, <2>0, ShiftResults DEF b
  <2> HIDE DEF r
  <2>2. QED
    BY <2>1, UpdatedLatches, UpdateKeeps DEF Keeps
<1>3a. e = SetFlag(set, "V", (6 \in bits) # (5 \in bits))
  BY <1>2, <1>3 DEF RotateMasked
<1>4. rotated = Update(anded, "a", r)
  <2>1. ShiftOf("Ror", anded.a, CarryIn(anded)) = r
    <3> HIDE DEF anded, v
    <3>1. QED
      BY <1>1 DEF ShiftOf
  <2> HIDE DEF anded, r
  <2>2. QED
    BY <2>1, ShiftsA
<1>5. {"Z", "N"} \subseteq r.flag_mask
  BY Masks
<1> HIDE DEF anded, v, r, e, g, rotated, bits, set
<1>6. rotated.a = r.value /\ rotated.flags = Apply(r, c.flags)
  <2>1. Apply(r, anded.flags) = Apply(r, c.flags)
    BY <1>1, <1>5, Overridden
  <2>2. QED
    BY <1>1, <1>4, <2>1, UpdatedLatches
<1>7. /\ e.a = r.value
      /\ e.flags = (((g.flags \ {"C"}) \cup Flag("C", 6 \in bits)) \ {"V"})
                      \cup Flag("V", (6 \in bits) # (5 \in bits))
  <2> DEFINE b6 == 6 \in bits
             odd == (6 \in bits) # (5 \in bits)
  <2>1. e = SetFlag(SetFlag(g, "C", b6), "V", odd)
    BY <1>3a DEF set
  <2> HIDE DEF b6, odd
  <2>2. e.a = g.a /\ e.flags = (((g.flags \ {"C"}) \cup Flag("C", b6)) \ {"V"}) \cup Flag("V", odd)
    BY <1>3, <2>1 DEF SetFlag, Core
  <2>3. QED
    BY <1>3, <2>2 DEF b6, odd
<1>8. (6 \in bits <=> bit(6) = 1) /\ (5 \in bits <=> bit(5) = 1)
  BY <1>6 DEF bits, Bits
<1>9. bit(6) \in {0, 1} /\ bit(5) \in {0, 1}
  <2>1. rotated.a \in Byte
    BY <1>3, <1>6, CoreTypes
  <2>2. rotated.a \in Int /\ BitWeight(6) = 64 /\ BitWeight(5) = 32
    BY <2>1, BitWeights DEF Byte
  <2>3. (rotated.a \div 64) % 2 \in {0, 1} /\ (rotated.a \div 32) % 2 \in {0, 1}
    BY <2>2
  <2>4. QED
    BY <2>2, <2>3
<1>10. "C" \in e.flags <=> 6 \in bits
  BY <1>7 DEF Flag
<1>11. "V" \in e.flags <=> ~(6 \in bits <=> 5 \in bits)
  BY <1>7 DEF Flag
<1>12. e.flags \ {"C", "V"} = rotated.flags \ {"C", "V"}
  BY <1>3, <1>6, <1>7 DEF Flag
<1> HIDE DEF bit
<1>13. /\ "C" \in e.flags <=> bit(6) = 1
       /\ "V" \in e.flags <=> bit(6) # bit(5)
  BY <1>8, <1>9, <1>10, <1>11
<1>14. QED
  BY <1>6, <1>7, <1>12, <1>13 DEF e, rotated, anded, bit

-----------------------------------------------------------------------------
(* The undocumented opcodes do what two documented ones do in turn.        *)

LEMMA FollowedAtEnd ==
    ASSUME MatrixInv, AtBoundary, Followed(current_inst)
    PROVE  /\ MatrixHolds /\ Len(ucycs.todo) = 0 /\ Body = log
           /\ FinalAccess = log[Len(log)] /\ Len(log) \in Nat
<1>1. current_inst # NoInst /\ IsEmpty(ucycs)
  BY DEF AtBoundary
<1>2. MatrixHolds
  BY <1>1 DEF MatrixInv
<1>3. ~extra_adc_sbc_cycle
  BY NotDecimal DEF MatrixInv
<1>4. Body = log
  BY <1>3 DEF Body
<1>5. Len(ucycs.todo) = 0
  BY <1>1, EmptySeq DEF IsEmpty
<1>6. Len(log) \in Nat
  BY LenProperties DEF MatrixInv
<1>7. QED
  BY <1>2, <1>4, <1>5, <1>6 DEF FinalAccess, Last

LEMMA InstructionRead ==
    ASSUME MatrixInv, current_inst # NoInst
    PROVE  /\ current_opcode \in Opcode /\ current_inst = Decode[current_opcode]
           /\ current_inst \in Instruction /\ entry \in Core
<1>1. current_opcode \in Opcode /\ current_inst = Decode[current_opcode] /\ entry \in Entries
  BY DEF MatrixInv, TestInv, HistoryInv
<1>2. current_inst \in Instruction
  BY <1>1, DecodeAssumption
<1>3. QED
  BY <1>1, <1>2, EntriesAssumption

\* The case's start with the operand latched is any other core that holds it.
LEMMA LatchedAlike ==
    ASSUME entry \in Core, NEW byte \in Byte, NEW d, Held(d, byte)
    PROVE  /\ Latched(entry, byte) \in Core /\ Alike(d, Latched(entry, byte))
           /\ Latched(entry, byte).op0 = byte
<1>1. Latched(entry, byte) = [entry EXCEPT !.op0 = byte]
  BY DEF Latched
<1> DEFINE start == Latched(entry, byte)
<1> HIDE DEF start
<1>2. start = [entry EXCEPT !.op0 = byte]
  BY <1>1 DEF start
<1>3. /\ start \in Core /\ start.op0 = byte /\ start.a = entry.a /\ start.x = entry.x
      /\ start.y = entry.y /\ start.s = entry.s /\ start.flags = entry.flags
  BY <1>2 DEF Core
<1>4. d.a = entry.a /\ d.x = entry.x /\ d.y = entry.y /\ d.s = entry.s /\ d.flags = entry.flags
      /\ d.op0 = byte
  BY WithinUnchanged DEF Held
<1>5. QED
  BY <1>3, <1>4, WithinUnchanged DEF Alike, start

LEMMA AlikeRegisters ==
    ASSUME NEW c, NEW d PROVE Alike(c, d) => SameRegisters(d, c)
BY WithinUnchanged DEF Alike, SameRegisters

LEMMA MatrixIsBoth == MatrixInv => UndocumentedIsBoth
<1> DEFINE row == MatrixRow(current_opcode)
           byte == Operand
           start == Latched(entry, byte)
           modified == DoModify(ModifyOps[row], start)
<1> SUFFICES ASSUME MatrixInv, AccessesMemory, F.Micro = "Micro6502", current_opcode % 4 = 3,
                    mnemonic \notin Unstable \cup {"Las"}
             PROVE  CASE row = 5 -> /\ FinalAccess.data = And(entry.a, entry.x)
                                    /\ SameRegisters(core, entry)
                      [] row = 6 -> SameRegisters(core, DoRead("Ldx", DoRead("Lda", start)))
                      [] OTHER ->
                            /\ SameRegisters(core, DoRead(AccumulatorOps[row], modified))
                            /\ FinalAccess.data = modified.op0
  BY DEF UndocumentedIsBoth
<1> DEFINE m == current_inst.mnemonic
           n == Len(log)
<1>1. /\ current_inst # NoInst /\ AtBoundary /\ current_inst.address_mode.kind \in MemoryModes
      /\ m \notin {"Sha", "Shx", "Shy", "Tas", "Las"}
  BY DEF AccessesMemory, AtBoundary, mode, mnemonic, Unstable
<1>2. /\ current_opcode \in Opcode /\ current_inst = Decode[current_opcode]
      /\ current_inst \in Instruction /\ entry \in Core
  BY <1>1, InstructionRead
<1>3. /\ m = UndocumentedOps[row]
      /\ current_inst.memory_action = CASE row = 5 -> "Write" [] row = 6 -> "Read"
                                         [] OTHER -> "ReadModifyWrite"
  BY <1>1, <1>2, MatrixAssumption DEF MatrixFacts, MemoryModes
<1>4. row \in 1..8
  <2>1. current_opcode \in 0..255
    BY <1>2, DecodeAssumption
  <2>2. current_opcode \in Int /\ 0 <= current_opcode /\ current_opcode <= 255
    BY <2>1
  <2>3. (current_opcode \div 32) + 1 \in 1..8
    BY ONLY <2>2
  <2>4. QED
    BY <2>3 DEF MatrixRow
<1>5. core \in Core
  BY DEF MatrixInv, TestInv, DataInv
<1>6. /\ UndocumentedOps[1] = "Slo" /\ UndocumentedOps[2] = "Rla" /\ UndocumentedOps[3] = "Sre"
      /\ UndocumentedOps[4] = "Rra" /\ UndocumentedOps[5] = "Sax" /\ UndocumentedOps[6] = "Lax"
      /\ UndocumentedOps[7] = "Dcp" /\ UndocumentedOps[8] = "Isc"
  BY DEF UndocumentedOps
<1> HIDE DEF row, byte, start, modified
<1>7. CASE row = 5
  <2>1. m = "Sax" /\ current_inst.memory_action = "Write"
    BY <1>3, <1>6, <1>7
  <2>2. Followed(current_inst) /\ ~Modifies(current_inst)
    BY <1>1, <2>1 DEF Followed, Modifies
  <2>3. MatrixHolds /\ Len(ucycs.todo) = 0 /\ FinalAccess = log[n]
    BY <1>1, <2>2, FollowedAtEnd
  <2>4. Within(entry, core, {}) /\ log[n].data = And(entry.a, entry.x)
    BY <2>1, <2>2, <2>3 DEF MatrixHolds, Loading
  <2>5. SameRegisters(core, entry)
    BY <2>4, WithinUnchanged DEF SameRegisters
  <2>6. FinalAccess.data = And(entry.a, entry.x)
    BY <2>3, <2>4
  <2>7. QED
    BY <1>7, <2>5, <2>6
<1>8. CASE row = 6
  <2>1. m = "Lax" /\ current_inst.memory_action = "Read"
    BY <1>3, <1>6, <1>8
  <2>2. Followed(current_inst) /\ ~Modifies(current_inst)
    BY <1>1, <2>1 DEF Followed, Modifies
  <2>3. MatrixHolds /\ Len(ucycs.todo) = 0 /\ FinalAccess = log[n]
    BY <1>1, <2>2, FollowedAtEnd
  <2>4. ReadFrom(log[n].data, core)
    BY <2>1, <2>2, <2>3 DEF MatrixHolds, Loading
  <2>5. byte = log[n].data
    BY <2>1, <2>3 DEF byte, Operand, action
  <2>6. PICK d \in Core : Held(d, byte) /\ core = ReadEffect(F, current_inst, d)
    BY <2>4, <2>5 DEF ReadFrom
  <2>7. byte \in Byte
    BY <2>6, CoreTypes DEF Held
  <2>8. start \in Core /\ Alike(d, start)
    BY <1>2, <2>6, <2>7, LatchedAlike DEF start
  <2>9. SameRegisters(ReadEffect(F, current_inst, d), DoRead("Ldx", DoRead("Lda", start)))
    BY <1>2, <2>1, <2>8, BothLoads
  <2>10. QED
    BY <1>8, <2>6, <2>9
<1>9. CASE row \notin {5, 6}
  <2>1. row \in {1, 2, 3, 4, 7, 8} /\ current_inst.memory_action = "ReadModifyWrite"
    BY <1>3, <1>4, <1>9
  <2>2. m \in RowOps
    BY <1>3, <1>6, <2>1 DEF RowOps
  <2>3. Followed(current_inst) /\ Modifies(current_inst)
    BY <1>1, <2>1, <2>2 DEF Followed, Modifies
  <2>4. MatrixHolds /\ Len(ucycs.todo) = 0 /\ FinalAccess = log[n] /\ Body = log
    BY <1>1, <2>3, FollowedAtEnd
  <2>5. log[n].data = core.op0 /\ ModifiedFrom(log[n - 2].data, core)
    BY <2>3, <2>4 DEF MatrixHolds, Modifying
  <2>6. byte = log[n - 2].data
    BY <2>1, <2>4 DEF byte, Operand, action
  <2>7. PICK d \in Core : Held(d, byte) /\ Alike(ModifyEffect(F, m, current_opcode, d), core)
    BY <2>5, <2>6 DEF ModifiedFrom
  <2>8. byte \in Byte
    BY <2>7, CoreTypes DEF Held
  <2>9. start \in Core /\ Alike(d, start)
    BY <1>2, <2>7, <2>8, LatchedAlike DEF start
  <2>10. modified = ModifyEffect(F, ModifyOps[row], current_opcode, start)
    BY DEF modified, DoModify
  <2> DEFINE both == ModifyEffect(F, m, current_opcode, d)
             second == DoRead(AccumulatorOps[row], modified)
  <2>11. Alike(both, second)
    BY <1>2, <1>3, <2>1, <2>9, <2>10, RowsAgree
  <2>12. both.op0 = modified.op0
    <3>1. both.op0 = Rotated(row, d.op0, CarryOf(d.flags))
      BY <1>3, <1>4, <1>9, RowValue
    <3>2. modified.op0 = Rotated(row, start.op0, CarryOf(start.flags))
      BY <1>4, <1>9, <2>9, <2>10, RowValue
    <3>3. start.op0 = d.op0 /\ start.flags = d.flags
      BY <2>9, WithinUnchanged DEF Alike
    <3>4. QED
      BY <3>1, <3>2, <3>3
  <2>13. Alike(both, core)
    BY <2>7
  <2> HIDE DEF both, second
  <2>14. SameRegisters(core, second)
    BY <2>11, <2>13, WithinUnchanged DEF Alike, SameRegisters
  <2>15. FinalAccess.data = modified.op0
    BY <2>4, <2>5, <2>12, <2>13 DEF Alike
  <2>16. QED
    BY <1>9, <2>14, <2>15 DEF second
<1>10. QED
  BY <1>7, <1>8, <1>9 DEF start, modified, row, byte

LEMMA MatrixImmediates == MatrixInv => ImmediatesCombine
<1> DEFINE byte == InstructionByte(1)
           start == Latched(entry, byte)
           anded == DoRead("And", start)
           masked == [start EXCEPT !.a = And(entry.a, entry.x)]
           rotated == ImpliedEffect("Ror", anded)
           bit(n) == (rotated.a \div BitWeight(n)) % 2
           m == current_inst.mnemonic
<1> SUFFICES ASSUME MatrixInv, AtBoundary, mode.kind = "Immediate"
             PROVE  /\ m = "Alr" => SameRegisters(core, ImpliedEffect("Lsr", anded))
                    /\ m = "Anc" =>
                          /\ core.a = anded.a
                          /\ core.flags \ {"C"} = anded.flags \ {"C"}
                          /\ "C" \in core.flags <=> "C" \in ImpliedEffect("Asl", anded).flags
                    /\ m = "Sbx" =>
                          /\ core.flags = DoRead("Cmp", masked).flags
                          /\ (core.x + start.op0 - masked.a) % 256 = 0
                    /\ (m = "Arr" /\ "D" \notin entry.flags) =>
                          /\ core.a = rotated.a
                          /\ core.flags \ {"C", "V"} = rotated.flags \ {"C", "V"}
                          /\ "C" \in core.flags <=> bit(6) = 1
                          /\ "V" \in core.flags <=> bit(6) # bit(5)
                    /\ m = "Usbc" => SameRegisters(core, DoRead("Sbc", start))
  BY DEF ImmediatesCombine, mnemonic
<1> SUFFICES ASSUME m \in Combining
             PROVE  /\ m = "Alr" => SameRegisters(core, ImpliedEffect("Lsr", anded))
                    /\ m = "Anc" =>
                          /\ core.a = anded.a
                          /\ core.flags \ {"C"} = anded.flags \ {"C"}
                          /\ "C" \in core.flags <=> "C" \in ImpliedEffect("Asl", anded).flags
                    /\ m = "Sbx" =>
                          /\ core.flags = DoRead("Cmp", masked).flags
                          /\ (core.x + start.op0 - masked.a) % 256 = 0
                    /\ (m = "Arr" /\ "D" \notin entry.flags) =>
                          /\ core.a = rotated.a
                          /\ core.flags \ {"C", "V"} = rotated.flags \ {"C", "V"}
                          /\ "C" \in core.flags <=> bit(6) = 1
                          /\ "V" \in core.flags <=> bit(6) # bit(5)
                    /\ m = "Usbc" => SameRegisters(core, DoRead("Sbc", start))
  BY DEF Combining
<1>1. current_inst # NoInst /\ current_inst.address_mode.kind = "Immediate"
  BY DEF AtBoundary, mode
<1>2. /\ current_opcode \in Opcode /\ current_inst = Decode[current_opcode]
      /\ current_inst \in Instruction /\ entry \in Core
  BY <1>1, InstructionRead
<1>3. current_inst.memory_action = "Read"
  BY <1>1, <1>2, MatrixAssumption DEF MatrixFacts, Combining
<1>4. Followed(current_inst) /\ ~Modifies(current_inst)
  BY <1>1, <1>3 DEF Followed, Modifies
<1>5. MatrixHolds /\ Len(ucycs.todo) = 0 /\ Body = log /\ log \in Seq(Access)
  BY <1>4, FollowedAtEnd DEF MatrixInv
<1>6. /\ ReadFrom(log[Len(log)].data, core) /\ Len(log) = 2 /\ log[2].vpa
      /\ log[2].addr = SecondByte
  BY <1>1, <1>3, <1>4, <1>5 DEF MatrixHolds, Loading
<1>7. byte = log[Len(log)].data
  BY <1>5, <1>6, SecondFetch DEF Last
<1> HIDE DEF byte
<1>8. PICK d \in Core : Held(d, byte) /\ core = ReadEffect(F, current_inst, d)
  BY <1>6, <1>7 DEF ReadFrom
<1>9. byte \in Byte
  BY <1>8, CoreTypes DEF Held
<1> HIDE DEF start
<1>10. start \in Core /\ Alike(d, start)
  BY <1>2, <1>8, <1>9, LatchedAlike DEF start
<1>11. d.a = entry.a /\ d.x = entry.x /\ d.flags = entry.flags
  BY <1>8, WithinUnchanged DEF Held
<1>12. CASE m = "Alr"
  <2>1. SameRegisters(core, ImpliedEffect("Lsr", anded))
    BY <1>2, <1>8, <1>10, <1>12, AlrCombines
  <2>2. QED
    BY <1>12, <2>1
<1>13. CASE m = "Anc"
  <2>1. /\ core.a = anded.a
        /\ core.flags \ {"C"} = anded.flags \ {"C"}
        /\ "C" \in core.flags <=> "C" \in ImpliedEffect("Asl", anded).flags
    BY <1>2, <1>8, <1>10, <1>13, AncCombines
  <2>2. QED
    BY <1>13, <2>1
<1>14. CASE m = "Sbx"
  <2>1. /\ core.flags = DoRead("Cmp", masked).flags
        /\ (core.x + start.op0 - masked.a) % 256 = 0
    BY <1>2, <1>8, <1>10, <1>11, <1>14, SbxCombines
  <2>2. QED
    BY <1>14, <2>1
<1>15. CASE m = "Arr"
  <2>1. "D" \notin entry.flags =>
           /\ core.a = rotated.a
           /\ core.flags \ {"C", "V"} = rotated.flags \ {"C", "V"}
           /\ "C" \in core.flags <=> bit(6) = 1
           /\ "V" \in core.flags <=> bit(6) # bit(5)
    BY <1>2, <1>8, <1>10, <1>11, <1>15, ArrCombines
  <2> HIDE DEF bit
  <2>2. QED
    BY <1>15, <2>1
<1>16. CASE m = "Usbc"
  <2>1. SameRegisters(core, DoRead("Sbc", start))
    BY <1>2, <1>8, <1>10, <1>16, UsbcCombines
  <2>2. QED
    BY <1>16, <2>1
<1>17. QED
  BY <1>12, <1>13, <1>14, <1>15, <1>16 DEF Combining

\* Undocumented opcodes do what two documented operations do in turn, and nothing else, for
\* every table, starting registers and bytes: those of NMOS column 3 are their row's
\* read-modify-write and then its accumulator operation, and ALR, ANC, SBX, ARR (in binary
\* mode) and $EB are an accumulator operation and another after it.
THEOREM UndocumentedCombineKept == TestSpec => []UndocumentedCombine
<1>1. SetupInitial => MatrixInv
  BY MatrixStarts
<1>2. MatrixInv /\ [TestCycle]_allVars => MatrixInv'
  BY MatrixNext
<1>3. MatrixInv => UndocumentedCombine
  BY MatrixIsBoth, MatrixImmediates DEF UndocumentedCombine
<1>4. QED
  BY <1>1, <1>2, <1>3, PTL DEF TestSpec
=============================================================================
