---------------------------- MODULE Instructions ----------------------------
(***************************************************************************)
(* What the instructions do to the registers once their operand is in the  *)
(* latch op0: finish_read, finish_implied and the MicroContext methods     *)
(* alu_prepare_store, alu_modify and alu_branch (src/cpu6502/mod.rs).      *)
(* Each takes and returns the core: a record with at least the registers   *)
(* a, x, y, s, the set `flags` and the latches op0, data and ea.           *)
(***************************************************************************)
EXTENDS Alu, Microcode

ASSUME EightBit == Digits = 2

Update(c, register, result) ==
    [c EXCEPT ![register] = result.value, !.flags = Apply(result, @)]
SetFlag(c, flag, condition) == [c EXCEPT !.flags = (@ \ {flag}) \cup Flag(flag, condition)]
CarryIn(c) == "C" \in c.flags
\* Mutant: D is not pulled.
PulledFlagsWithoutD(byte) == (FlagsOf(byte) \cup {"U"}) \ {"B", "D"}
PulledFlags(byte) == (FlagsOf(byte) \cup {"U"}) \ {"B"}

\* Mutant: equal operands borrow.
CompareStrictly(c, byte, operand) ==
    SetFlag([c EXCEPT !.flags = Apply(Zn((byte - operand) % 256), @)], "C", byte > operand)
Compare(c, byte, operand) ==
    SetFlag([c EXCEPT !.flags = Apply(Zn((byte - operand) % 256), @)], "C", byte >= operand)

ShiftOf(mnemonic, value, carry) ==
    CASE mnemonic = "Asl" -> Asl(value)
      [] mnemonic = "Lsr" -> Lsr(value)
      [] mnemonic = "Rol" -> Rol(value, carry)
      [] mnemonic = "Ror" -> Ror(value, carry)

-----------------------------------------------------------------------------
(* finish_read                                                             *)

\* Mutant: BIT # copies the operand's top bits, like BIT in memory.
BitTestAsInMemory(c, immediate) ==
    [c EXCEPT !.flags = (@ \ {"Z", "N", "V"}) \cup Flag("Z", And(c.a, c.op0) = 0)
                        \cup (FlagsOf(c.op0) \cap {"N", "V"})]
BitTest(c, immediate) ==
    LET tested == SetFlag(c, "Z", And(c.a, c.op0) = 0)
    IN  IF immediate THEN tested
        ELSE [tested EXCEPT !.flags = (@ \ {"N", "V"}) \cup (FlagsOf(c.op0) \cap {"N", "V"})]

\* ARR in binary mode
RotateMasked(c) ==
    LET rotated == Update(c, "a", Ror(And(c.a, c.op0), CarryIn(c)))
        bits == Bits(rotated.a)
    IN  SetFlag(SetFlag(rotated, "C", 6 \in bits), "V", (6 \in bits) # (5 \in bits))

\* ARR in NMOS decimal mode
RotateMaskedDecimal(c) ==
    LET anded == And(c.a, c.op0)
        rotated == Update(c, "a", Ror(anded, CarryIn(c)))
        fixes(nibble) == nibble + (nibble % 2) > 5
        low == IF fixes(anded % 16) THEN (rotated.a + 6) % 16 ELSE rotated.a % 16
        high == IF fixes(anded \div 16) THEN (rotated.a \div 16) + 6 ELSE rotated.a \div 16
        flagged == SetFlag(SetFlag(rotated, "N", CarryIn(c)),
                           "V", (6 \in Bits(anded)) # (6 \in Bits(rotated.a)))
    IN  SetFlag([flagged EXCEPT !.a = (16 * high + low) % 256], "C", fixes(anded \div 16))

Arr(F, c) ==
    IF "D" \in c.flags /\ F.DECIMAL = "Nmos6502" THEN RotateMaskedDecimal(c)
    ELSE RotateMasked(c)

Break(F, c) == IF F.DECIMAL = "Cmos65C02" THEN [c EXCEPT !.flags = @ \ {"D"}] ELSE c

Magic == 238   \* 0xEE, the constant of ANE and LXA

ReadEffect(F, inst, c) ==
    LET mnemonic == inst.mnemonic
        read == c.op0
        into(register, value) == Update(c, register, Zn(value))
        both(value) == [into("a", value) EXCEPT !.x = value]
    IN  CASE mnemonic \in {"Lda", "Pla"} -> into("a", read)
          [] mnemonic \in {"Ldx", "Plx"} -> into("x", read)
          [] mnemonic \in {"Ldy", "Ply"} -> into("y", read)
          [] mnemonic = "And" -> into("a", And(c.a, read))
          [] mnemonic = "Eor" -> into("a", Xor(c.a, read))
          [] mnemonic = "Ora" -> into("a", Or(c.a, read))
          [] mnemonic = "Adc" -> Update(c, "a", Adc(c.a, read, c.flags, F.DECIMAL))
          [] mnemonic \in {"Sbc", "Usbc"} -> Update(c, "a", Sbc(c.a, read, c.flags, F.DECIMAL))
          [] mnemonic = "Cmp" -> Compare(c, c.a, read)
          [] mnemonic = "Cpx" -> Compare(c, c.x, read)
          [] mnemonic = "Cpy" -> Compare(c, c.y, read)
          [] mnemonic = "Plp" -> [c EXCEPT !.flags = PulledFlags(read)]
          [] mnemonic = "Bit" -> BitTest(c, inst.address_mode.kind = "Immediate")
          [] mnemonic = "Anc" ->
                LET anded == into("a", And(c.a, read)) IN SetFlag(anded, "C", anded.a >= 128)
          [] mnemonic = "Alr" -> Update(c, "a", Lsr(And(c.a, read)))
          [] mnemonic = "Arr" -> Arr(F, c)
          [] mnemonic = "Ane" -> into("a", And(And(Or(c.a, Magic), c.x), read))
          [] mnemonic = "Lxa" -> both(And(Or(c.a, Magic), read))
          [] mnemonic = "Lax" -> both(read)
          [] mnemonic = "Las" -> [both(And(read, c.s)) EXCEPT !.s = And(read, c.s)]
          [] mnemonic = "Sbx" -> [Compare(c, And(c.a, c.x), read)
                                     EXCEPT !.x = (And(c.a, c.x) - read) % 256]
          [] mnemonic = "Brk" -> Break(F, c)
          [] OTHER -> c

-----------------------------------------------------------------------------
(* finish_implied                                                          *)

ImpliedEffect(mnemonic, c) ==
    LET into(register, value) == Update(c, register, Zn(value % 256))
        clear(flag) == SetFlag(c, flag, FALSE)
        set(flag) == SetFlag(c, flag, TRUE)
    IN  CASE mnemonic \in {"Asl", "Lsr", "Rol", "Ror"} ->
                Update(c, "a", ShiftOf(mnemonic, c.a, CarryIn(c)))
          [] mnemonic = "Clc" -> clear("C")
          [] mnemonic = "Cld" -> clear("D")
          [] mnemonic = "Cli" -> clear("I")
          [] mnemonic = "Clv" -> clear("V")
          [] mnemonic = "Sec" -> set("C")
          [] mnemonic = "Sed" -> set("D")
          [] mnemonic = "Sei" -> set("I")
          [] mnemonic = "Dec" -> into("a", c.a - 1)
          [] mnemonic = "Dex" -> into("x", c.x - 1)
          [] mnemonic = "Dey" -> into("y", c.y - 1)
          [] mnemonic = "Inc" -> into("a", c.a + 1)
          [] mnemonic = "Inx" -> into("x", c.x + 1)
          [] mnemonic = "Iny" -> into("y", c.y + 1)
          [] mnemonic = "Tax" -> into("x", c.a)
          [] mnemonic = "Tay" -> into("y", c.a)
          [] mnemonic = "Tsx" -> into("x", c.s)
          [] mnemonic = "Txa" -> into("a", c.x)
          [] mnemonic = "Tya" -> into("a", c.y)
          [] mnemonic = "Txs" -> [c EXCEPT !.s = c.x]
          [] OTHER -> c

-----------------------------------------------------------------------------
(* alu_prepare_store                                                       *)

\* Mutant: the high byte is taken after the page was fixed.
HPlusOneAfterFix(c, a, offset, op_reg) ==
    LET low == Low(c.ea)
        wrapped == low < offset
        eff_hi == High(c.ea)
        value == And(And(a, op_reg), (eff_hi + 1) % 256)
    IN  [c EXCEPT !.data = value, !.ea = Word(low, IF wrapped THEN value ELSE eff_hi)]

\* h_plus_one_nonsense: the value to store, and where the store goes
HPlusOneNonsense(c, a, offset, op_reg) ==
    LET low == Low(c.ea)
        wrapped == low < offset
        eff_hi == (High(c.ea) - (IF wrapped THEN 1 ELSE 0)) % 256
        value == And(And(a, op_reg), (eff_hi + 1) % 256)
    IN  [c EXCEPT !.data = value, !.ea = Word(low, IF wrapped THEN value ELSE eff_hi)]

PrepareStore(inst, c) ==
    LET mnemonic == inst.mnemonic
        store(value) == [c EXCEPT !.data = value]
    IN  CASE inst.memory_action = "ReadModifyWrite" -> store(c.op0)
          [] mnemonic \in {"Sta", "Pha"} -> store(c.a)
          [] mnemonic \in {"Stx", "Phx"} -> store(c.x)
          [] mnemonic \in {"Sty", "Phy"} -> store(c.y)
          [] mnemonic = "Stz" -> store(0)
          [] mnemonic = "Php" -> store(StatusByte(c.flags \cup {"B"}))
          [] mnemonic = "Sax" -> store(And(c.a, c.x))
          [] mnemonic = "Sha" -> HPlusOneNonsense(c, c.a, c.y, c.x)
          [] mnemonic = "Tas" ->
                HPlusOneNonsense([c EXCEPT !.s = And(c.a, c.x)], c.a, c.y, c.x)
          [] mnemonic = "Shy" -> HPlusOneNonsense(c, 255, c.x, c.y)
          [] mnemonic = "Shx" -> HPlusOneNonsense(c, 255, c.y, c.x)
          [] OTHER -> c

-----------------------------------------------------------------------------
(* alu_modify and alu_branch                                               *)

\* Mutant: the addition of RRA does not see the bit rotated out.
RotateThenAddOldCarry(F, c) ==
    LET rotated == Update(c, "op0", Ror(c.op0, CarryIn(c)))
    IN  Update(rotated, "a", Adc(rotated.a, rotated.op0, c.flags, F.DECIMAL))
RotateThenAdd(F, c) ==
    LET rotated == Update(c, "op0", Ror(c.op0, CarryIn(c)))
    IN  Update(rotated, "a", Adc(rotated.a, rotated.op0, rotated.flags, F.DECIMAL))

\* RMB and SMB: the bit is the opcode's high digit.
ModifyBit(value, opcode) ==
    LET digit == opcode \div 16
    IN  IF opcode % 16 # 7 THEN value
        ELSE IF digit < 8 THEN AndNot(value, BitWeight(digit)) ELSE Or(value, BitWeight(digit - 8))

ModifyEffect(F, mnemonic, opcode, c) ==
    LET shifted(by) == Update(c, "op0", ShiftOf(by, c.op0, CarryIn(c)))
        slo == shifted("Asl")
        rla == shifted("Rol")
        sre == shifted("Lsr")
        changed(by) == [c EXCEPT !.op0 = (@ + by) % 256]
    IN  CASE mnemonic \in {"Asl", "Lsr", "Rol", "Ror"} -> shifted(mnemonic)
          [] mnemonic = "Inc" -> Update(c, "op0", Inc(c.op0))
          [] mnemonic = "Dec" -> Update(c, "op0", Dec(c.op0))
          [] mnemonic = "Tsb" -> Update(c, "op0", Tsb(c.a, c.op0))
          [] mnemonic = "Trb" -> Update(c, "op0", Trb(c.a, c.op0))
          [] mnemonic = "Slo" -> Update(slo, "a", Zn(Or(slo.a, slo.op0)))
          [] mnemonic = "Rla" -> Update(rla, "a", Zn(And(rla.a, rla.op0)))
          [] mnemonic = "Sre" -> Update(sre, "a", Zn(Xor(sre.a, sre.op0)))
          [] mnemonic = "Rra" -> RotateThenAdd(F, c)
          [] mnemonic = "Dcp" -> Compare(changed(-1), c.a, changed(-1).op0)
          [] mnemonic = "Isc" ->
                Update(changed(1), "a", Sbc(c.a, changed(1).op0, c.flags, F.DECIMAL))
          [] OTHER -> [c EXCEPT !.op0 = ModifyBit(c.op0, opcode)]

\* Mutant: BBR and BBS test the next higher bit.
NextBitDecides(opcode, c) == ((opcode \div 16 + 1) % 8 \in Bits(c.op0)) = (opcode >= 128)
\* BBR and BBS, on the bit branch_bit_info() finds in the opcode
BitDecides(opcode, c) == ((opcode \div 16) % 8 \in Bits(c.op0)) = (opcode >= 128)

TakesBranch(mnemonic, opcode, c) ==
    CASE mnemonic = "Bcc" -> "C" \notin c.flags
      [] mnemonic = "Bcs" -> "C" \in c.flags
      [] mnemonic = "Beq" -> "Z" \in c.flags
      [] mnemonic = "Bne" -> "Z" \notin c.flags
      [] mnemonic = "Bmi" -> "N" \in c.flags
      [] mnemonic = "Bpl" -> "N" \notin c.flags
      [] mnemonic = "Bvc" -> "V" \notin c.flags
      [] mnemonic = "Bvs" -> "V" \in c.flags
      [] mnemonic = "Bra" -> TRUE
      [] OTHER -> opcode % 16 = 15 /\ BitDecides(opcode, c)
=============================================================================
