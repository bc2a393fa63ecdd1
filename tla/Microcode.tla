----------------------------- MODULE Microcode -----------------------------
(***************************************************************************)
(* The micro-ops of the 8-bit cores and the emitters that turn an          *)
(* addressing mode into the sequence of micro-ops of its bus cycles        *)
(* (src/isa/microop.rs, src/isa/mod.rs and src/cpu6502/flavor.rs).  The    *)
(* emitters push onto the empty queue, so each is the sequence it pushes.  *)
(***************************************************************************)
EXTENDS Integers, Sequences

-----------------------------------------------------------------------------
(* Flavors: the associated constants that the control logic reads.         *)

DecimalSemantics == {"Nmos6502", "Cmos65C02", "None"}

FlavorType ==
    [Micro : {"Micro6502", "Micro65C02"}, DECIMAL : DecimalSemantics,
     INVALID_ADDR_READ : BOOLEAN, RMW_DUMMY_WRITE : BOOLEAN,
     OPCODE_TABLE : {"Nmos", "Synertek", "Rockwell", "Wdc65c02"}]

\* Mutant: a CMOS flavor that kept the NMOS table.
CmosFlavorOnNmosTable(table) ==
    [Micro |-> "Micro65C02", DECIMAL |-> "Cmos65C02", INVALID_ADDR_READ |-> FALSE,
     RMW_DUMMY_WRITE |-> FALSE, OPCODE_TABLE |-> "Nmos"]
CmosFlavor(table) ==
    [Micro |-> "Micro65C02", DECIMAL |-> "Cmos65C02", INVALID_ADDR_READ |-> FALSE,
     RMW_DUMMY_WRITE |-> FALSE, OPCODE_TABLE |-> table]

NMOS6502 ==
    [Micro |-> "Micro6502", DECIMAL |-> "Nmos6502", INVALID_ADDR_READ |-> TRUE,
     RMW_DUMMY_WRITE |-> TRUE, OPCODE_TABLE |-> "Nmos"]
NES == [NMOS6502 EXCEPT !.DECIMAL = "None"]
WDC65C02 == CmosFlavor("Wdc65c02")
Synertek65C02 == CmosFlavor("Synertek")
Rockwell65C02 == CmosFlavor("Rockwell")

-----------------------------------------------------------------------------
(* Micro-ops.  A latch is its name; Latch::Constant(c) is the name of the  *)
(* vector address c, the only constants the emitters use.                  *)

VectorAddresses == {"FFFA", "FFFB", "FFFE", "FFFF"}
Latch ==
    {"None", "Pc", "PcLo", "PcHi", "Sp", "Ea", "EaLo", "EaHi", "Op0", "Ptr", "PtrLo",
     "PtrHi", "Status", "BrkStatus", "SignedOffset8"} \cup VectorAddresses
OffsetType == {"None", "X", "Y"}
MemoryAction == {"Read", "Write", "ReadModifyWrite"}

BusCycleType == [addr : Latch, vda : BOOLEAN, vpa : BOOLEAN, read : BOOLEAN]

\* The arguments of an AluOp are fields it does not use when it has none;
\* `pc` is the target of SetPc.
AluOpType ==
    [op : {"None", "AddOffset", "OffsetWithExtraCycle", "DecSp", "Modify", "SwapEaPc",
           "IncLatch", "Branch", "SetPc", "Jam", "FixPtr", "SpecialAddOffset"},
     latch : Latch, offset : OffsetType, pc : Nat]

MicroOp == [bus : BusCycleType, inc_src : BOOLEAN, local_latch : Latch, alu : AluOpType]

Alu(op) == [op |-> op, latch |-> "None", offset |-> "None", pc |-> 0]

Cycle(addr, vda, vpa, read) == [addr |-> addr, vda |-> vda, vpa |-> vpa, read |-> read]

Op(bus, inc, local, alu) ==
    [bus |-> bus, inc_src |-> inc, local_latch |-> local, alu |-> alu]

ReadOp(src, dest, inc) ==
    Op(Cycle(src, src # "Pc", src = "Pc", TRUE), inc, dest, Alu("None"))
DummyRead(addr) == Op(Cycle(addr, FALSE, FALSE, TRUE), FALSE, "None", Alu("None"))
PushOp(src) == Op(Cycle("Sp", TRUE, FALSE, FALSE), FALSE, src, Alu("DecSp"))
ReadAndOffset(src, offset) ==
    Op(Cycle(src, TRUE, FALSE, TRUE), FALSE, "None",
       [Alu("AddOffset") EXCEPT !.latch = src, !.offset = offset])
ReadPcSetPc(new_pc) ==
    Op(Cycle("Pc", FALSE, TRUE, TRUE), FALSE, "None", [Alu("SetPc") EXCEPT !.pc = new_pc])
OffsetOptFix(offset) ==
    Op(Cycle("Ea", TRUE, FALSE, TRUE), FALSE, "Op0",
       [Alu("OffsetWithExtraCycle") EXCEPT !.offset = offset])
AluWrite == Op(Cycle("Ea", TRUE, FALSE, FALSE), FALSE, "None", Alu("None"))
AluModify(read) == Op(Cycle("Ea", TRUE, FALSE, read), FALSE, "None", Alu("Modify"))
AluPush == Op(Cycle("Sp", TRUE, FALSE, FALSE), FALSE, "None", Alu("DecSp"))
IncPtrLo == [Alu("IncLatch") EXCEPT !.latch = "PtrLo"]
ReadPtr1(dest) == Op(Cycle("Ptr", TRUE, FALSE, TRUE), FALSE, dest, IncPtrLo)
ReadInvPtr2(dest) == Op(Cycle("Ptr", TRUE, FALSE, TRUE), FALSE, dest, Alu("FixPtr"))
\* The read of an operand or a jump's last byte that ends in an ALU operation.
ReadPcThen(inc, dest, op) == Op(Cycle("Pc", FALSE, TRUE, TRUE), inc, dest, Alu(op))

\* Mutant: the dummy cycle of a read-modify-write has the wrong direction.
FinishActionInverted(F, action) ==
    CASE action = "Read" -> << ReadOp("Ea", "Op0", FALSE) >>
      [] action = "Write" -> << AluWrite >>
      [] action = "ReadModifyWrite" ->
            << ReadOp("Ea", "Op0", FALSE), AluModify(F.RMW_DUMMY_WRITE), AluWrite >>
FinishAction(F, action) ==
    CASE action = "Read" -> << ReadOp("Ea", "Op0", FALSE) >>
      [] action = "Write" -> << AluWrite >>
      [] action = "ReadModifyWrite" ->
            << ReadOp("Ea", "Op0", FALSE), AluModify(~F.RMW_DUMMY_WRITE), AluWrite >>

-----------------------------------------------------------------------------
(* Addressing modes: the variant with its subtype as `kind`, OffsetType as *)
(* `offset`, and the two numbers of CmosNop as `bytes` and `cycles`.       *)

ModeKinds8 ==
    {"Implied", "Immediate", "Stack", "DirectPage", "Absolute", "DpIndirect",
     "JmpAbsolute", "JmpIndirect", "JmpAbsoluteX", "ToSubroutine", "FromSubroutine",
     "FromInterrupt", "Relative", "DpRelative", "Jam", "CmosNop", "Brk"}
ModeKinds16 ==
    {"RelativeLong", "AbsoluteLong", "DpIndirectLong", "BlockMove", "StackRelative",
     "JmpIndirectLong"}
NopShapes == {<<1, 1>>, <<2, 2>>, <<3, 3>>, <<3, 4>>, <<3, 8>>}

PlainMode(kind) == [kind |-> kind, offset |-> "None", bytes |-> 0, cycles |-> 0]
OffsetMode(kind, offset) == [PlainMode(kind) EXCEPT !.offset = offset]
NopMode(bytes, cycles) == [PlainMode("CmosNop") EXCEPT !.bytes = bytes, !.cycles = cycles]

AddressMode ==
    [kind : ModeKinds8 \cup ModeKinds16, offset : OffsetType, bytes : 0..3, cycles : 0..8]

-----------------------------------------------------------------------------
(* The emitters.                                                           *)

EmitImplied == << ReadOp("Pc", "None", FALSE) >>

EmitImmediate == << ReadOp("Pc", "Op0", TRUE) >>

EmitDp(F, action, offset) ==
    << ReadOp("Pc", "EaLo", TRUE) >>
    \o (IF offset # "None" THEN << ReadAndOffset("EaLo", offset) >> ELSE << >>)
    \o FinishAction(F, action)

EmitAbsolute(F, action, offset) ==
    << ReadOp("Pc", "EaLo", TRUE), ReadOp("Pc", "EaHi", TRUE) >>
    \o (IF offset # "None" THEN << OffsetOptFix(offset) >> ELSE << >>)
    \o FinishAction(F, action)

EmitDpInd(F, action, offset) ==
    << ReadOp("Pc", "PtrLo", TRUE) >>
    \o (IF offset = "X" THEN << ReadAndOffset("PtrLo", offset) >> ELSE << >>)
    \o << ReadOp("PtrLo", "EaLo", TRUE), ReadOp("PtrLo", "EaHi", FALSE) >>
    \o (IF offset = "Y" THEN << OffsetOptFix(offset) >> ELSE << >>)
    \o FinishAction(F, action)

\* A read-modify-write of the stack fails a debug_assert (see Emittable).
EmitStack(action) ==
    IF action = "Read"
    THEN << ReadOp("Pc", "None", FALSE), ReadOp("Sp", "None", TRUE), ReadOp("Sp", "Op0", FALSE) >>
    ELSE << ReadOp("Pc", "None", FALSE), AluPush >>

EmitJmpAbs == << ReadOp("Pc", "EaLo", TRUE), ReadPcThen(TRUE, "EaHi", "SwapEaPc") >>

EmitJmpAbsX ==
    << ReadOp("Pc", "EaLo", TRUE), ReadOp("Pc", "EaHi", FALSE),
       ReadPcThen(FALSE, "None", "SpecialAddOffset"),
       ReadOp("Ea", "PcLo", TRUE), ReadOp("Ea", "PcHi", FALSE) >>

EmitJmpInd(F) ==
    << ReadOp("Pc", "PtrLo", TRUE), ReadOp("Pc", "PtrHi", FALSE), ReadPtr1("PcLo") >>
    \o (IF F.Micro = "Micro65C02" THEN << ReadInvPtr2("PcHi") >> ELSE << >>)
    \o << ReadOp("Ptr", "PcHi", FALSE) >>

EmitJsr ==
    << ReadOp("Pc", "EaLo", TRUE), ReadOp("Sp", "None", FALSE), PushOp("PcHi"),
       PushOp("PcLo"), ReadPcThen(FALSE, "EaHi", "SwapEaPc") >>

EmitRts ==
    << DummyRead("Pc"), ReadOp("Sp", "None", TRUE), ReadOp("Sp", "PcLo", TRUE),
       ReadOp("Sp", "PcHi", FALSE), ReadOp("Pc", "None", TRUE) >>

\* Mutant: SP is incremented once too often.
EmitRtiOnePullTooMany ==
    << ReadOp("Pc", "None", FALSE), ReadOp("Sp", "None", TRUE), ReadOp("Sp", "Status", TRUE),
       ReadOp("Sp", "PcLo", TRUE), ReadOp("Sp", "PcHi", TRUE) >>
EmitRti ==
    << ReadOp("Pc", "None", FALSE), ReadOp("Sp", "None", TRUE), ReadOp("Sp", "Status", TRUE),
       ReadOp("Sp", "PcLo", TRUE), ReadOp("Sp", "PcHi", FALSE) >>

EmitBranchRel == << ReadPcThen(TRUE, "SignedOffset8", "Branch") >>

EmitBranchDpRel ==
    << ReadOp("Pc", "EaLo", TRUE), ReadOp("Ea", "Op0", FALSE), ReadOp("Ea", "Op0", FALSE),
       ReadPcThen(TRUE, "SignedOffset8", "Branch") >>

\* Mutants: B is pushed by every entry; BRK does not skip its signature byte.
EmitIntAlwaysPushesB(interrupt) ==
    << ReadOp("Pc", "None", interrupt = "Brk"), PushOp("PcHi"), PushOp("PcLo"),
       PushOp("BrkStatus"),
       ReadOp(IF interrupt = "Nmi" THEN "FFFA" ELSE "FFFE", "PcLo", FALSE),
       ReadOp(IF interrupt = "Nmi" THEN "FFFB" ELSE "FFFF", "PcHi", FALSE) >>
EmitIntWithoutSignature(interrupt) ==
    << ReadOp("Pc", "None", FALSE), PushOp("PcHi"), PushOp("PcLo"),
       PushOp(IF interrupt = "Brk" THEN "BrkStatus" ELSE "Status"),
       ReadOp(IF interrupt = "Nmi" THEN "FFFA" ELSE "FFFE", "PcLo", FALSE),
       ReadOp(IF interrupt = "Nmi" THEN "FFFB" ELSE "FFFF", "PcHi", FALSE) >>
EmitInt(interrupt) ==
    << ReadOp("Pc", "None", interrupt = "Brk"), PushOp("PcHi"), PushOp("PcLo"),
       PushOp(IF interrupt = "Brk" THEN "BrkStatus" ELSE "Status"),
       ReadOp(IF interrupt = "Nmi" THEN "FFFA" ELSE "FFFE", "PcLo", FALSE),
       ReadOp(IF interrupt = "Nmi" THEN "FFFB" ELSE "FFFF", "PcHi", FALSE) >>

\* The fifth op repeats for ever; the sixth only keeps the queue from being empty.
EmitJam ==
    << ReadOp("Pc", "None", FALSE), ReadOp("FFFF", "None", FALSE),
       ReadOp("FFFE", "None", FALSE), ReadOp("FFFE", "None", FALSE),
       Op(Cycle("FFFF", FALSE, FALSE, TRUE), FALSE, "None", Alu("Jam")), DummyRead("None") >>

EmitCmosNop(bytes, cycles) ==
    IF bytes = 3 /\ cycles = 3
    THEN << ReadOp("Pc", "None", TRUE), ReadOp("Pc", "None", TRUE) >>
    ELSE [i \in 1..(cycles - 1) |-> ReadOp("Pc", "None", i \in {1, 3})]

\* Which instructions have an emitter: the rest is todo!(), unreachable!() or
\* fails the debug_assert of emit_stack.
Emittable(F, mode, action) ==
    /\ mode.kind \in ModeKinds8
    /\ mode.kind = "Jam" => F.Micro = "Micro6502"
    /\ mode.kind = "CmosNop" => F.Micro = "Micro65C02"
    /\ mode.kind = "Stack" => action # "ReadModifyWrite"

\* What the control of the core takes for granted of a table row: which opcode bytes and
\* which mnemonics stand for which addressing mode and action.
ControlFacts(F, opcode, inst) ==
    LET mode == inst.address_mode
        fixed == \/ mode.kind = "Absolute" /\ mode.offset # "None"
                 \/ mode.kind = "DpIndirect" /\ mode.offset = "Y"
    IN  /\ mode.kind # "CmosNop" => mode.bytes = 0 /\ mode.cycles = 0
        /\ mode.kind = "CmosNop" => inst.mnemonic = "Nop"
        /\ mode.kind = "Brk" <=> inst.mnemonic = "Brk"
        /\ inst.mnemonic = "Plp" => mode.kind = "Stack" /\ inst.memory_action = "Read"
        /\ inst.mnemonic \in {"Cli", "Sei"} => mode.kind = "Implied"
        /\ mode.kind = "JmpIndirect" => opcode # 124
        /\ F.Micro = "Micro65C02" /\ fixed /\ inst.memory_action = "ReadModifyWrite" =>
              (opcode \in {222, 254} <=> inst.mnemonic \in {"Inc", "Dec"})

\* The instructions of the table that pull the status with a return address, or push.
StackFacts(inst) ==
    /\ inst.address_mode.kind = "FromInterrupt" => inst.mnemonic = "Rti"
    /\ inst.address_mode.kind = "Stack" /\ inst.memory_action # "Read" =>
          inst.mnemonic \in {"Pha", "Phx", "Phy", "Php"}

\* Column 1 of the opcode matrix: row o \div 32 is an operation of the accumulator.
MatrixRow(opcode) == (opcode \div 32) + 1
AccumulatorOps == << "Ora", "And", "Eor", "Adc", "Sta", "Lda", "Cmp", "Sbc" >>
ColumnFacts(opcode, inst) ==
    opcode % 4 = 1 /\ inst.mnemonic \in {AccumulatorOps[i] : i \in 1..8} =>
        /\ inst.mnemonic = AccumulatorOps[MatrixRow(opcode)]
        /\ inst.memory_action = IF inst.mnemonic = "Sta" THEN "Write" ELSE "Read"
        /\ \/ inst.address_mode.kind \in {"DirectPage", "Absolute", "DpIndirect"}
           \/ inst.address_mode.kind = "Immediate" /\ inst.mnemonic # "Sta"

\* A read-modify-write of column 2 has the operation of its row; so has an undocumented
\* opcode of column 3, which is that operation and the accumulator's after it.
ModifyOps == << "Asl", "Rol", "Lsr", "Ror", "Stx", "Ldx", "Dec", "Inc" >>
UndocumentedOps == << "Slo", "Rla", "Sre", "Rra", "Sax", "Lax", "Dcp", "Isc" >>
BitOps == {"Rmb0", "Rmb1", "Rmb2", "Rmb3", "Rmb4", "Rmb5", "Rmb6", "Rmb7",
           "Smb0", "Smb1", "Smb2", "Smb3", "Smb4", "Smb5", "Smb6", "Smb7"}
BitOpcode(F, opcode) == F.Micro = "Micro65C02" /\ opcode % 16 = 7
\* So of the instructions with an operand in memory: those that modify it are RMB or SMB, TSB
\* or TRB, or their row's; and the NMOS column 3, but for the unstable stores and LAS, is its
\* row's throughout.
MatrixFacts(F, opcode, inst) ==
    LET m == inst.mnemonic
        row == MatrixRow(opcode)
        inMemory == inst.address_mode.kind \in {"DirectPage", "Absolute", "DpIndirect"}
        modifies == inst.memory_action = "ReadModifyWrite"
    IN  /\ inMemory /\ modifies =>
              IF BitOpcode(F, opcode) THEN m \in BitOps
              ELSE \/ m \in {"Tsb", "Trb"}
                   \/ row \notin {5, 6} /\ m \in {ModifyOps[row], UndocumentedOps[row]}
        /\ inMemory /\ F.Micro = "Micro6502" /\ opcode % 4 = 3
           /\ m \notin {"Sha", "Shx", "Shy", "Tas", "Las"} =>
              /\ m = UndocumentedOps[row]
              /\ inst.memory_action = CASE row = 5 -> "Write" [] row = 6 -> "Read"
                                         [] OTHER -> "ReadModifyWrite"
        /\ inst.address_mode.kind = "Immediate" /\ m \in {"Alr", "Anc", "Sbx", "Arr", "Usbc"} =>
              inst.memory_action = "Read"

\* AddressMode::emit_ucycs
EmitUcycs(F, mode, action) ==
    CASE mode.kind = "Implied" -> EmitImplied
      [] mode.kind = "Immediate" -> EmitImmediate
      [] mode.kind = "DirectPage" -> EmitDp(F, action, mode.offset)
      [] mode.kind = "Absolute" -> EmitAbsolute(F, action, mode.offset)
      [] mode.kind = "DpIndirect" -> EmitDpInd(F, action, mode.offset)
      [] mode.kind = "Stack" -> EmitStack(action)
      [] mode.kind = "JmpAbsolute" -> EmitJmpAbs
      [] mode.kind = "JmpIndirect" -> EmitJmpInd(F)
      [] mode.kind = "JmpAbsoluteX" -> EmitJmpAbsX
      [] mode.kind = "ToSubroutine" -> EmitJsr
      [] mode.kind = "FromSubroutine" -> EmitRts
      [] mode.kind = "Brk" -> EmitInt("Brk")
      [] mode.kind = "FromInterrupt" -> EmitRti
      [] mode.kind = "DpRelative" -> EmitBranchDpRel
      [] mode.kind = "Relative" -> EmitBranchRel
      [] mode.kind = "Jam" -> EmitJam
      [] mode.kind = "CmosNop" -> EmitCmosNop(mode.bytes, mode.cycles)
=============================================================================
