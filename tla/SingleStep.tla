----------------------------- MODULE SingleStep -----------------------------
(***************************************************************************)
(* One instruction from any registers: what the single-step tests do       *)
(* (src/tests/common/single_step.rs), with any bytes on the bus instead of *)
(* the recorded ones.  The machine stops at the instruction boundary.      *)
(*                                                                         *)
(* The properties say what the instruction as a whole should have done,    *)
(* from the registers at its start (entry) and the bytes its accesses      *)
(* transferred (log), in the terms of the 6502's programming manual.       *)
(***************************************************************************)
EXTENDS Datapath

CONSTANTS
    Entries,         \* the cores an instruction may start with
    Recorded(_, _)   \* Recorded(start, latch): the bytes a read into a latch may get in a
                     \* case that starts with these registers

QuietLines == [irq |-> FALSE, nmi |-> FALSE, rdy |-> TRUE]

ASSUME EntriesAssumption == Entries \subseteq Core
\* As new(), PLP and RTI leave the status register
ASSUME StatusAssumption == \A start \in Entries : "U" \in start.flags /\ "B" \notin start.flags
ASSUME StackAssumption == \A o \in Opcode : StackFacts(Decode[o])
ASSUME ColumnAssumption == \A o \in Opcode : ColumnFacts(o, Decode[o])
ASSUME MatrixAssumption == \A o \in Opcode : MatrixFacts(F, o, Decode[o])
ASSUME DecimalAssumption == F.DECIMAL = "Cmos65C02" => F.Micro = "Micro65C02"
ASSUME RecordedAssumption ==
    \A start \in Entries, latch \in Latch : Recorded(start, latch) \subseteq Byte
ASSUME QuietAssumption == QuietLines \in Lines

\* setup_initial()
SetupInitial ==
    /\ Powered
    /\ core \in Entries
    /\ p = core.flags \cap {"I", "D"}
    /\ access = NoAccess
    /\ entry = core
    /\ log = << >>

\* A byte that goes nowhere may as well be 0.
Answers ==
    [latch \in Latch \cup {"Opcode"} |->
        [addr \in Int |-> IF latch = "None" THEN {0} ELSE Recorded(entry, latch)]]

TestCycle ==
    \/ FirstFetchData(QuietLines, Answers)
    \/ ExecuteData(QuietLines, Answers)
    \/ DecimalCycleData(QuietLines, Answers)

TestSpec == SetupInitial /\ [][TestCycle]_allVars

-----------------------------------------------------------------------------
(* The finished instruction.                                               *)

mode == current_inst.address_mode
mnemonic == current_inst.mnemonic
action == current_inst.memory_action

\* The accesses of the instruction proper, without the extra decimal cycle
Body == IF extra_adc_sbc_cycle THEN Front(log) ELSE log
IsWrite(a) == ~a.read
Writes == SelectSeq(Body, IsWrite)
ReadByte(cycle) == Body[cycle].data
FinalAccess == Last(Body)

\* The n-th byte of the instruction: what its fetch in the instruction stream returned
InstructionByte(n) ==
    LET fetches == {i \in 2..Len(Body) : Body[i].vpa /\ Body[i].addr = (entry.pc + n) % 65536}
    IN  Body[Min(fetches)].data
InstructionWord == Word(InstructionByte(1), InstructionByte(2))

MemoryModes == {"DirectPage", "Absolute", "DpIndirect"}
AccessesMemory == AtBoundary /\ mode.kind \in MemoryModes
Unstable == {"Sha", "Shx", "Shy", "Tas"}

Index == IndexRegister(entry, mode.offset)
PointerCycle == 3 + Extra(mode.offset # "None" /\ mode.offset # "Y")
PointerAddress == (InstructionByte(1) + (IF mode.offset = "X" THEN entry.x ELSE 0)) % 256

\* The address before its last index is added, that index, and the sum
Base ==
    CASE mode.kind = "DirectPage" -> InstructionByte(1)
      [] mode.kind = "Absolute" -> InstructionWord
      [] mode.kind = "DpIndirect" -> Word(ReadByte(PointerCycle), ReadByte(PointerCycle + 1))
LastIndex == IF mode.kind = "DpIndirect" /\ mode.offset = "X" THEN 0 ELSE Index
EffectiveAddress ==
    (Base + LastIndex) % (IF mode.kind = "DirectPage" THEN 256 ELSE 65536)

\* The instruction's operand is read from, and its result written to, the effective
\* address and nowhere else, and so is the extra read of a decimal operation; direct-page
\* addresses and both bytes of a direct-page pointer wrap in the page.  A bus takes the
\* address modulo $10000, as both buses of the crate do.
EffectiveAddressExact ==
    AccessesMemory /\ mnemonic \notin Unstable =>
        /\ mode.kind = "DpIndirect" =>
              /\ Body[PointerCycle].addr = PointerAddress
              /\ Body[PointerCycle + 1].addr = (PointerAddress + 1) % 256
        /\ FinalAccess.addr % 65536 = EffectiveAddress
        /\ Last(log).addr % 65536 = EffectiveAddress
        /\ \A i \in 1..Len(Writes) : Writes[i].addr % 65536 = EffectiveAddress

\* CMOS chips read no invalid address while an index carries into the high byte: every
\* read of an indexed instruction is of its own bytes, of its pointer or of its operand,
\* so that a register of a device is not read by accident.
NoInvalidRead ==
    AccessesMemory /\ ~F.INVALID_ADDR_READ /\ mode.kind # "DirectPage" =>
        LET instruction == {(entry.pc + n) % 65536 : n \in 0..Operands[mode.kind]}
            pointer == IF mode.kind = "DpIndirect"
                       THEN {InstructionByte(1), PointerAddress, (PointerAddress + 1) % 256}
                       ELSE {}
        IN  \A i \in 1..Len(log) :
               log[i].addr % 65536 \in instruction \cup pointer \cup {EffectiveAddress}

-----------------------------------------------------------------------------
(* Control flow and the stack.                                             *)

\* The conditional branches: the opcode's top bits name a flag and the value to take it on.
BranchTaken ==
    IF mode.kind = "DpRelative"
    THEN ((ReadByte(4) \div 2^((current_opcode \div 16) % 8)) % 2 = 1)
            = (current_opcode \div 128 = 1)
    ELSE current_opcode = 128 \/
         (<< "N", "V", "C", "Z" >>[current_opcode \div 64 + 1] \in entry.flags)
            = ((current_opcode \div 32) % 2 = 1)

Following(bytes) == (entry.pc + bytes) % 65536
ExpectedPc ==
    CASE mode.kind \in {"JmpAbsolute", "ToSubroutine"} -> InstructionWord
      [] mode.kind \in {"JmpIndirect", "JmpAbsoluteX", "Brk"} ->
            Word(ReadByte(CASE mode.kind = "JmpIndirect" -> 4
                            [] mode.kind = "JmpAbsoluteX" -> 5
                            [] OTHER -> 6), FinalAccess.data)
      [] mode.kind = "FromSubroutine" -> (Word(ReadByte(4), ReadByte(5)) + 1) % 65536
      [] mode.kind = "FromInterrupt" -> Word(ReadByte(5), ReadByte(6))
      [] mode.kind = "Relative" /\ BranchTaken -> Following(2 + Signed(InstructionByte(1)))
      [] mode.kind = "DpRelative" /\ BranchTaken -> Following(3 + Signed(InstructionByte(2)))
      [] mode.kind = "CmosNop" -> Following(mode.bytes)
      [] OTHER -> Following(1 + Operands[mode.kind])

\* The next instruction is the one the program goes on with: the sequential one, the
\* branch target when the flag or bit says so, or the address read through a pointer whose
\* second byte NMOS chips look for in the first one's page; all modulo $10000.
TargetExact ==
    AtBoundary =>
        /\ core.pc = ExpectedPc
        /\ core.targets = << >>
        /\ mode.kind = "JmpIndirect" =>
              /\ Body[4].addr = InstructionWord
              /\ FinalAccess.addr =
                    IF F.Micro = "Micro6502"
                    THEN WithLow(InstructionWord, (Low(InstructionWord) + 1) % 256)
                    ELSE (InstructionWord + 1) % 65536
        /\ mode.kind = "JmpAbsoluteX" =>
              /\ Body[5].addr % 65536 = (InstructionWord + entry.x) % 65536
              /\ FinalAccess.addr % 65536 = (InstructionWord + entry.x + 1) % 65536
        /\ mode.kind = "Brk" => FinalAccess.addr = 65535

\* Where an instruction goes: to its operand and to its successor.
AddressesExact == EffectiveAddressExact /\ TargetExact

StackAddress(offset) == 256 + ((entry.s + offset) % 256)
Return == Following(2)
ExpectedPushes ==
    CASE mode.kind = "ToSubroutine" -> << High(Return), Low(Return) >>
      [] mode.kind = "Brk" ->
            << High(Return), Low(Return), StatusByte(entry.flags \cup {"B", "U"}) >>
      [] mnemonic = "Pha" -> << entry.a >>
      [] mnemonic = "Phx" -> << entry.x >>
      [] mnemonic = "Phy" -> << entry.y >>
      [] mnemonic = "Php" -> << StatusByte(entry.flags \cup {"B"}) >>
      [] OTHER -> << >>
Pulls == CASE mode.kind = "FromSubroutine" -> 2
           [] mode.kind = "FromInterrupt" -> 3
           [] mode.kind = "Stack" /\ action = "Read" -> 1
           [] OTHER -> 0

\* The stack is page 1 whatever the stack pointer: pushes go down from it and pulls come
\* up to it, wrapping in the page; the bytes pushed are the return address, high byte
\* first, and the status; and the stack pointer ends up past what was moved.
StackExact ==
    AtBoundary /\ mode.kind \notin MemoryModes =>
        /\ Writes = [i \in 1..Len(ExpectedPushes) |->
                        [addr |-> StackAddress(1 - i), data |-> ExpectedPushes[i],
                         vpa |-> FALSE, read |-> FALSE]]
        /\ \A i \in 1..Pulls : Body[3 + i].addr = StackAddress(i)
        /\ mnemonic # "Txs" => core.s = (entry.s + Pulls - Len(ExpectedPushes)) % 256

-----------------------------------------------------------------------------
(* Results.                                                                *)

\* SHA, SHX, SHY and TAS store a register ANDed with the high byte of the address before
\* indexing plus one; when the index carries, that value also is the high byte of the
\* address stored to.
UnstableStoreExact ==
    AccessesMemory /\ mnemonic \in Unstable =>
        LET source == CASE mnemonic = "Shx" -> entry.x
                        [] mnemonic = "Shy" -> entry.y
                        [] OTHER -> And(entry.a, entry.x)
            value == And(source, (High(Base) + 1) % 256)
            carries == Low(Base) + LastIndex > 255
            low == (Low(Base) + LastIndex) % 256
        IN  /\ Writes = << FinalAccess >>
            /\ FinalAccess.data = value
            /\ FinalAccess.addr = Word(low, IF carries THEN value ELSE High(Base))
            /\ core.s = IF mnemonic = "Tas" THEN source ELSE entry.s

\* A read-modify-write ends with the read of its operand, a dummy access and the write.
Operand == IF action = "ReadModifyWrite" THEN Body[Len(Body) - 2].data ELSE FinalAccess.data
Latched(c, byte) == [c EXCEPT !.op0 = byte]
DoRead(name, c) == ReadEffect(F, [current_inst EXCEPT !.mnemonic = name], c)
DoModify(name, c) == ModifyEffect(F, name, current_opcode, c)
SameRegisters(c, d) ==
    \A r \in {"a", "x", "y", "s", "flags"} : c[r] = d[r]

\* An undocumented opcode of NMOS column 3 is what the chip makes of its two neighbours:
\* the read-modify-write of column 2, then the accumulator operation of column 1 on the
\* byte it wrote back, with the carry the first one left; row 4 stores A AND X and row 5
\* loads both registers.
UndocumentedIsBoth ==
    AccessesMemory /\ F.Micro = "Micro6502" /\ current_opcode % 4 = 3
    /\ mnemonic \notin Unstable \cup {"Las"} =>
        LET row == MatrixRow(current_opcode)
            start == Latched(entry, Operand)
            modified == DoModify(ModifyOps[row], start)
        IN  CASE row = 5 -> FinalAccess.data = And(entry.a, entry.x) /\ SameRegisters(core, entry)
              [] row = 6 -> SameRegisters(core, DoRead("Ldx", DoRead("Lda", start)))
              [] OTHER ->
                    /\ SameRegisters(core, DoRead(AccumulatorOps[row], modified))
                    /\ FinalAccess.data = modified.op0

\* The undocumented immediates do two documented things one after the other: ALR is AND
\* then LSR A, ANC is AND with its sign also shifted into C, SBX compares A AND X with the
\* operand and keeps the difference in X, ARR (in binary mode) is AND then ROR A with C
\* and V from bits 6 and 5 of the result, and $EB is SBC.
ImmediatesCombine ==
    AtBoundary /\ mode.kind = "Immediate" =>
        LET start == Latched(entry, InstructionByte(1))
            anded == DoRead("And", start)
            masked == [start EXCEPT !.a = And(entry.a, entry.x)]
            rotated == ImpliedEffect("Ror", anded)
            bit(n) == (rotated.a \div BitWeight(n)) % 2
        IN  /\ mnemonic = "Alr" => SameRegisters(core, ImpliedEffect("Lsr", anded))
            /\ mnemonic = "Anc" =>
                  /\ core.a = anded.a
                  /\ core.flags \ {"C"} = anded.flags \ {"C"}
                  /\ "C" \in core.flags <=> "C" \in ImpliedEffect("Asl", anded).flags
            /\ mnemonic = "Sbx" =>
                  /\ core.flags = DoRead("Cmp", masked).flags
                  /\ (core.x + start.op0 - masked.a) % 256 = 0
            /\ (mnemonic = "Arr" /\ "D" \notin entry.flags) =>
                  /\ core.a = rotated.a
                  /\ core.flags \ {"C", "V"} = rotated.flags \ {"C", "V"}
                  /\ "C" \in core.flags <=> bit(6) = 1
                  /\ "V" \in core.flags <=> bit(6) # bit(5)
            /\ mnemonic = "Usbc" => SameRegisters(core, DoRead("Sbc", start))

\* The undocumented opcodes of column 3 and the undocumented immediates do what two
\* documented operations do in turn, and nothing else.
UndocumentedCombine == UndocumentedIsBoth /\ ImmediatesCombine

\* A read-modify-write writes back, in its last cycle, what its row of the matrix makes of
\* the byte it read two cycles before; in the cycle between them NMOS chips write the old
\* byte, CMOS chips do not, and neither writes at any other time; and RMB and SMB change one
\* bit, in the place the opcode names.
WritesBack ==
    AccessesMemory /\ action = "ReadModifyWrite" =>
        LET last == Len(Body)
            old == Operand
            carry == IF "C" \in entry.flags THEN 1 ELSE 0
            bit == BitWeight((current_opcode \div 16) % 8)
            isSet == (old \div bit) % 2 = 1
            new == CASE BitOpcode(F, current_opcode) ->
                          IF current_opcode < 128 THEN old - (IF isSet THEN bit ELSE 0)
                          ELSE old + (IF isSet THEN 0 ELSE bit)
                     [] mnemonic = "Tsb" -> Or(old, entry.a)
                     [] mnemonic = "Trb" -> old - And(old, entry.a)
                     [] OTHER -> << (2 * old) % 256, (2 * old + carry) % 256, old \div 2,
                                    old \div 2 + 128 * carry, 0, 0, (old - 1) % 256,
                                    (old + 1) % 256 >>[MatrixRow(current_opcode)]
        IN  /\ {i \in 1..last : ~Body[i].read}
                   = IF F.RMW_DUMMY_WRITE THEN {last - 1, last} ELSE {last}
            /\ F.RMW_DUMMY_WRITE => Body[last - 1].data = old
            /\ Body[last].data = new

\* The registers and flags an instruction may change, from the manual.
ToA == {"Lda", "Pla", "And", "Eor", "Ora", "Txa", "Tya", "Anc", "Ane"}
ToX == {"Ldx", "Plx", "Tax", "Tsx", "Inx", "Dex"}
ToY == {"Ldy", "Ply", "Tay", "Iny", "Dey"}
Shifts == {"Asl", "Lsr", "Rol", "Ror"}
MayChange ==
    LET onA == IF mode.kind = "Implied" THEN {"a"} ELSE {}
    IN  CASE mnemonic \in ToA -> {"a", "N", "Z"} \cup Flag("C", mnemonic = "Anc")
          [] mnemonic \in ToX -> {"x", "N", "Z"}
          [] mnemonic \in ToY -> {"y", "N", "Z"}
          [] mnemonic \in {"Adc", "Sbc", "Usbc", "Arr", "Rra", "Isc"} ->
                {"a", "N", "V", "Z", "C"}
          [] mnemonic \in {"Cmp", "Cpx", "Cpy", "Dcp"} -> {"N", "Z", "C"}
          [] mnemonic \in {"Slo", "Rla", "Sre", "Alr"} -> {"a", "N", "Z", "C"}
          [] mnemonic = "Sbx" -> {"x", "N", "Z", "C"}
          [] mnemonic \in {"Lax", "Lxa"} -> {"a", "x", "N", "Z"}
          [] mnemonic = "Las" -> {"a", "x", "s", "N", "Z"}
          [] mnemonic \in Shifts -> onA \cup {"N", "Z", "C"}
          [] mnemonic \in {"Inc", "Dec"} -> onA \cup {"N", "Z"}
          [] mnemonic = "Bit" ->
                IF mode.kind = "Immediate" THEN {"Z"} ELSE {"N", "V", "Z"}
          [] mnemonic \in {"Tsb", "Trb"} -> {"Z"}
          [] mnemonic \in {"Plp", "Rti"} -> Flags \ {"B", "U"}
          [] mnemonic \in {"Clc", "Sec"} -> {"C"}
          [] mnemonic \in {"Cld", "Sed"} -> {"D"}
          [] mnemonic \in {"Cli", "Sei"} -> {"I"}
          [] mnemonic = "Clv" -> {"V"}
          [] mnemonic = "Brk" -> {"I"} \cup Flag("D", F.Micro = "Micro65C02")
          [] mnemonic \in {"Txs", "Tas"} -> {"s"}
          [] OTHER -> {}

\* Every instruction of every table leaves the registers and flags alone that the manual
\* does not say it changes, in each of its addressing modes; B and U never change.
Footprint ==
    AtBoundary =>
        /\ \A r \in {"a", "x", "y"} : core[r] # entry[r] => r \in MayChange
        /\ core.s # entry.s => "s" \in MayChange \/ ExpectedPushes # << >> \/ Pulls > 0
        /\ \A f \in Flags : (f \in core.flags) # (f \in entry.flags) => f \in MayChange

\* The accumulator's column: ORA, AND, EOR and LDA leave in A what they compute from the
\* byte at the effective address (or the second byte of the instruction), STA stores A,
\* and CMP compares with it; N and Z tell of that result, or of CMP's difference.
AccumulatorColumn ==
    AtBoundary /\ current_opcode % 4 = 1 /\ mnemonic \in {AccumulatorOps[i] : i \in 1..8} =>
        LET row == MatrixRow(current_opcode)
            byte == IF mode.kind = "Immediate" THEN InstructionByte(1) ELSE FinalAccess.data
            result == CASE row = 1 -> Or(entry.a, byte)
                        [] row = 2 -> And(entry.a, byte)
                        [] row = 3 -> Xor(entry.a, byte)
                        [] row = 6 -> byte
                        [] OTHER -> entry.a
        IN  /\ row = 5 => FinalAccess.data = entry.a
            /\ row \notin {4, 8} => core.a = result
            /\ row \in {1, 2, 3, 6} => /\ "Z" \in core.flags <=> result = 0
                                       /\ "N" \in core.flags <=> result >= 128
            /\ row = 7 => /\ "Z" \in core.flags <=> entry.a = byte
                          /\ "C" \in core.flags <=> entry.a >= byte
                          /\ "N" \in core.flags <=> (entry.a - byte) % 256 >= 128
=============================================================================
