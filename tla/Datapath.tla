------------------------------ MODULE Datapath ------------------------------
(***************************************************************************)
(* Cpu6502 with its data: the steps of CpuControl, each with what it does  *)
(* to the registers and to the latches of MicroExecutor (execute_next of   *)
(* src/isa/op.rs), and the access it makes on the bus.  Here the outcomes  *)
(* CpuControl leaves open - a page crossed, a branch taken, the status     *)
(* pulled - are computed.                                                  *)
(*                                                                         *)
(* The actions take `answer[latch][addr]`, the bytes the bus may answer a  *)
(* read into a latch with.                                                 *)
(***************************************************************************)
EXTENDS CpuControl, Instructions

VARIABLES
    core,    \* the registers and the latches
    access,  \* the last access on the bus
    entry,   \* history: the core when the current instruction started
    log      \* history: the accesses of the current instruction

dataVars == << core, access, entry, log >>
allVars == << vars, dataVars >>

\* How far an index and an increment take the effective address beyond $FFFF
Effective == {n \in Nat : n < 65536 + 256}
Access == [addr : Effective \cup {-1}, data : Byte, vpa : BOOLEAN, read : BOOLEAN]
Core == [a : Byte, x : Byte, y : Byte, s : Byte, pc : Address, flags : SUBSET Flags,
         ea : Effective, ptr : Address, op0 : Byte, signed_offset8 : SignedByte,
         data : Byte, targets : Seq(Address)]

\* MicroExecutor::reset(); `targets` are the arguments of the SetPc ops that Branch
\* pushed, whose place in the queue CpuControl keeps.
Scratch(c) ==
    [c EXCEPT !.ea = 127, !.ptr = 0, !.op0 = 0, !.signed_offset8 = 0, !.data = 0,
              !.targets = << >>]

NoAccess == [addr |-> 0, data |-> 0, vpa |-> FALSE, read |-> TRUE]

-----------------------------------------------------------------------------
(* The latches.  An address is a u32: -1 stands for $FFFFFFFF, the only    *)
(* one a wrapping subtraction makes.                                       *)

WithLow(word, byte) == word - Low(word) + byte
WithHigh(word, byte) == word + 256 * (byte - High(word))

AddressOf(latch, c) ==
    CASE latch = "Pc" -> c.pc
      [] latch = "Sp" -> 256 + c.s
      [] latch = "Ea" -> c.ea
      [] latch = "EaLo" -> Low(c.ea)
      [] latch = "Ptr" -> c.ptr
      [] latch = "PtrLo" -> Low(c.ptr)
      [] latch = "FFFA" -> 65530
      [] latch = "FFFB" -> 65531
      [] latch = "FFFE" -> 65534
      [] latch = "FFFF" -> 65535

\* Mutant: the pointer in the direct page runs into page 1.
AddToLatchUnwrapped(c, latch, offset) ==
    CASE latch = "Pc" -> [c EXCEPT !.pc = (@ + offset) % 65536]
      [] latch = "Sp" -> [c EXCEPT !.s = (@ + offset) % 256]
      [] latch = "Ea" -> [c EXCEPT !.ea = @ + offset]
      [] latch = "EaLo" -> [c EXCEPT !.ea = @ + offset]
      [] latch = "PtrLo" -> [c EXCEPT !.ptr = @ + offset]

\* add_offset, for the latches the 8-bit emitters use
AddToLatch(c, latch, offset) ==
    CASE latch = "Pc" -> [c EXCEPT !.pc = (@ + offset) % 65536]
      [] latch = "Sp" -> [c EXCEPT !.s = (@ + offset) % 256]
      [] latch = "Ea" -> [c EXCEPT !.ea = @ + offset]
      [] latch = "EaLo" -> [c EXCEPT !.ea = WithLow(@, (Low(@) + offset) % 256)]
      [] latch = "PtrLo" -> [c EXCEPT !.ptr = WithLow(@, (Low(@) + offset) % 256)]

WriteLatch(c, latch, byte) ==
    CASE latch = "None" -> c
      [] latch = "EaLo" -> [c EXCEPT !.ea = WithLow(@, byte)]
      [] latch = "EaHi" -> [c EXCEPT !.ea = WithHigh(@, byte)]
      [] latch = "Op0" -> [c EXCEPT !.op0 = byte]
      [] latch = "PtrLo" -> [c EXCEPT !.ptr = WithLow(@, byte)]
      [] latch = "PtrHi" -> [c EXCEPT !.ptr = WithHigh(@, byte)]
      [] latch = "PcLo" -> [c EXCEPT !.pc = WithLow(@, byte)]
      [] latch = "PcHi" -> [c EXCEPT !.pc = WithHigh(@, byte)]
      [] latch = "Status" -> [c EXCEPT !.flags = PulledFlags(byte)]
      [] latch = "SignedOffset8" -> [c EXCEPT !.signed_offset8 = Signed(byte)]

ReadLatch(c, latch) ==
    CASE latch = "None" -> c.data
      [] latch = "PcLo" -> Low(c.pc)
      [] latch = "PcHi" -> High(c.pc)
      [] latch = "Status" -> StatusByte(c.flags)
      [] latch = "BrkStatus" -> StatusByte(c.flags \cup {"B", "U"})

-----------------------------------------------------------------------------
(* One micro-op, in the order of execute_next.                             *)

IndexRegister(c, offset) ==
    CASE offset = "X" -> c.x [] offset = "Y" -> c.y [] OTHER -> 0

\* Before the access: prepare the byte to store, add the offset to the low byte only.
Unfixed(c, offset) == WithLow(c.ea, (Low(c.ea) + IndexRegister(c, offset)) % 256)
TargetEa(c, offset) == c.ea + IndexRegister(c, offset)
\* Mutant: a CMOS chip reads the address whose page is not fixed yet.
InvalidEa(c, unfixed) == unfixed
\* The address read while the page is fixed
DummyEa(c, unfixed) == IF F.INVALID_ADDR_READ THEN unfixed ELSE c.pc - 1

BeforeAccess(c, op) ==
    LET ready == IF op.bus.read THEN c ELSE PrepareStore(current_inst, c)
        unfixed == Unfixed(ready, op.alu.offset)
        dummy == NeedsDummy(unfixed # TargetEa(ready, op.alu.offset))
    IN  IF op.alu.op # "OffsetWithExtraCycle" THEN ready
        ELSE [ready EXCEPT !.ea = IF dummy THEN DummyEa(ready, unfixed) ELSE unfixed]

AccessAddress(c, op) ==
    AddressOf(op.bus.addr, c) - (IF op.alu.op = "SpecialAddOffset" THEN 1 ELSE 0)

\* After the access and the increment of its source; `byte` is what a read answered.
AfterAccess(c, op, byte) ==
    LET done == IF op.bus.read THEN WriteLatch([c EXCEPT !.data = byte], op.local_latch, byte)
                ELSE [c EXCEPT !.data = ReadLatch(c, op.local_latch)]
    IN  IF op.inc_src THEN AddToLatch(done, op.bus.addr, 1) ELSE done

\* Mutant: the target is counted from the branch's own opcode.
BranchTargetFromOpcode(c) == (c.pc - 2 + c.signed_offset8) % 65536
\* Mutant: PC does not wrap.
BranchTargetUnwrapped(c) == c.pc + c.signed_offset8
BranchTarget(c) == (c.pc + c.signed_offset8) % 65536

\* The carry out of the low byte; `c` is the core after the access.
Crosses(op, c) ==
    CASE op.alu.op = "OffsetWithExtraCycle" ->
            Unfixed(core, op.alu.offset) # TargetEa(core, op.alu.offset)
      [] op.alu.op = "Branch" -> High(BranchTarget(c)) # High(c.pc)
      [] op.alu.op = "FixPtr" -> Low(c.ptr) = 0
      [] OTHER -> FALSE
Taken(op, c) ==
    op.alu.op = "Branch" /\ TakesBranch(current_inst.mnemonic, current_opcode, c)
Pulled(op, c) ==
    IF op.local_latch = "Status" /\ op.bus.read THEN c.flags \cap {"I", "D"}
    ELSE IF current_inst.mnemonic = "Plp" THEN FlagsOf(c.op0) \cap {"I", "D"}
    ELSE p

\* The arguments of the SetPc ops of BranchTail
BranchTargets(c) ==
    LET maybe_invalid == WithLow(c.pc, Low(BranchTarget(c)))
    IN  IF maybe_invalid = BranchTarget(c) \/ current_opcode % 16 = 15
        THEN << BranchTarget(c) >>
        ELSE << maybe_invalid, BranchTarget(c) >>

\* The operation after the access.  FixPtr's addition is not a wrapping one: at $FF00
\* it panics where overflows are checked.
AluEffect(c, op) ==
    LET latch == op.alu.latch
        offset == IndexRegister(c, op.alu.offset)
    IN  CASE op.alu.op = "AddOffset" -> AddToLatch(c, latch, offset)
          [] op.alu.op = "SpecialAddOffset" -> [c EXCEPT !.ea = @ + c.x]
          [] op.alu.op = "OffsetWithExtraCycle" ->
                IF NeedsDummy(Crosses(op, c))
                THEN [c EXCEPT !.ea = TargetEa(core, op.alu.offset)] ELSE c
          [] op.alu.op = "IncLatch" -> AddToLatch(c, latch, 1)
          [] op.alu.op = "DecSp" -> [c EXCEPT !.s = (@ - 1) % 256]
          [] op.alu.op = "Modify" ->
                ModifyEffect(F, current_inst.mnemonic, current_opcode, c)
          [] op.alu.op = "SwapEaPc" -> [c EXCEPT !.pc = c.ea % 65536, !.ea = c.pc]
          [] op.alu.op = "Branch" /\ Taken(op, c) -> [c EXCEPT !.targets = BranchTargets(c)]
          [] op.alu.op = "SetPc" -> [c EXCEPT !.pc = Head(c.targets), !.targets = Tail(@)]
          [] op.alu.op = "FixPtr" /\ Low(c.ptr) = 0 -> [c EXCEPT !.ptr = (@ + 256) % 65536]
          [] OTHER -> c

\* The effects of the instruction, once its last micro-op is done
Retire(c) ==
    LET kind == current_inst.address_mode.kind
        afterRead == IF current_inst.memory_action = "Read" THEN ReadEffect(F, current_inst, c)
                     ELSE c
    IN  CASE kind = "Implied" -> ImpliedEffect(current_inst.mnemonic, afterRead)
          [] kind = "Brk" -> SetFlag(afterRead, "I", TRUE)
          [] OTHER -> afterRead

-----------------------------------------------------------------------------
(* The steps.                                                              *)

Accesses(addr, byte, vpa, read) ==
    access' = [addr |-> addr, data |-> byte, vpa |-> vpa, read |-> read]
Starts(c) == entry' = c /\ log' = << access' >>
Continues == entry' = entry /\ log' = IF Len(log) < MaxCycles THEN Append(log, access') ELSE log

StallData(lines) == Stall(lines) /\ UNCHANGED dataVars

\* fetch_opcode() and the reset of the latches in prepare_instruction()
FetchData(opcodes) ==
    /\ core' = [Scratch(core) EXCEPT !.pc = (@ + 1) % 65536]
    /\ Accesses(core.pc, current_opcode', TRUE, TRUE)
    /\ current_opcode' \in opcodes
    /\ Starts(core)

FirstFetchData(lines, answer) ==
    /\ FirstFetch(lines)
    /\ FetchData(answer["Opcode"][core.pc])

ExecuteData(lines, answer) ==
    /\ Proceeds(lines)
    /\ current_inst # NoInst
    /\ ~IsEmpty(ucycs)
    /\ SampleNmi(lines)
    /\ LET op == FrontOp(ucycs)
           ready == BeforeAccess(core, op)
           addr == AccessAddress(ready, op)
       IN  \E byte \in IF op.bus.read THEN answer[op.local_latch][addr] ELSE {0} :
              LET done == AfterAccess(ready, op, byte)
                  after == AluEffect(done, op)
              IN  /\ ExecuteMicroOp(op, Crosses(op, done), Taken(op, done), Pulled(op, done))
                  /\ core' = IF IsEmpty(ucycs') THEN Retire(after) ELSE after
                  /\ Accesses(addr, done.data, op.bus.vpa, op.bus.read)
    /\ Continues
    /\ UNCHANGED << current_inst, current_opcode, extra_adc_sbc_cycle >>

\* The flavors' DECIMAL_ADC_IMMEDIATE_READ
DecimalAdcImmediateRead ==
    CASE F.OPCODE_TABLE = "Synertek" -> 86
      [] F.OPCODE_TABLE = "Rockwell" -> 89
      [] OTHER -> 127
DecimalReadAddress ==
    IF current_inst.address_mode.kind \notin {"Implied", "Immediate"} THEN core.ea
    ELSE IF current_inst.mnemonic = "Adc" THEN DecimalAdcImmediateRead ELSE 0

\* The byte read is thrown away.
DecimalCycleData(lines, answer) ==
    /\ DecimalCycle(lines)
    /\ \E byte \in answer["None"][DecimalReadAddress] :
          Accesses(DecimalReadAddress, byte, TRUE, TRUE)
    /\ Continues
    /\ UNCHANGED core

\* start_interrupt(): the latches are reset, the first micro-op reads at PC.
InterruptData(lines, answer) ==
    /\ ServiceNmi(lines) \/ ServiceIrq(lines)
    /\ \E byte \in answer["None"][core.pc] :
          /\ core' = [Scratch(core) EXCEPT !.data = byte]
          /\ Accesses(core.pc, byte, TRUE, TRUE)
    /\ Starts(core)

FetchNextData(lines, answer) ==
    /\ FetchNext(lines)
    /\ FetchData(answer["Opcode"][core.pc])

\* reset(): the last access is the second of read16($FFFC).
ResetCore(c, vector) == [Scratch(c) EXCEPT !.pc = vector, !.flags = @ \cup {"I"}]
ResetData(answer) ==
    /\ Reset
    /\ \E lo \in answer["PcLo"][65532], hi \in answer["PcHi"][65533] :
          /\ core' = ResetCore(core, Word(lo, hi))
          /\ Accesses(65533, hi, FALSE, TRUE)
          /\ entry' = core'
          /\ log' = << >>

StepData(lines, answer) ==
    \/ StallData(lines)
    \/ FirstFetchData(lines, answer)
    \/ ExecuteData(lines, answer)
    \/ DecimalCycleData(lines, answer)
    \/ InterruptData(lines, answer)
    \/ FetchNextData(lines, answer)

-----------------------------------------------------------------------------

\* The registers and latches have their types; in particular no 8-bit or 16-bit register
\* is left with a carry, and no address is beyond what an index can add to $FFFF.  And
\* CpuControl's view of the status is that of the whole register: what it lets an
\* instruction do to I and D is what the instruction does.
DatapathTypeOK ==
    /\ core \in Core /\ access \in Access
    /\ p = core.flags \cap {"I", "D"}
=============================================================================
