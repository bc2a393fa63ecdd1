----------------------------- MODULE CpuControl -----------------------------
(***************************************************************************)
(* The control of Cpu6502 (src/cpu6502/mod.rs) and of execute_next         *)
(* (src/isa/op.rs), one action per path through step() plus reset(): which *)
(* micro-op runs in which bus cycle, when an instruction ends, when an     *)
(* interrupt is taken instead of the next opcode, and what RDY stalls.     *)
(*                                                                         *)
(* Data is abstracted to what control depends on.  Of the status register  *)
(* only I and D are kept; whether an index crosses a page, whether a       *)
(* branch is taken and what status is pulled from the stack are chosen     *)
(* freely; the opcode fetched is any of Opcode.  The bus is the last call  *)
(* made on it, with the latch that held the address.                       *)
(***************************************************************************)
EXTENDS UcycTape, Microcode

CONSTANTS
    F,       \* the flavor, a member of FlavorType
    Opcode,  \* the opcodes the program may contain
    Decode,  \* the opcode table of the flavor, restricted to Opcode
    Lines    \* the values sample_lines() may return

MAX_UCYC == 14

Instruction == [mnemonic : STRING, address_mode : AddressMode, memory_action : MemoryAction]
NoInst ==
    [mnemonic |-> "None", address_mode |-> PlainMode("Implied"), memory_action |-> "Read"]

ASSUME FlavorAssumption == F \in FlavorType /\ (F.INVALID_ADDR_READ <=> F.Micro = "Micro6502")
ASSUME LinesAssumption == Lines \subseteq [irq : BOOLEAN, nmi : BOOLEAN, rdy : BOOLEAN]
ASSUME DecodeAssumption ==
    /\ Opcode \subseteq 0..255
    /\ 0 \in Opcode
    /\ Decode \in [Opcode -> Instruction \ {NoInst}]
    /\ Decode[0] = [mnemonic |-> "Brk", address_mode |-> PlainMode("Brk"),
                    memory_action |-> "Read"]
    /\ \A o \in Opcode :
          LET mode == Decode[o].address_mode
          IN  /\ Emittable(F, mode, Decode[o].memory_action)
              /\ mode.kind = "CmosNop" => << mode.bytes, mode.cycles >> \in NopShapes
ASSUME TableAssumption == \A o \in Opcode : ControlFacts(F, o, Decode[o])

VARIABLES
    ucycs,                \* the queue of micro-ops, as a tape
    current_inst,         \* NoInst before the first fetch after new() or reset()
    current_opcode,
    p,                    \* the flags of {"I", "D"} that are set
    extra_adc_sbc_cycle,
    prev_nmi, pending_nmi,
    old_i,                \* "none", or the value "set" or "clear" of Some(I)
    bus,                  \* the last call on the bus
    run                   \* history: what the current instruction did so far

cpuVars == << ucycs, current_inst, current_opcode, p, extra_adc_sbc_cycle, old_i >>
nmiVars == << prev_nmi, pending_nmi >>
vars == << cpuVars, nmiVars, bus, run >>

BusCall == [addr : Latch \cup {"DecimalRead", "ResetVector"}, vda : BOOLEAN, vpa : BOOLEAN,
            read : BOOLEAN]

\* run.source is who started the instruction, run.cycles the cycles it took,
\* run.advance how often it incremented PC, run.moved its net change of SP,
\* run.writes its write cycles, run.retired how often its effects were applied.
MaxCycles == 9   \* a JAM goes on for ever: its count stops here
Run == [source : {"none", "program", "irq", "nmi"}, cycles : 0..MaxCycles, advance : 0..3,
        moved : -3..3, writes : 0..3, retired : 0..1, crossed : BOOLEAN, taken : BOOLEAN]
NewRun(source, cycles, advance) ==
    [source |-> source, cycles |-> cycles, advance |-> advance, moved |-> 0, writes |-> 0,
     retired |-> 0, crossed |-> FALSE, taken |-> FALSE]

\* Cpu6502::new(), but for the public registers, which a host may also set itself
Powered ==
    /\ ucycs = EmptyTape
    /\ current_inst = NoInst
    /\ current_opcode = 0
    /\ extra_adc_sbc_cycle = FALSE
    /\ prev_nmi = FALSE
    /\ pending_nmi = FALSE
    /\ old_i = "none"
    /\ bus = Cycle("None", FALSE, FALSE, TRUE)
    /\ run = NewRun("none", 0, 0)

Init == Powered /\ p = {"I"}

-----------------------------------------------------------------------------
(* Sampling the lines, at the start of every step.                         *)

\* The NMI latch after the sample: edge-triggered, and kept while RDY is low.
PendingNmi(lines) == pending_nmi \/ (lines.nmi /\ ~prev_nmi)

\* Mutant: the latch is overwritten by the next sample.
SampleNmiUnlatched(lines) ==
    /\ prev_nmi' = lines.nmi
    /\ pending_nmi' = (lines.nmi /\ ~prev_nmi)

SampleNmi(lines) ==
    /\ prev_nmi' = lines.nmi
    /\ pending_nmi' = PendingNmi(lines)

\* Mutant: the cycle looked at is the one just done.
LastCycleRead == ~(current_inst # NoInst /\ ~IsEmpty(ucycs) /\ ~bus.read)

\* next_cycle_read(): only a pending write goes ahead without RDY.
NextCycleRead ==
    ~(current_inst # NoInst /\ ~IsEmpty(ucycs) /\ ~FrontOp(ucycs).bus.read)

Stall(lines) ==
    /\ ~lines.rdy
    /\ NextCycleRead
    /\ SampleNmi(lines)
    /\ UNCHANGED << cpuVars, bus, run >>

Proceeds(lines) == lines.rdy \/ ~NextCycleRead

-----------------------------------------------------------------------------
(* Fetching an opcode.                                                     *)

FetchAndPrepare(opcode) ==
    /\ bus' = Cycle("Pc", FALSE, TRUE, TRUE)
    /\ current_opcode' = opcode
    /\ current_inst' = Decode[opcode]
    /\ ucycs' = PushAll(ucycs, EmitUcycs(F, Decode[opcode].address_mode,
                                         Decode[opcode].memory_action))
    /\ run' = NewRun("program", 1, 1)

FirstFetch(lines) ==
    /\ Proceeds(lines)
    /\ current_inst = NoInst
    /\ SampleNmi(lines)
    /\ \E opcode \in Opcode : FetchAndPrepare(opcode)
    /\ UNCHANGED << p, extra_adc_sbc_cycle, old_i >>

-----------------------------------------------------------------------------
(* Executing one micro-op.  `crossed` is the carry out of a low-byte       *)
(* addition, `taken` the outcome of alu_branch.                            *)

IsIncDecAbsX == current_opcode \in {222, 254}

\* need_dummy_this_cycle: the offset takes a cycle of its own.
NeedsDummy(crossed) ==
    \/ crossed
    \/ current_inst.memory_action = "Write"
    \/ (current_inst.memory_action = "ReadModifyWrite" /\ IsIncDecAbsX)

\* Mutant: the dummy cycle winds the queue back.
AfterOffsetRepeats(tape, crossed) ==
    LET action == current_inst.memory_action
    IN  IF NeedsDummy(crossed) THEN DecHead(tape)
        ELSE IF action = "Read" THEN EmptyTape
        ELSE IF ~F.INVALID_ADDR_READ /\ ~IsIncDecAbsX THEN Pop(tape)
        ELSE tape

\* AluOp::OffsetWithExtraCycle, on what is left of the queue
AfterOffset(tape, crossed) ==
    LET action == current_inst.memory_action
    IN  IF NeedsDummy(crossed) THEN tape
        ELSE IF action = "Read" THEN EmptyTape
        ELSE IF ~F.INVALID_ADDR_READ /\ ~IsIncDecAbsX THEN Pop(tape)
        ELSE tape

\* Mutant: no cycle for the crossed page.
BranchTailSamePage(crossed) == << ReadPcSetPc(0) >>

\* The cycles AluOp::Branch appends when the branch is taken
BranchTail(crossed) ==
    IF ~crossed THEN << ReadPcSetPc(0) >>
    ELSE << IF current_opcode % 16 = 15 THEN ReadOp("Pc", "None", FALSE) ELSE ReadPcSetPc(0),
            ReadPcSetPc(0) >>

\* Mutant: a jam does not wind the queue back.
AfterAluWithoutRewind(op, tape, crossed, taken) ==
    CASE op.alu.op = "OffsetWithExtraCycle" -> AfterOffset(tape, crossed)
      [] op.alu.op = "Branch" -> IF taken THEN PushAll(tape, BranchTail(crossed)) ELSE EmptyTape
      [] op.alu.op = "FixPtr" ->
            IF ~crossed /\ current_opcode = 124 THEN EmptyTape ELSE tape
      [] OTHER -> tape

AfterAlu(op, tape, crossed, taken) ==
    CASE op.alu.op = "OffsetWithExtraCycle" -> AfterOffset(tape, crossed)
      [] op.alu.op = "Branch" -> IF taken THEN PushAll(tape, BranchTail(crossed)) ELSE EmptyTape
      [] op.alu.op = "Jam" -> DecHead(tape)
      [] op.alu.op = "FixPtr" ->
            IF ~crossed /\ current_opcode = 124 THEN EmptyTape ELSE tape
      [] OTHER -> tape

\* The outcomes the data allows.
Crossings(op) ==
    IF op.alu.op \in {"OffsetWithExtraCycle", "Branch", "FixPtr"} THEN BOOLEAN ELSE {FALSE}
BranchOutcomes(op) ==
    IF op.alu.op # "Branch" THEN {FALSE}
    ELSE IF current_inst.mnemonic = "Bra" THEN {TRUE}
    ELSE BOOLEAN
PulledStatus(op) ==
    IF (op.local_latch = "Status" /\ op.bus.read) \/ current_inst.mnemonic = "Plp"
    THEN SUBSET {"I", "D"} ELSE {p}

\* finish_read and finish_implied, for the mnemonics that touch I or D
FinishRead(status, pulled) ==
    CASE current_inst.mnemonic = "Plp" -> pulled
      [] current_inst.mnemonic = "Brk" /\ F.DECIMAL = "Cmos65C02" -> status \ {"D"}
      [] OTHER -> status
FinishImplied(status) ==
    CASE current_inst.mnemonic = "Cld" -> status \ {"D"}
      [] current_inst.mnemonic = "Sed" -> status \cup {"D"}
      [] current_inst.mnemonic = "Cli" -> status \ {"I"}
      [] current_inst.mnemonic = "Sei" -> status \cup {"I"}
      [] OTHER -> status

\* Mutant: interrupt entries do not set I.
FinishedUnmasked(status, pulled) ==
    LET afterRead == IF current_inst.memory_action = "Read" THEN FinishRead(status, pulled)
                     ELSE status
    IN  IF current_inst.address_mode.kind = "Implied" THEN FinishImplied(afterRead) ELSE afterRead

\* The status once the instruction's effects are applied
Finished(status, pulled) ==
    LET kind == current_inst.address_mode.kind
        afterRead == IF current_inst.memory_action = "Read" THEN FinishRead(status, pulled)
                     ELSE status
    IN  CASE kind = "Implied" -> FinishImplied(afterRead)
          [] kind = "Brk" -> afterRead \cup {"I"}
          [] OTHER -> afterRead

\* Mutant: SEI masks IRQ at once.
SavesOldIOfCliOnly ==
    current_inst.mnemonic = "Cli" \/ (current_inst.mnemonic = "Plp" /\ current_inst.memory_action = "Read")

\* CLI, SEI and PLP leave the I flag they replace to the next poll.
SavesOldI ==
    \/ /\ current_inst.mnemonic = "Plp"
       /\ current_inst.memory_action = "Read"
    \/ /\ current_inst.mnemonic \in {"Cli", "Sei"}
       /\ current_inst.address_mode.kind = "Implied"

\* History: one bus cycle of the current instruction
Moved(op) ==
    (IF op.inc_src /\ op.bus.addr = "Sp" THEN 1 ELSE 0)
    - (IF op.alu.op = "DecSp" THEN 1 ELSE 0)
Counted(op, crossed, taken, retires) ==
    [run EXCEPT
        !.cycles = IF @ < MaxCycles THEN @ + 1 ELSE @,
        !.advance = IF op.inc_src /\ op.bus.addr = "Pc" THEN @ + 1 ELSE @,
        !.moved = @ + Moved(op),
        !.writes = IF op.bus.read THEN @ ELSE @ + 1,
        !.retired = IF retires THEN @ + 1 ELSE @,
        !.crossed = @ \/ crossed,
        !.taken = @ \/ taken]

ExecuteMicroOp(op, crossed, taken, pulled) ==
    LET tape == AfterAlu(op, Pop(ucycs), crossed, taken)
        status == IF op.bus.read /\ op.local_latch = "Status" THEN pulled ELSE p
    IN  /\ ucycs' = tape
        /\ bus' = op.bus
        /\ p' = IF IsEmpty(tape) THEN Finished(status, pulled) ELSE status
        /\ old_i' = IF IsEmpty(tape) /\ SavesOldI
                    THEN (IF "I" \in p THEN "set" ELSE "clear") ELSE old_i
        /\ run' = Counted(op, crossed, taken, IsEmpty(tape))

Execute(lines) ==
    /\ Proceeds(lines)
    /\ current_inst # NoInst
    /\ ~IsEmpty(ucycs)
    /\ SampleNmi(lines)
    /\ \E crossed \in Crossings(FrontOp(ucycs)), taken \in BranchOutcomes(FrontOp(ucycs)),
          pulled \in PulledStatus(FrontOp(ucycs)) :
          ExecuteMicroOp(FrontOp(ucycs), crossed, taken, pulled)
    /\ UNCHANGED << current_inst, current_opcode, extra_adc_sbc_cycle >>

-----------------------------------------------------------------------------
(* The instruction boundary: the queue is empty, the next cycle is an      *)
(* opcode fetch unless the decimal cycle or an interrupt comes first.      *)

AtBoundary == current_inst # NoInst /\ IsEmpty(ucycs)

DecimalInstruction ==
    /\ current_inst.mnemonic \in {"Adc", "Sbc"}
    /\ F.DECIMAL = "Cmos65C02"
    /\ "D" \in p
    /\ current_inst.memory_action = "Read"

DecimalCycle(lines) ==
    /\ Proceeds(lines)
    /\ AtBoundary
    /\ DecimalInstruction /\ ~extra_adc_sbc_cycle
    /\ SampleNmi(lines)
    /\ extra_adc_sbc_cycle' = TRUE
    /\ bus' = Cycle(IF current_inst.address_mode.kind \in {"Implied", "Immediate"}
                    THEN "DecimalRead" ELSE "Ea", FALSE, TRUE, TRUE)
    /\ run' = [run EXCEPT !.cycles = @ + 1]
    /\ UNCHANGED << ucycs, current_inst, current_opcode, p, old_i >>

IrqDisable == IF old_i = "none" THEN "I" \in p ELSE old_i = "set"

\* What every way past the boundary shares
Poll(lines) ==
    /\ Proceeds(lines)
    /\ AtBoundary
    /\ ~(DecimalInstruction /\ ~extra_adc_sbc_cycle)
    /\ prev_nmi' = lines.nmi
    /\ extra_adc_sbc_cycle' = FALSE
    /\ old_i' = "none"
    /\ UNCHANGED p

\* The first micro-op of the entry runs in the same cycle.
StartInterrupt(interrupt, source) ==
    /\ current_opcode' = 0
    /\ current_inst' = Decode[0]
    /\ ucycs' = Pop(PushAll(ucycs, EmitInt(interrupt)))
    /\ bus' = Head(EmitInt(interrupt)).bus
    /\ run' = NewRun(source, 1, IF Head(EmitInt(interrupt)).inc_src THEN 1 ELSE 0)

ServiceNmi(lines) ==
    /\ Poll(lines)
    /\ PendingNmi(lines)
    /\ pending_nmi' = FALSE
    /\ StartInterrupt("Nmi", "nmi")

\* Mutant: an IRQ is served although an NMI is pending.
ServiceIrqFirst(lines) ==
    /\ Poll(lines)
    /\ lines.irq /\ ~IrqDisable
    /\ pending_nmi' = FALSE
    /\ StartInterrupt("Irq", "irq")

ServiceIrq(lines) ==
    /\ Poll(lines)
    /\ ~PendingNmi(lines)
    /\ lines.irq /\ ~IrqDisable
    /\ pending_nmi' = FALSE
    /\ StartInterrupt("Irq", "irq")

FetchNext(lines) ==
    /\ Poll(lines)
    /\ ~PendingNmi(lines)
    /\ ~(lines.irq /\ ~IrqDisable)
    /\ pending_nmi' = FALSE
    /\ \E opcode \in Opcode : FetchAndPrepare(opcode)

-----------------------------------------------------------------------------

StepWith(lines) ==
    \/ Stall(lines)
    \/ FirstFetch(lines)
    \/ Execute(lines)
    \/ DecimalCycle(lines)
    \/ ServiceNmi(lines)
    \/ ServiceIrq(lines)
    \/ FetchNext(lines)

Step == \E lines \in Lines : StepWith(lines)

\* Mutant: the queue is not cleared.
ResetKeepingQueue ==
    /\ p' = p \cup {"I"}
    /\ current_inst' = NoInst
    /\ current_opcode' = 0
    /\ bus' = Cycle("ResetVector", TRUE, FALSE, TRUE)
    /\ run' = NewRun("none", 0, 0)
    /\ UNCHANGED << ucycs, extra_adc_sbc_cycle, prev_nmi, pending_nmi, old_i >>

\* reset(), which the host may call between any two steps.  It leaves
\* extra_adc_sbc_cycle, old_i and the NMI latch as they are.
Reset ==
    /\ p' = p \cup {"I"}
    /\ ucycs' = EmptyTape
    /\ current_inst' = NoInst
    /\ current_opcode' = 0
    /\ bus' = Cycle("ResetVector", TRUE, FALSE, TRUE)
    /\ run' = NewRun("none", 0, 0)
    /\ UNCHANGED << extra_adc_sbc_cycle, prev_nmi, pending_nmi, old_i >>

Next == Step \/ Reset

Spec == Init /\ [][Next]_vars
\* A host that does not reset in the one cycle between the end of a CLI, SEI or PLP
\* and the poll that follows, nor in the extra cycle of a decimal ADC or SBC: otherwise
\* old_i or extra_adc_sbc_cycle outlives the instruction it was set for.
CleanReset == Reset /\ old_i = "none" /\ ~extra_adc_sbc_cycle
CleanSpec == Init /\ [][Step \/ CleanReset]_vars

\* Such a host, that keeps calling step(), does not hold RDY low for ever and, one day,
\* has made its last reset.
ReadyStep == \E lines \in {l \in Lines : l.rdy} : StepWith(lines)
FairSpec == CleanSpec /\ WF_vars(ReadyStep) /\ <>[][Step]_vars

-----------------------------------------------------------------------------
(* Type invariant.                                                         *)

StateTypeOK ==
    /\ ucycs \in Tape(MicroOp)
    /\ current_inst \in Instruction \cup {NoInst}
    /\ current_opcode \in 0..255
    /\ p \in SUBSET {"I", "D"}
    /\ extra_adc_sbc_cycle \in BOOLEAN
    /\ prev_nmi \in BOOLEAN
    /\ pending_nmi \in BOOLEAN
    /\ old_i \in {"none", "set", "clear"}
    /\ bus \in BusCall

\* The fields of the core have their types, and its history is that of a 6502: no
\* instruction takes more than 9 cycles, is longer than 3 bytes or moves SP by more than 3.
TypeOK == StateTypeOK /\ run \in Run

-----------------------------------------------------------------------------
(* The micro-op queue.                                                     *)

\* The latches address_of and add_offset have an arm for; the others are unimplemented!().
Addressable == VectorAddresses \cup {"Pc", "Sp", "Ea", "EaLo", "Ptr", "PtrLo"}
Offsettable ==
    {"Pc", "PcLo", "PcHi", "Ea", "EaLo", "EaHi", "Ptr", "PtrLo", "PtrHi", "Sp"}
Executable(op) ==
    /\ op.bus.addr \in Addressable
    /\ op.inc_src => op.bus.addr \in Offsettable
    /\ op.alu.op \in {"AddOffset", "IncLatch"} => op.alu.latch \in Offsettable

\* The unchecked array of MAX_UCYC slots never overflows (the push is only guarded by a
\* debug_assert), an emitter always starts on a cleared queue, and the next micro-op can
\* be executed: no path reaches an unimplemented!() latch, in particular not the op that
\* keeps a JAM's queue from being empty and "will never be reached".
QueueSafe ==
    /\ Slots(ucycs) <= MAX_UCYC
    /\ IsEmpty(ucycs) => ucycs = EmptyTape
    /\ current_inst = NoInst => ucycs = EmptyTape
    /\ ~IsEmpty(ucycs) => Executable(FrontOp(ucycs))

-----------------------------------------------------------------------------
(* What an instruction amounts to, stated from the 6502's instruction      *)
(* timing tables and not from the emitters.                                *)

ByAction(inst, read, write, modify) ==
    CASE inst.memory_action = "Read" -> read
      [] inst.memory_action = "Write" -> write
      [] OTHER -> modify
Extra(condition) == IF condition THEN 1 ELSE 0

IndexedCycles(inst, base, crossed) ==
    LET cmosShift == F.Micro = "Micro65C02" /\ inst.mnemonic \notin {"Inc", "Dec"}
    IN  ByAction(inst, base + Extra(crossed), base + 1,
                 IF cmosShift THEN base + 2 + Extra(crossed) ELSE base + 3)

\* Cycles of an instruction at its boundary, without the decimal cycle
CyclesOf(inst, source, crossed, taken) ==
    LET mode == inst.address_mode
        indexed == mode.offset # "None"
    IN  IF source # "program" THEN 6
        ELSE CASE mode.kind \in {"Implied", "Immediate"} -> 2
               [] mode.kind = "DirectPage" -> 3 + Extra(indexed) + ByAction(inst, 0, 0, 2)
               [] mode.kind = "Absolute" ->
                     IF indexed THEN IndexedCycles(inst, 4, crossed) ELSE 4 + ByAction(inst, 0, 0, 2)
               [] mode.kind = "DpIndirect" ->
                     IF mode.offset = "Y" THEN IndexedCycles(inst, 5, crossed)
                     ELSE 5 + Extra(indexed) + ByAction(inst, 0, 0, 2)
               [] mode.kind = "Stack" -> ByAction(inst, 4, 3, 0)
               [] mode.kind = "JmpAbsolute" -> 3
               [] mode.kind = "JmpIndirect" -> IF F.Micro = "Micro65C02" THEN 6 ELSE 5
               [] mode.kind \in {"JmpAbsoluteX", "ToSubroutine", "FromSubroutine", "FromInterrupt"} -> 6
               [] mode.kind = "Brk" -> 7
               [] mode.kind = "Relative" -> 2 + Extra(taken) + Extra(taken /\ crossed)
               [] mode.kind = "DpRelative" -> 5 + Extra(taken) + Extra(taken /\ crossed)
               [] mode.kind = "CmosNop" -> mode.cycles
ExpectedCycles == CyclesOf(current_inst, run.source, run.crossed, run.taken)

LeavesBoundary == AtBoundary /\ run'.cycles = 1

\* Every instruction takes the cycles of its addressing mode, one more for a crossed page
\* or a taken branch where the chip has that penalty, and CMOS decimal ADC and SBC take
\* exactly one extra cycle, whatever stalls and interrupts came before.
TimingExact ==
    [][LeavesBoundary => run.cycles = ExpectedCycles + Extra(DecimalInstruction)]_vars

\* What an instruction pushes, or pulls if negative, and its write cycles
BytesPushed(inst) ==
    LET kind == inst.address_mode.kind
    IN  CASE kind = "Brk" -> 3
          [] kind = "ToSubroutine" -> 2
          [] kind = "Stack" -> ByAction(inst, -1, 1, 0)
          [] kind = "FromSubroutine" -> -2
          [] kind = "FromInterrupt" -> -3
          [] OTHER -> 0
WriteCycles(inst) ==
    IF inst.address_mode.kind \in {"DirectPage", "Absolute", "DpIndirect"}
    THEN ByAction(inst, 0, 1, IF F.RMW_DUMMY_WRITE THEN 2 ELSE 1)
    ELSE IF BytesPushed(inst) > 0 THEN BytesPushed(inst) ELSE 0

\* When an instruction ends, its effects have been applied exactly once (CMOS one-cycle
\* no-ops have none), it has moved the stack pointer by what it pushes and pulls, and it
\* has made the write cycles of its kind: two for an NMOS read-modify-write, one on CMOS.
FootprintExact ==
    AtBoundary =>
        /\ run.retired = Extra(current_inst.address_mode.cycles # 1)
        /\ run.moved = -BytesPushed(current_inst)
        /\ run.writes = WriteCycles(current_inst)

\* The operand bytes of the modes that have a length of their own
Operands ==
    [kind \in {"Implied", "Stack", "Immediate", "DirectPage", "DpIndirect", "Relative",
               "Absolute", "DpRelative"} |->
        CASE kind \in {"Implied", "Stack"} -> 0
          [] kind \in {"Absolute", "DpRelative"} -> 2
          [] OTHER -> 1]

\* PC advances by the length of the instruction, and what the entries push is the right
\* return address: the interrupted instruction for IRQ and NMI, the byte after the
\* signature byte for BRK, and the last byte of the JSR for JSR; high byte first.
ReturnAddressExact ==
    LET kind == current_inst.address_mode.kind
        pushes(latch) == ~IsEmpty(ucycs) /\ ~FrontOp(ucycs).bus.read
                         /\ FrontOp(ucycs).local_latch = latch
    IN  /\ AtBoundary /\ kind \in DOMAIN Operands => run.advance = 1 + Operands[kind]
        /\ AtBoundary /\ kind = "CmosNop" => run.advance = current_inst.address_mode.bytes
        /\ pushes("PcHi") \/ pushes("PcLo") =>
              run.advance = IF run.source = "program" THEN 2 ELSE 0
        /\ pushes("PcHi") => run.moved = 0
        /\ pushes("PcLo") => run.moved = -1
        /\ pushes("Status") \/ pushes("BrkStatus") => run.moved = -2

-----------------------------------------------------------------------------
(* Interrupts.                                                             *)

\* Hardware interrupts borrow BRK's instruction but not its B flag, its return address or
\* its vector: the status they push has B clear and NMI reads $FFFA; only the program's
\* BRK pushes B.
EntryKeepsItsSource ==
    \A i \in 1..Len(ucycs.todo) :
        LET op == ucycs.todo[i]
        IN  /\ op.local_latch = "BrkStatus" => run.source = "program"
            /\ (op.local_latch = "Status" /\ ~op.bus.read) => run.source \in {"irq", "nmi"}
            /\ op.bus.addr \in {"FFFA", "FFFB"} => run.source = "nmi"
            /\ run.source = "nmi" => op.bus.addr \notin {"FFFE", "FFFF"}

\* A rising NMI edge is latched in the very step that samples it, even one that RDY
\* stalls, and the latch is only cleared by an NMI entry: no edge is lost to a stall, an
\* IRQ entry, a decimal cycle or a reset.
NmiNeverLost ==
    [][/\ ~prev_nmi /\ prev_nmi' => pending_nmi' \/ (AtBoundary /\ run'.source = "nmi")
       /\ pending_nmi /\ ~pending_nmi' => AtBoundary /\ run'.source = "nmi"]_vars

\* An interrupt is only taken between instructions, and an IRQ is never taken straight
\* after an interrupt entry: the entry masked it, so the handler's first instruction runs.
NoNestedIrq ==
    [][run' # run /\ run'.source = "irq" /\ run'.cycles = 1 =>
          AtBoundary /\ run.source = "program"]_vars

\* "Mask IRQ": no IRQ is taken while I is set, but after a SEI or a PLP, whose effect on
\* the poll comes one instruction late.
IrqNeedsClearI ==
    [][LeavesBoundary /\ run'.source = "irq" /\ "I" \in p =>
          run.source = "program" /\ current_inst.mnemonic \in {"Sei", "Plp"}]_vars

\* The interrupt contract: the control implements InterruptModel, with the instruction's
\* kind read off its mnemonic and the mask of the poll computed from I and old_i.
InstructionKind ==
    IF run.source \in {"irq", "nmi"} THEN run.source
    ELSE CASE current_inst.mnemonic = "Brk" -> "break"
           [] current_inst.mnemonic \in {"Cli", "Sei", "Plp"} -> "delayed"
           [] current_inst.address_mode.kind = "FromInterrupt" -> "return"
           [] OTHER -> "plain"
Contract == INSTANCE InterruptModel WITH
    phase <- IF current_inst = NoInst THEN "idle" ELSE IF AtBoundary THEN "done" ELSE "busy",
    kind <- InstructionKind,
    i <- "I" \in p,
    mask <- IrqDisable
InterruptContract == Contract!ISpec

\* RDY low stalls reads only: a pending write cycle is performed in the next step,
\* whatever the lines say, unless the host resets.
WritePending == current_inst # NoInst /\ ~IsEmpty(ucycs) /\ ~FrontOp(ucycs).bus.read
WritesIgnoreRdy ==
    [][WritePending => (bus' = FrontOp(ucycs).bus /\ ucycs' # ucycs)
                       \/ current_inst' = NoInst]_vars

Jammed == ~IsEmpty(ucycs) /\ FrontOp(ucycs).alu.op = "Jam"

\* A JAM reads $FFFF "until reset": no interrupt, line or cycle count gets it going again.
JamUntilReset == [][Jammed /\ ~Jammed' => current_inst' = NoInst]_vars

\* A latched NMI is taken, unless the program jams the processor.
NmiServed == pending_nmi ~> (run.source = "nmi" \/ Jammed)

\* An instruction that was fetched comes to its end, unless it is a JAM.
InstructionsEnd == (current_inst # NoInst) ~> (AtBoundary \/ Jammed)
=============================================================================
