------------------------- MODULE CpuHistory_proofs -------------------------
(***************************************************************************)
(* What an instruction of CpuControl amounts to by the time it ends: its   *)
(* cycles, writes, stack moves, length and return address, for every       *)
(* flavor, opcode table and set of lines.                                  *)
(*                                                                         *)
(* The argument is one of conservation.  What an instruction has done plus *)
(* the weight of its queue is what the instruction will have done;         *)
(* executing an op moves its weight from the queue to the history.         *)
(*                                                                         *)
(* The last part adds what a host can rely on that does not reset the core *)
(* in the cycles where a value is kept for the poll: the timing, the mask  *)
(* of IRQ and the contract of InterruptModel.                              *)
(***************************************************************************)
EXTENDS CpuControl_proofs

-----------------------------------------------------------------------------
(* The invariant.                                                          *)

\* What an instruction has done and what its queue will do is what it amounts to.
Conserved(inst, h, s) ==
    /\ h.advance + From(AdvanceOf, s, 1) = PlannedAdvance(inst, h.source)
    /\ h.moved + From(MovedOf, s, 1) = -BytesPushed(inst)
    /\ h.writes + From(WritesOf, s, 1) = WriteCycles(inst)
    /\ h.advance >= 0 /\ h.writes >= 0
    /\ BytesPushed(inst) >= 0 => h.moved <= 0
    /\ BytesPushed(inst) <= 0 => h.moved >= 0

\* Effects are applied with the last op of the queue, and once.
RetiredOnce(inst, h, s) ==
    IF s = << >> THEN h.retired = Extra(inst.address_mode.cycles # 1)
    ELSE h.retired = 0 /\ inst.address_mode.cycles # 1

\* Cycles: until the page crossing is known, the queue has the cycle it may cost.
OnTime(inst, h, s, extra) ==
    /\ Kind(inst) = "Jam" => JamEnds(s)
    /\ Kind(inst) # "Jam" =>
          IF Pending(s, "OffsetWithExtraCycle")
          THEN ~h.crossed /\ h.cycles + Len(s) = CyclesOf(inst, h.source, TRUE, FALSE)
          ELSE \/ h.cycles + Len(s) = CyclesOf(inst, h.source, h.crossed, h.taken)
               \/ /\ extra /\ s = << >>
                  /\ h.cycles = CyclesOf(inst, h.source, h.crossed, h.taken) + 1
    /\ Pending(s, "Branch") => ~h.crossed /\ ~h.taken

HistoryInv ==
    /\ run.cycles <= MaxCycles
    /\ current_inst = NoInst => run = NewRun("none", 0, 0)
    /\ current_inst # NoInst =>
          /\ \E opcode \in Opcode : current_inst = Decode[opcode] /\ current_opcode = opcode
          /\ AllInPlace(current_inst, run.source, ucycs.todo)
          /\ Conserved(current_inst, run, ucycs.todo)
          /\ RetiredOnce(current_inst, run, ucycs.todo)
          /\ OnTime(current_inst, run, ucycs.todo, extra_adc_sbc_cycle)

-----------------------------------------------------------------------------
(* The places of a queue that is run down.                                 *)

LEMMA TailPlaces ==
    ASSUME NEW inst, NEW source, NEW s \in Seq(MicroOp), s # << >>, Len(s) <= 7,
           AllInPlace(inst, source, s)
    PROVE  AllInPlace(inst, source, Tail(s))
<1> DEFINE t == Tail(s)
<1>1. /\ t \in Seq(MicroOp) /\ Len(t) = Len(s) - 1
      /\ \A i \in 1..Len(t) : t[i] = s[i + 1]
  BY FromTail, WeightFacts
<1>2. \A i \in Nat \ {0} : /\ From(AdvanceOf, t, i) = From(AdvanceOf, s, i + 1)
                           /\ From(MovedOf, t, i) = From(MovedOf, s, i + 1)
  BY FromTail, WeightFacts
<1>3. Len(s) \in Nat /\ Len(t) \in Nat
  BY <1>1, LenProperties
<1> HIDE DEF t
<1>4. ASSUME NEW i \in 1..Len(t) PROVE InPlace(inst, source, t, i)
  <2>1. i + 1 \in 1..Len(s) /\ t[i] = s[i + 1] /\ i \in Nat \ {0}
    BY <1>1, <1>3
  <2>2. InPlace(inst, source, s, i + 1)
    BY <2>1 DEF AllInPlace
  <2>3. ASSUME t[i].alu.op = "OffsetWithExtraCycle"
        PROVE  /\ Weightless(t[i]) /\ i < Len(t)
               /\ inst.memory_action # "Write" => Weightless(t[i + 1])
               /\ inst.memory_action = "Read" => Len(t) = i + 1
               /\ \A j \in (i + 1)..Len(t) : t[j].alu.op # "OffsetWithExtraCycle"
    <3>1. /\ Weightless(s[i + 1]) /\ i + 1 < Len(s)
          /\ inst.memory_action # "Write" => Weightless(s[(i + 1) + 1])
          /\ inst.memory_action = "Read" => Len(s) = (i + 1) + 1
          /\ \A j \in ((i + 1) + 1)..Len(s) : s[j].alu.op # "OffsetWithExtraCycle"
      BY <2>1, <2>2, <2>3 DEF InPlace
    <3>2. i < Len(t) /\ i + 1 \in 1..Len(t) /\ t[i + 1] = s[(i + 1) + 1]
      BY <1>1, <1>3, <2>1, <3>1
    <3>3. inst.memory_action = "Read" => Len(t) = i + 1
      BY <1>1, <1>3, <2>1, <3>1
    <3>4. ASSUME NEW j \in (i + 1)..Len(t) PROVE t[j].alu.op # "OffsetWithExtraCycle"
      <4>1. j \in 1..Len(t) /\ j + 1 \in ((i + 1) + 1)..Len(s)
        BY <1>1, <1>3, <2>1
      <4>2. QED
        BY <1>1, <3>1, <4>1
    <3>5. QED
      BY <2>1, <3>1, <3>2, <3>3, <3>4
  <2>4. t[i].local_latch = "Status" /\ t[i].bus.read => i < Len(t)
    <3>1. t[i].local_latch = "Status" /\ t[i].bus.read => i + 1 < Len(s)
      BY <2>1, <2>2 DEF InPlace
    <3>2. QED
      BY <1>1, <1>3, <2>1, <3>1
  <2>5. PushesLatch(t[i]) =>
          /\ Kind(inst) \in {"Brk", "ToSubroutine"}
          /\ From(AdvanceOf, t, i) = 0
          /\ From(MovedOf, t, i) = Depth(t[i].local_latch) - BytesPushed(inst)
    BY <1>2, <2>1, <2>2 DEF InPlace
  <2>6. Belongs(inst, source, t[i])
    BY <2>1, <2>2 DEF InPlace
  <2>7. QED
    BY <2>3, <2>4, <2>5, <2>6 DEF InPlace
<1>5. QED
  BY <1>4 DEF AllInPlace, t

LEMMA EmptyPlaces == ASSUME NEW inst, NEW source PROVE AllInPlace(inst, source, << >>)
<1>1. Len(<< >>) = 0
  BY EmptySeq
<1>2. QED
  BY <1>1 DEF AllInPlace

\* What is pending in a queue is its first op or is pending in the rest.
LEMMA TailPending ==
    ASSUME NEW s \in Seq(MicroOp), s # << >>, NEW alu
    PROVE  Pending(s, alu) <=> s[1].alu.op = alu \/ Pending(Tail(s), alu)
<1> DEFINE t == Tail(s)
<1>1. Len(t) = Len(s) - 1 /\ \A i \in 1..Len(t) : t[i] = s[i + 1]
  BY HeadTailProperties
<1>2. Len(s) \in Nat \ {0}
  BY EmptySeq, LenProperties
<1> HIDE DEF t
<1>3. ASSUME Pending(t, alu) PROVE Pending(s, alu)
  <2>1. PICK i \in 1..Len(t) : t[i].alu.op = alu
    BY <1>3 DEF Pending
  <2>2. i + 1 \in 1..Len(s) /\ s[i + 1].alu.op = alu
    BY <1>1, <1>2, <2>1
  <2>3. QED
    BY <2>2 DEF Pending
<1>4. ASSUME s[1].alu.op = alu PROVE Pending(s, alu)
  <2>1. 1 \in 1..Len(s)
    BY <1>2
  <2>2. QED
    BY <1>4, <2>1 DEF Pending
<1>5. ASSUME Pending(s, alu), s[1].alu.op # alu PROVE Pending(t, alu)
  <2>1. PICK i \in 1..Len(s) : s[i].alu.op = alu
    BY <1>5 DEF Pending
  <2>2. i # 1
    BY <1>5, <2>1
  <2>3. i - 1 \in 1..Len(t) /\ (i - 1) + 1 = i
    BY <1>1, <1>2, <2>1, <2>2
  <2>4. t[i - 1].alu.op = alu
    BY <1>1, <2>1, <2>3
  <2>5. QED
    BY <2>3, <2>4 DEF Pending
<1>6. QED
  BY <1>3, <1>4, <1>5 DEF t

LEMMA EmptyPending == ASSUME NEW alu PROVE ~Pending(<< >>, alu)
<1>1. Len(<< >>) = 0
  BY EmptySeq
<1>2. QED
  BY <1>1 DEF Pending

-----------------------------------------------------------------------------
(* The cycle table.                                                        *)

\* An instruction of the table, started by the program or, if it is BRK, by an interrupt
Started(opcode, inst, source) ==
    /\ opcode \in Opcode /\ inst = Decode[opcode]
    /\ source \in {"program", "irq", "nmi"}
    /\ source # "program" => Kind(inst) = "Brk"

LEMMA StartedFacts ==
    ASSUME NEW opcode, NEW inst, NEW source, Started(opcode, inst, source)
    PROVE  /\ inst \in Instruction
           /\ inst.address_mode \in AddressMode /\ inst.memory_action \in MemoryAction
           /\ inst.address_mode.offset \in OffsetType /\ inst.address_mode.cycles \in 0..8
           /\ Kind(inst) \in ModeKinds8
           /\ ControlFacts(F, opcode, inst)
           /\ source \in {"program", "irq", "nmi"}
           /\ source # "program" => Kind(inst) = "Brk"
<1>1. inst \in Instruction /\ Emittable(F, inst.address_mode, inst.memory_action)
  BY DecodeAssumption DEF Started
<1>2. ControlFacts(F, opcode, inst)
  BY TableAssumption DEF Started
<1>3. inst.address_mode \in AddressMode /\ inst.memory_action \in MemoryAction
  BY <1>1 DEF Instruction
<1>4. inst.address_mode.offset \in OffsetType /\ inst.address_mode.cycles \in 0..8
  BY <1>3 DEF AddressMode
<1>5. QED
  BY <1>1, <1>2, <1>3, <1>4 DEF Started, Emittable, Kind

\* No instruction but a JAM takes more than 8 cycles.
LEMMA CyclesBound ==
    ASSUME NEW inst, NEW source, NEW crossed, NEW taken, Kind(inst) \in ModeKinds8 \ {"Jam"},
           inst.address_mode.cycles \in 0..8
    PROVE  CyclesOf(inst, source, crossed, taken) \in 0..8
<1> DEFINE n == CyclesOf(inst, source, crossed, taken)
           kind == Kind(inst)
<1>1. ByAction(inst, 0, 0, 2) \in 0..2 /\ ByAction(inst, 4, 3, 0) \in 0..4
  BY DEF ByAction
<1>2. \A condition : Extra(condition) \in 0..1
  BY DEF Extra
<1>3. \A base \in {4, 5} : IndexedCycles(inst, base, crossed) \in base..(base + 3)
  BY DEF IndexedCycles, ByAction, Extra
<1> SUFFICES n \in 0..8
  OBVIOUS
<1>4. CASE source # "program"
  BY <1>4 DEF CyclesOf
<1>5. CASE source = "program"
  <2>1. CASE kind \in {"Implied", "Immediate"}
    <3>1. n = 2
      BY <1>5, <2>1 DEF CyclesOf, Kind
    <3>2. QED
      BY <3>1
  <2>2. CASE kind = "DirectPage"
    <3>1. n = 3 + Extra(inst.address_mode.offset # "None") + ByAction(inst, 0, 0, 2)
      BY <1>5, <2>2 DEF CyclesOf, Kind
    <3>2. Extra(inst.address_mode.offset # "None") \in 0..1
      BY <1>2
    <3> HIDE DEF n
    <3>3. QED
      BY ONLY <1>1, <3>1, <3>2
  <2>3. CASE kind = "Absolute"
    <3>1. n = IF inst.address_mode.offset # "None" THEN IndexedCycles(inst, 4, crossed)
              ELSE 4 + ByAction(inst, 0, 0, 2)
      BY <1>5, <2>3 DEF CyclesOf, Kind
    <3>2. IndexedCycles(inst, 4, crossed) \in 4..7
      BY <1>3
    <3> HIDE DEF n
    <3>3. QED
      BY ONLY <1>1, <3>1, <3>2
  <2>4. CASE kind = "DpIndirect"
    <3>1. n = IF inst.address_mode.offset = "Y" THEN IndexedCycles(inst, 5, crossed)
              ELSE 5 + Extra(inst.address_mode.offset # "None") + ByAction(inst, 0, 0, 2)
      BY <1>5, <2>4 DEF CyclesOf, Kind
    <3>2. /\ IndexedCycles(inst, 5, crossed) \in 5..8
          /\ Extra(inst.address_mode.offset # "None") \in 0..1
      BY <1>2, <1>3
    <3> HIDE DEF n
    <3>3. QED
      BY ONLY <1>1, <3>1, <3>2
  <2>5. CASE kind = "Stack"
    BY <1>1, <1>5, <2>5 DEF CyclesOf, Kind
  <2>6. CASE kind \in {"JmpAbsolute", "JmpIndirect", "JmpAbsoluteX", "ToSubroutine",
                       "FromSubroutine", "FromInterrupt", "Brk"}
    BY <1>5, <2>6 DEF CyclesOf, Kind
  <2>7. CASE kind \in {"Relative", "DpRelative"}
    BY <1>2, <1>5, <2>7 DEF CyclesOf, Kind
  <2>8. CASE kind = "CmosNop"
    BY <1>5, <2>8 DEF CyclesOf, Kind
  <2>9. QED
    BY <2>1, <2>2, <2>3, <2>4, <2>5, <2>6, <2>7, <2>8 DEF ModeKinds8
<1>6. QED
  BY <1>4, <1>5

\* Only an indexed access depends on a page crossing alone, and what it costs
LEMMA CyclesIndexed ==
    ASSUME NEW inst, Indexed(inst), NEW crossed, NEW taken
    PROVE  CyclesOf(inst, "program", crossed, taken)
               = IndexedCycles(inst, IF Kind(inst) = "Absolute" THEN 4 ELSE 5, crossed)
<1>1. CASE Kind(inst) = "Absolute"
  BY <1>1 DEF Indexed, CyclesOf, Kind
<1>2. CASE Kind(inst) = "DpIndirect"
  BY <1>2 DEF Indexed, CyclesOf, Kind
<1>3. QED
  BY <1>1, <1>2 DEF Indexed

LEMMA CyclesBranch ==
    ASSUME NEW inst, Kind(inst) \in {"Relative", "DpRelative"}, NEW crossed, NEW taken
    PROVE  CyclesOf(inst, "program", crossed, taken)
               = (IF Kind(inst) = "Relative" THEN 2 ELSE 5) + Extra(taken) + Extra(taken /\ crossed)
<1>1. CASE Kind(inst) = "Relative"
  BY <1>1 DEF CyclesOf, Kind
<1>2. CASE Kind(inst) = "DpRelative"
  BY <1>2 DEF CyclesOf, Kind
<1>3. QED
  BY <1>1, <1>2

LEMMA CyclesFixed ==
    ASSUME NEW inst, Kind(inst) = "JmpIndirect", NEW source, NEW crossed, NEW taken,
           NEW crossed2, NEW taken2
    PROVE  CyclesOf(inst, source, crossed, taken) = CyclesOf(inst, source, crossed2, taken2)
BY DEF CyclesOf, Kind

-----------------------------------------------------------------------------
(* One micro-op of an instruction.                                         *)

\* The history g, once the op was executed after the history h
Does(h, g, op, crossed, taken, retires) ==
    /\ h \in RunType /\ g \in RunType
    /\ g.source = h.source
    /\ g.cycles = IF h.cycles < MaxCycles THEN h.cycles + 1 ELSE h.cycles
    /\ g.advance = h.advance + AdvanceOf[op]
    /\ g.moved = h.moved + MovedOf[op]
    /\ g.writes = h.writes + WritesOf[op]
    /\ g.retired = IF retires THEN h.retired + 1 ELSE h.retired
    /\ g.crossed <=> h.crossed \/ crossed
    /\ g.taken <=> h.taken \/ taken

LEMMA CountedDoes ==
    ASSUME run \in RunType, NEW op \in MicroOp, NEW crossed \in BOOLEAN, NEW taken \in BOOLEAN,
           NEW retires \in BOOLEAN
    PROVE  Does(run, Counted(op, crossed, taken, retires), op, crossed, taken, retires)
<1> DEFINE cycles == IF run.cycles < MaxCycles THEN run.cycles + 1 ELSE run.cycles
           advance == IF op.inc_src /\ op.bus.addr = "Pc" THEN run.advance + 1 ELSE run.advance
           moved == run.moved + Moved(op)
           writes == IF op.bus.read THEN run.writes ELSE run.writes + 1
           retired == IF retires THEN run.retired + 1 ELSE run.retired
           crossing == run.crossed \/ crossed
           taking == run.taken \/ taken
           c == Counted(op, crossed, taken, retires)
<1>1. c \in RunType
  BY CountedFacts
<1>2. c = [run EXCEPT !.cycles = cycles, !.advance = advance, !.moved = moved,
                      !.writes = writes, !.retired = retired, !.crossed = crossing,
                      !.taken = taking]
  BY DEF Counted
<1> HIDE DEF cycles, advance, moved, writes, retired, crossing, taking, c
<1>3. /\ c.source = run.source /\ c.cycles = cycles /\ c.advance = advance /\ c.moved = moved
      /\ c.writes = writes /\ c.retired = retired /\ c.crossed = crossing /\ c.taken = taking
  BY <1>2 DEF RunType
<1>4. run.advance \in Int /\ run.writes \in Int
  BY DEF RunType
<1>5. advance = run.advance + AdvanceOf[op]
  BY <1>4, WeightTypes DEF advance
<1>6. moved = run.moved + MovedOf[op]
  BY WeightTypes DEF moved
<1>7. writes = run.writes + WritesOf[op]
  BY <1>4, WeightTypes DEF writes
<1>8. (c.crossed <=> run.crossed \/ crossed) /\ (c.taken <=> run.taken \/ taken)
  BY <1>3 DEF crossing, taking
<1>9. QED
  BY <1>1, <1>3, <1>5, <1>6, <1>7, <1>8 DEF Does, cycles, retired, c

LEMMA ConservedStep ==
    ASSUME NEW inst, NEW h, NEW g, NEW s \in Seq(MicroOp), NEW t \in Seq(MicroOp),
           NEW op \in MicroOp, NEW crossed, NEW taken, NEW retires,
           Does(h, g, op, crossed, taken, retires), Conserved(inst, h, s),
           Belongs(inst, h.source, op),
           \A w \in Weights : From(w, s, 1) = w[op] + From(w, t, 1)
    PROVE  Conserved(inst, g, t)
<1>1. AdvanceOf \in Weights /\ MovedOf \in Weights /\ WritesOf \in Weights
  BY DEF Weights
<1>2. /\ From(AdvanceOf, s, 1) = AdvanceOf[op] + From(AdvanceOf, t, 1)
      /\ From(MovedOf, s, 1) = MovedOf[op] + From(MovedOf, t, 1)
      /\ From(WritesOf, s, 1) = WritesOf[op] + From(WritesOf, t, 1)
  BY <1>1
<1>3. /\ From(AdvanceOf, t, 1) \in Int /\ From(MovedOf, t, 1) \in Int /\ From(WritesOf, t, 1) \in Int
  BY FromType, WeightFacts
<1>4. /\ AdvanceOf[op] \in {0, 1} /\ MovedOf[op] \in Int /\ WritesOf[op] \in {0, 1}
  BY WeightTypes
<1>5. /\ h.advance \in Int /\ h.moved \in Int /\ h.writes \in Int
      /\ g.advance = h.advance + AdvanceOf[op]
      /\ g.moved = h.moved + MovedOf[op]
      /\ g.writes = h.writes + WritesOf[op]
      /\ g.source = h.source
  BY DEF Does, RunType
<1>6. /\ BytesPushed(inst) >= 0 => MovedOf[op] <= 0
      /\ BytesPushed(inst) <= 0 => MovedOf[op] >= 0
  BY DEF Belongs
<1>7. g.advance + From(AdvanceOf, t, 1) = PlannedAdvance(inst, g.source)
  <2>1. h.advance + From(AdvanceOf, s, 1) = PlannedAdvance(inst, h.source)
    BY DEF Conserved
  <2>2. g.advance + From(AdvanceOf, t, 1) = h.advance + From(AdvanceOf, s, 1)
    BY ONLY <1>2, <1>3, <1>4, <1>5
  <2>3. QED
    BY <1>5, <2>1, <2>2
<1>8. g.moved + From(MovedOf, t, 1) = -BytesPushed(inst)
  <2>1. h.moved + From(MovedOf, s, 1) = -BytesPushed(inst)
    BY DEF Conserved
  <2>2. g.moved + From(MovedOf, t, 1) = h.moved + From(MovedOf, s, 1)
    BY ONLY <1>2, <1>3, <1>4, <1>5
  <2>3. QED
    BY <2>1, <2>2
<1>9. g.writes + From(WritesOf, t, 1) = WriteCycles(inst)
  <2>1. h.writes + From(WritesOf, s, 1) = WriteCycles(inst)
    BY DEF Conserved
  <2>2. g.writes + From(WritesOf, t, 1) = h.writes + From(WritesOf, s, 1)
    BY ONLY <1>2, <1>3, <1>4, <1>5
  <2>3. QED
    BY <2>1, <2>2
<1>10. g.advance >= 0 /\ g.writes >= 0
  <2>1. h.advance >= 0 /\ h.writes >= 0
    BY DEF Conserved
  <2>2. QED
    BY ONLY <1>4, <1>5, <2>1
<1>11. /\ BytesPushed(inst) >= 0 => g.moved <= 0
       /\ BytesPushed(inst) <= 0 => g.moved >= 0
  <2>1. /\ BytesPushed(inst) >= 0 => h.moved <= 0
        /\ BytesPushed(inst) <= 0 => h.moved >= 0
    BY DEF Conserved
  <2>2. QED
    BY ONLY <1>4, <1>5, <1>6, <2>1
<1>12. QED
  BY <1>7, <1>8, <1>9, <1>10, <1>11 DEF Conserved

LEMMA RetiredStep ==
    ASSUME NEW inst, NEW h, NEW g, NEW s, s # << >>, NEW t, NEW op, NEW crossed, NEW taken,
           NEW retires, retires <=> t = << >>, Does(h, g, op, crossed, taken, retires),
           RetiredOnce(inst, h, s)
    PROVE  RetiredOnce(inst, g, t)
<1>1. h.retired = 0 /\ inst.address_mode.cycles # 1
  BY DEF RetiredOnce
<1>2. g.retired = IF t = << >> THEN 1 ELSE 0
  BY <1>1 DEF Does
<1>3. QED
  BY <1>1, <1>2 DEF RetiredOnce, Extra

\* The cycle is counted: no instruction comes to the end of the count but a JAM.
LEMMA CycleStep ==
    ASSUME NEW h, NEW g, NEW op, NEW crossed, NEW taken, NEW retires,
           Does(h, g, op, crossed, taken, retires), h.cycles <= MaxCycles
    PROVE  /\ g.cycles <= MaxCycles
           /\ h.cycles <= 8 => g.cycles = h.cycles + 1
BY DEF Does, RunType, MaxCycles

\* A queue whose instruction is under way
Running(opcode, inst, h, s, extra) ==
    /\ Started(opcode, inst, h.source)
    /\ h.cycles <= MaxCycles
    /\ AllInPlace(inst, h.source, s)
    /\ Conserved(inst, h, s)
    /\ RetiredOnce(inst, h, s)
    /\ OnTime(inst, h, s, extra)

LEMMA PendingKinds ==
    ASSUME NEW inst, NEW source, NEW s, AllInPlace(inst, source, s)
    PROVE  /\ Pending(s, "OffsetWithExtraCycle") => Indexed(inst)
           /\ Pending(s, "Branch") => Kind(inst) \in {"Relative", "DpRelative"}
BY DEF AllInPlace, Pending, InPlace, Belongs

LEMMA CyclesEq ==
    ASSUME NEW inst, NEW source, NEW crossed, NEW taken, NEW c, NEW t,
           c <=> crossed, t <=> taken
    PROVE  CyclesOf(inst, source, c, t) = CyclesOf(inst, source, crossed, taken)
<1>1. Extra(c) = Extra(crossed) /\ Extra(t) = Extra(taken) /\ Extra(t /\ c) = Extra(taken /\ crossed)
  BY DEF Extra
<1>2. IndexedCycles(inst, 4, c) = IndexedCycles(inst, 4, crossed)
  BY <1>1 DEF IndexedCycles
<1>3. IndexedCycles(inst, 5, c) = IndexedCycles(inst, 5, crossed)
  BY <1>1 DEF IndexedCycles
<1>4. QED
  BY <1>1, <1>2, <1>3 DEF CyclesOf

\* While ops are left the count is not at its end, and says how many there are.
LEMMA RunningCycles ==
    ASSUME NEW opcode, NEW inst, NEW h \in RunType, NEW s \in Seq(MicroOp), NEW extra,
           Running(opcode, inst, h, s, extra), s # << >>, Kind(inst) # "Jam"
    PROVE  /\ Len(s) \in Nat \ {0}
           /\ h.cycles \in 0..7
           /\ Pending(s, "OffsetWithExtraCycle") =>
                 ~h.crossed /\ h.cycles + Len(s) = CyclesOf(inst, h.source, TRUE, FALSE)
           /\ ~Pending(s, "OffsetWithExtraCycle") =>
                 h.cycles + Len(s) = CyclesOf(inst, h.source, h.crossed, h.taken)
<1>1. Kind(inst) \in ModeKinds8 \ {"Jam"} /\ inst.address_mode.cycles \in 0..8
  BY StartedFacts DEF Running
<1>2. \A crossed, taken : CyclesOf(inst, h.source, crossed, taken) \in 0..8
  BY <1>1, CyclesBound
<1>3. Len(s) \in Nat \ {0}
  BY EmptySeq, LenProperties
<1>4. /\ Pending(s, "OffsetWithExtraCycle") =>
            ~h.crossed /\ h.cycles + Len(s) = CyclesOf(inst, h.source, TRUE, FALSE)
      /\ ~Pending(s, "OffsetWithExtraCycle") =>
            h.cycles + Len(s) = CyclesOf(inst, h.source, h.crossed, h.taken)
  BY DEF Running, OnTime
<1>5. h.cycles \in Nat
  BY DEF RunType
<1>6. \E n \in 0..8 : h.cycles + Len(s) = n
  BY <1>2, <1>4
<1>7. h.cycles \in 0..7
  BY ONLY <1>3, <1>5, <1>6
<1>8. QED
  BY <1>3, <1>4, <1>7

\* The operation takes one cycle and one op of the queue.
LEMMA PlainOnTime ==
    ASSUME NEW opcode, NEW inst, NEW h, NEW g, NEW s \in Seq(MicroOp), NEW extra,
           NEW crossed \in BOOLEAN, NEW taken \in BOOLEAN, NEW retires,
           Running(opcode, inst, h, s, extra), s # << >>, Len(s) <= 7,
           Does(h, g, s[1], crossed, taken, retires),
           s[1].alu.op \notin {"OffsetWithExtraCycle", "Branch", "Jam"},
           crossed => s[1].alu.op = "FixPtr", ~taken
    PROVE  OnTime(inst, g, Tail(s), extra)
<1> DEFINE t == Tail(s)
<1>1. t \in Seq(MicroOp) /\ Len(t) = Len(s) - 1 /\ \A i \in 1..Len(t) : t[i] = s[i + 1]
  BY HeadTailProperties
<1>2. Len(s) \in Nat \ {0}
  BY EmptySeq, LenProperties
<1>3. /\ Pending(s, "OffsetWithExtraCycle") <=> Pending(t, "OffsetWithExtraCycle")
      /\ Pending(s, "Branch") <=> Pending(t, "Branch")
  BY TailPending
<1>4. h \in RunType /\ g.source = h.source /\ (g.taken <=> h.taken)
  BY DEF Does
<1>5. crossed => Kind(inst) = "JmpIndirect"
  <2>1. InPlace(inst, h.source, s, 1)
    BY <1>2 DEF Running, AllInPlace
  <2>2. QED
    BY <2>1 DEF InPlace, Belongs
<1>6. g.crossed <=> h.crossed \/ crossed
  BY DEF Does
<1>7. /\ Pending(s, "OffsetWithExtraCycle") => Indexed(inst)
      /\ Pending(s, "Branch") => Kind(inst) \in {"Relative", "DpRelative"}
  BY PendingKinds DEF Running
<1> HIDE DEF t
<1>8. Kind(inst) = "Jam" => JamEnds(t)
  <2> SUFFICES ASSUME Kind(inst) = "Jam" PROVE JamEnds(t)
    OBVIOUS
  <2>1. Len(s) >= 2 /\ s[Len(s) - 1].alu.op = "Jam"
    BY DEF Running, OnTime, JamEnds
  <2>2. Len(s) - 1 # 1
    BY <2>1
  <2>3. Len(t) >= 2 /\ Len(t) - 1 \in 1..Len(t) /\ (Len(t) - 1) + 1 = Len(s) - 1
    BY <1>1, <1>2, <2>1, <2>2
  <2>4. t[Len(t) - 1] = s[(Len(t) - 1) + 1]
    BY <1>1, <2>3
  <2>5. QED
    BY <2>1, <2>3, <2>4 DEF JamEnds
<1>9. ASSUME Kind(inst) # "Jam"
      PROVE  IF Pending(t, "OffsetWithExtraCycle")
             THEN ~g.crossed /\ g.cycles + Len(t) = CyclesOf(inst, g.source, TRUE, FALSE)
             ELSE g.cycles + Len(t) = CyclesOf(inst, g.source, g.crossed, g.taken)
  <2>1. /\ h.cycles \in 0..7
        /\ Pending(s, "OffsetWithExtraCycle") =>
              ~h.crossed /\ h.cycles + Len(s) = CyclesOf(inst, h.source, TRUE, FALSE)
        /\ ~Pending(s, "OffsetWithExtraCycle") =>
              h.cycles + Len(s) = CyclesOf(inst, h.source, h.crossed, h.taken)
    BY ONLY <1>4, <1>9, RunningCycles, s \in Seq(MicroOp), s # << >>,
            Running(opcode, inst, h, s, extra), ZenonT(40)
  <2>2. g.cycles = h.cycles + 1
    BY <2>1, CycleStep DEF Running
  <2>3. g.cycles + Len(t) = h.cycles + Len(s)
    BY <1>1, <1>2, <2>1, <2>2
  <2>4. CyclesOf(inst, h.source, g.crossed, g.taken) = CyclesOf(inst, h.source, h.crossed, h.taken)
    <3>1. CASE crossed
      BY <1>5, <3>1, CyclesFixed
    <3>2. CASE ~crossed
      BY <1>4, <1>6, <3>2, CyclesEq
    <3>3. QED
      BY <3>1, <3>2
  <2>5. Pending(t, "OffsetWithExtraCycle") => ~crossed
    BY <1>3, <1>5, <1>7 DEF Indexed
  <2>6. QED
    BY <1>3, <1>4, <1>6, <2>1, <2>3, <2>4, <2>5
<1>10. Pending(t, "Branch") => ~g.crossed /\ ~g.taken
  <2>1. Pending(s, "Branch") => ~h.crossed /\ ~h.taken
    BY DEF Running, OnTime
  <2>2. QED
    BY <1>3, <1>4, <1>5, <1>6, <1>7, <2>1
<1>11. QED
  BY <1>8, <1>9, <1>10 DEF OnTime, t

\* What a page crossing costs an indexed access, by the action it ends in
Penalty(opcode, inst) ==
    IF inst.memory_action = "Read" THEN 1
    ELSE IF inst.memory_action = "Write" THEN 0
    ELSE IF ~F.INVALID_ADDR_READ /\ opcode \notin {222, 254} THEN 1 ELSE 0

LEMMA IndexedTable ==
    ASSUME NEW opcode, NEW inst, NEW source, Started(opcode, inst, source), Indexed(inst)
    PROVE  /\ CyclesOf(inst, source, TRUE, FALSE) \in Nat
           /\ CyclesOf(inst, source, FALSE, FALSE) \in Nat
           /\ CyclesOf(inst, source, TRUE, FALSE)
                  = CyclesOf(inst, source, FALSE, FALSE) + Penalty(opcode, inst)
<1> DEFINE base == IF Kind(inst) = "Absolute" THEN 4 ELSE 5
           shift == F.Micro = "Micro65C02" /\ inst.mnemonic \notin {"Inc", "Dec"}
           m == CyclesOf(inst, source, TRUE, FALSE)
           l == CyclesOf(inst, source, FALSE, FALSE)
           penalty == Penalty(opcode, inst)
<1>1. inst.memory_action \in MemoryAction /\ ControlFacts(F, opcode, inst) /\ source = "program"
  BY StartedFacts DEF Indexed
<1>2. m = IndexedCycles(inst, base, TRUE) /\ l = IndexedCycles(inst, base, FALSE)
  BY <1>1, CyclesIndexed
<1>3. /\ m = ByAction(inst, base + 1, base + 1, IF shift THEN base + 2 + 1 ELSE base + 3)
      /\ l = ByAction(inst, base + 0, base + 1, IF shift THEN base + 2 + 0 ELSE base + 3)
  BY <1>2 DEF IndexedCycles, Extra
<1>4. base \in {4, 5}
  OBVIOUS
<1>5. F.INVALID_ADDR_READ \in BOOLEAN /\ F.Micro \in {"Micro6502", "Micro65C02"}
      /\ (F.INVALID_ADDR_READ <=> F.Micro = "Micro6502")
  BY FlavorAssumption DEF FlavorType
<1>6. inst.memory_action = "ReadModifyWrite" =>
          (shift <=> ~F.INVALID_ADDR_READ /\ opcode \notin {222, 254})
  BY <1>1, <1>5 DEF ControlFacts, Indexed, Kind
<1> HIDE DEF m, l, base, shift
<1>7. inst.memory_action = "Read" => m = base + 1 /\ l = base + 0
  BY <1>3 DEF ByAction
<1>8. inst.memory_action = "Write" => m = base + 1 /\ l = base + 1
  BY <1>3 DEF ByAction
<1>9. inst.memory_action = "ReadModifyWrite" =>
          /\ shift => m = base + 2 + 1 /\ l = base + 2 + 0
          /\ ~shift => m = base + 3 /\ l = base + 3
  BY <1>3 DEF ByAction
<1>10. inst.memory_action \in {"Read", "Write", "ReadModifyWrite"}
  BY <1>1 DEF MemoryAction
<1>11. CASE inst.memory_action = "Read"
  <2>1. penalty = 1 /\ m = base + 1 /\ l = base + 0
    BY <1>7, <1>11 DEF Penalty
  <2>2. m \in Nat /\ l \in Nat /\ m = l + penalty
    BY ONLY <1>4, <2>1
  <2>3. QED
    BY <2>2 DEF m, l
<1>12. CASE inst.memory_action = "Write"
  <2>1. penalty = 0 /\ m = base + 1 /\ l = base + 1
    BY <1>8, <1>12 DEF Penalty
  <2>2. m \in Nat /\ l \in Nat /\ m = l + penalty
    BY ONLY <1>4, <2>1
  <2>3. QED
    BY <2>2 DEF m, l
<1>13. CASE inst.memory_action = "ReadModifyWrite"
  <2>1. \/ penalty = 1 /\ m = base + 2 + 1 /\ l = base + 2 + 0
        \/ penalty = 0 /\ m = base + 3 /\ l = base + 3
    BY <1>6, <1>9, <1>13 DEF Penalty
  <2>2. m \in Nat /\ l \in Nat /\ m = l + penalty
    BY ONLY <1>4, <2>1
  <2>3. QED
    BY <2>2 DEF m, l
<1>14. QED
  BY <1>10, <1>11, <1>12, <1>13

Dummy(opcode, inst, crossed) ==
    \/ crossed
    \/ inst.memory_action = "Write"
    \/ inst.memory_action = "ReadModifyWrite" /\ opcode \in {222, 254}
Skips(opcode, inst, crossed) ==
    /\ ~Dummy(opcode, inst, crossed)
    /\ inst.memory_action = "Read" \/ (~F.INVALID_ADDR_READ /\ opcode \notin {222, 254})

\* The dummy cycle of an indexed access is there when the table says so.
LEMMA OffsetOnTime ==
    ASSUME NEW opcode, NEW inst, NEW h, NEW g, NEW s \in Seq(MicroOp), NEW extra,
           NEW crossed \in BOOLEAN, NEW taken \in BOOLEAN, NEW retires,
           Running(opcode, inst, h, s, extra), s # << >>, Len(s) <= 7,
           Does(h, g, s[1], crossed, taken, retires),
           s[1].alu.op = "OffsetWithExtraCycle"
    PROVE  IF Skips(opcode, inst, crossed) THEN OnTime(inst, g, Tail(Tail(s)), extra)
           ELSE OnTime(inst, g, Tail(s), extra)
<1> DEFINE t == Tail(s)
           u == Tail(t)
<1>1. t \in Seq(MicroOp) /\ Len(t) = Len(s) - 1 /\ \A i \in 1..Len(t) : t[i] = s[i + 1]
  BY HeadTailProperties
<1>2. Len(s) \in Nat \ {0}
  BY EmptySeq, LenProperties
<1>3. InPlace(inst, h.source, s, 1)
  BY <1>2 DEF Running, AllInPlace
<1>4. /\ 1 < Len(s) /\ Indexed(inst)
      /\ \A j \in 2..Len(s) : s[j].alu.op # "OffsetWithExtraCycle"
  BY <1>3 DEF InPlace, Belongs
<1>5. Len(t) \in Nat \ {0} /\ t # << >>
  <2>1. Len(t) \in Nat \ {0}
    BY <1>1, <1>2, <1>4
  <2>2. QED
    BY <2>1, EmptySeq
<1>6. u \in Seq(MicroOp) /\ Len(u) = Len(t) - 1
  BY <1>1, <1>5, HeadTailProperties
<1>7. h \in RunType /\ g.source = h.source
  BY DEF Does
<1>8. Pending(s, "OffsetWithExtraCycle") /\ ~Pending(t, "OffsetWithExtraCycle")
  <2>1. \A i \in 1..Len(t) : t[i].alu.op # "OffsetWithExtraCycle"
    <3> TAKE i \in 1..Len(t)
    <3>1. i + 1 \in 2..Len(s)
      BY <1>1, <1>2
    <3>2. QED
      BY <1>1, <1>4, <3>1
  <2>2. QED
    BY <2>1, TailPending DEF Pending
<1>9. ~Pending(u, "OffsetWithExtraCycle")
  BY <1>1, <1>5, <1>8, TailPending
<1>10. Kind(inst) # "Jam" /\ ~Pending(s, "Branch")
  BY <1>4, PendingKinds DEF Running, Indexed
<1>11. ~Pending(t, "Branch") /\ ~Pending(u, "Branch")
  BY <1>1, <1>5, <1>10, TailPending
<1>12. /\ h.cycles \in 0..7 /\ ~h.crossed
       /\ h.cycles + Len(s) = CyclesOf(inst, h.source, TRUE, FALSE)
  BY ONLY ZenonT(40), <1>7, <1>8, <1>10, RunningCycles, s \in Seq(MicroOp), s # << >>,
          Running(opcode, inst, h, s, extra)
<1>13. g.cycles = h.cycles + 1
  BY <1>12, CycleStep DEF Running
<1>14. g.crossed <=> crossed
  BY <1>12 DEF Does
<1>15. Started(opcode, inst, h.source) /\ h.source = "program" /\ inst.memory_action \in MemoryAction
  BY <1>4, StartedFacts DEF Running, Indexed
<1> DEFINE x == CyclesOf(inst, h.source, TRUE, FALSE)
           y == CyclesOf(inst, h.source, FALSE, FALSE)
           z == CyclesOf(inst, h.source, crossed, FALSE)
<1>16. CyclesOf(inst, h.source, g.crossed, g.taken) = z
  <2>1. CyclesOf(inst, h.source, g.crossed, g.taken) = CyclesOf(inst, h.source, g.crossed, FALSE)
    BY <1>4, <1>15, CyclesIndexed
  <2>2. QED
    BY <1>14, <2>1, CyclesEq
<1>17. z = IF crossed THEN x ELSE y
  BY CyclesEq
<1> DEFINE penalty == Penalty(opcode, inst)
           a == h.cycles
           b == g.cycles
           k == Len(s)
<1>18. x \in Nat /\ y \in Nat /\ x = y + penalty
  <2>1. /\ CyclesOf(inst, h.source, TRUE, FALSE) \in Nat
        /\ CyclesOf(inst, h.source, FALSE, FALSE) \in Nat
        /\ CyclesOf(inst, h.source, TRUE, FALSE)
               = CyclesOf(inst, h.source, FALSE, FALSE) + Penalty(opcode, inst)
    BY ONLY <1>4, <1>15, IndexedTable, Zenon
  <2>2. QED
    BY ONLY <2>1, Zenon DEF x, y, penalty
<1>19. /\ a + k = x /\ b = a + 1 /\ a \in Nat /\ k \in Nat
       /\ Len(t) = k - 1 /\ Len(u) = k - 1 - 1
  <2>1. a + k = x /\ b = a + 1 /\ a \in Nat
    <3>1. a \in 0..7 /\ a + k = x
      BY ONLY <1>12
    <3>2. b = a + 1
      BY ONLY <1>13
    <3> HIDE DEF a, b, k, x
    <3>3. QED
      BY ONLY <3>1, <3>2
  <2>2. Len(t) = k - 1 /\ k \in Nat
    BY <1>1, <1>2
  <2>3. Len(u) = k - 1 - 1
    BY <1>6, <2>2
  <2>4. QED
    BY <2>1, <2>2, <2>3
<1>20. inst.memory_action \in {"Read", "Write", "ReadModifyWrite"}
  BY <1>15 DEF MemoryAction
<1>21. IF Skips(opcode, inst, crossed) THEN z = y /\ penalty = 1
       ELSE z = x \/ (z = y /\ penalty = 0)
  BY <1>17, <1>20 DEF Skips, Dummy, Penalty
<1> HIDE DEF t, u, penalty, a, b, k, x, y, z
<1>22. CASE Skips(opcode, inst, crossed)
  <2>1. b + (k - 1 - 1) = z
    <3>1. z = y /\ x = y + 1
      BY <1>18, <1>21, <1>22
    <3>2. QED
      BY ONLY <1>18, <1>19, <3>1
  <2>2. g.cycles + Len(u) = z
    BY <1>19, <2>1 DEF b
  <2>3. OnTime(inst, g, u, extra)
    BY <1>7, <1>9, <1>10, <1>11, <1>16, <2>2 DEF OnTime
  <2>4. QED
    BY <1>22, <2>3 DEF u, t
<1>23. CASE ~Skips(opcode, inst, crossed)
  <2>1. b + (k - 1) = z
    <3>1. z = x
      BY <1>18, <1>21, <1>23
    <3>2. QED
      BY ONLY <1>18, <1>19, <3>1
  <2>2. g.cycles + Len(t) = z
    BY <1>19, <2>1 DEF b
  <2>3. OnTime(inst, g, t, extra)
    BY <1>7, <1>8, <1>10, <1>11, <1>16, <2>2 DEF OnTime
  <2>4. QED
    BY <1>23, <2>3 DEF t
<1>24. QED
  BY <1>22, <1>23

\* A branch costs a cycle when it is taken and another when it leaves the page.
LEMMA BranchOnTime ==
    ASSUME NEW opcode, NEW inst, NEW h, NEW g, NEW s \in Seq(MicroOp), NEW extra,
           NEW crossed \in BOOLEAN, NEW taken \in BOOLEAN, NEW retires,
           Running(opcode, inst, h, s, extra), s # << >>, Size(s) = 1,
           Does(h, g, s[1], crossed, taken, retires), s[1].alu.op = "Branch",
           NEW t \in Seq(MicroOp),
           ~Pending(t, "OffsetWithExtraCycle"), ~Pending(t, "Branch"),
           Len(t) = Extra(taken) + Extra(taken /\ crossed)
    PROVE  OnTime(inst, g, t, extra)
<1>1. InPlace(inst, h.source, s, 1)
  BY DEF Running, AllInPlace, Size
<1>2. Kind(inst) \in {"Relative", "DpRelative"}
  BY <1>1 DEF InPlace, Belongs
<1>3. h \in RunType /\ g.source = h.source
  BY DEF Does
<1>4. Started(opcode, inst, h.source) /\ h.source = "program"
  BY <1>2, StartedFacts DEF Running
<1>5. Pending(s, "Branch") /\ ~Pending(s, "OffsetWithExtraCycle")
  <2>1. Pending(s, "Branch")
    BY DEF Pending, Size
  <2>2. QED
    BY <1>2, <2>1, PendingKinds DEF Running, Indexed
<1>6. ~h.crossed /\ ~h.taken
  BY <1>5 DEF Running, OnTime
<1>7. h.cycles \in 0..7 /\ h.cycles + Len(s) = CyclesOf(inst, h.source, h.crossed, h.taken)
  BY ONLY <1>2, <1>3, <1>5, RunningCycles, s \in Seq(MicroOp), s # << >>,
          Running(opcode, inst, h, s, extra), ZenonT(40)
<1>8. g.cycles = h.cycles + 1
  BY <1>7, CycleStep DEF Running
<1>9. (g.crossed <=> crossed) /\ (g.taken <=> taken)
  BY <1>6 DEF Does
<1> DEFINE base == IF Kind(inst) = "Relative" THEN 2 ELSE 5
           x == Extra(taken)
           y == Extra(taken /\ crossed)
           m == CyclesOf(inst, h.source, h.crossed, h.taken)
           n == CyclesOf(inst, h.source, g.crossed, g.taken)
<1>10. m = base
  <2>1. m = base + Extra(h.taken) + Extra(h.taken /\ h.crossed)
    BY <1>2, <1>4, CyclesBranch
  <2>2. Extra(h.taken) = 0 /\ Extra(h.taken /\ h.crossed) = 0 /\ base \in Nat
    BY <1>6 DEF Extra
  <2> HIDE DEF m, base
  <2>3. QED
    BY <2>1, <2>2
<1>11. n = base + x + y
  <2>1. n = base + Extra(g.taken) + Extra(g.taken /\ g.crossed)
    BY <1>2, <1>4, CyclesBranch
  <2>2. Extra(g.taken) = x /\ Extra(g.taken /\ g.crossed) = y
    BY <1>9 DEF Extra
  <2> HIDE DEF n, base, x, y
  <2>3. QED
    BY <2>1, <2>2
<1>12. base \in Nat /\ x \in Nat /\ y \in Nat
  BY DEF Extra
<1>13. g.cycles + Len(t) = n
  <2>1. h.cycles + 1 = m
    BY <1>7 DEF Size
  <2>2. Len(t) = x + y
    OBVIOUS
  <2> HIDE DEF base, x, y, m, n
  <2>3. g.cycles + (x + y) = n
    BY ONLY <1>7, <1>8, <1>10, <1>11, <1>12, <2>1
  <2>4. QED
    BY <2>2, <2>3
<1>14. QED
  BY <1>2, <1>3, <1>13 DEF OnTime

-----------------------------------------------------------------------------
(* The queue after an op.                                                  *)

LEMMA RunsOn ==
    ASSUME NEW opcode, NEW inst, NEW h, NEW g, NEW s \in Seq(MicroOp), NEW extra,
           NEW crossed, NEW taken, NEW retires, NEW t \in Seq(MicroOp),
           Running(opcode, inst, h, s, extra), s # << >>,
           Does(h, g, s[1], crossed, taken, retires), retires <=> t = << >>,
           AllInPlace(inst, h.source, t),
           \A w \in Weights : From(w, s, 1) = w[s[1]] + From(w, t, 1),
           OnTime(inst, g, t, extra)
    PROVE  Running(opcode, inst, g, t, extra)
<1>1. s[1] \in MicroOp /\ 1 \in 1..Len(s)
  BY EmptySeq, LenProperties, ElementOfSeq
<1>2. Belongs(inst, h.source, s[1])
  BY <1>1 DEF Running, AllInPlace, InPlace
<1>3. Conserved(inst, g, t)
  BY <1>1, <1>2, ConservedStep DEF Running
<1>4. RetiredOnce(inst, g, t)
  BY RetiredStep DEF Running
<1>5. g.cycles <= MaxCycles
  BY CycleStep DEF Running
<1>6. g.source = h.source
  BY DEF Does
<1>7. QED
  BY <1>3, <1>4, <1>5, <1>6 DEF Running

LEMMA FrontWeight ==
    ASSUME NEW s \in Seq(MicroOp), s # << >>, Len(s) <= 7
    PROVE  /\ Tail(s) \in Seq(MicroOp)
           /\ \A w \in Weights : From(w, s, 1) = w[s[1]] + From(w, Tail(s), 1)
<1>1. Tail(s) \in Seq(MicroOp)
  BY HeadTailProperties
<1>2. ASSUME NEW w \in Weights PROVE From(w, s, 1) = w[s[1]] + From(w, Tail(s), 1)
  <2>1. w \in [MicroOp -> Int]
    BY WeightTypes
  <2>2. QED
    BY <2>1, FromTail
<1>3. QED
  BY <1>1, <1>2

LEMMA PlainRuns ==
    ASSUME NEW opcode, NEW inst, NEW h, NEW g, NEW s \in Seq(MicroOp), NEW extra,
           NEW crossed \in BOOLEAN, NEW taken \in BOOLEAN, NEW retires,
           Running(opcode, inst, h, s, extra), s # << >>, Len(s) <= 7,
           Does(h, g, s[1], crossed, taken, retires), retires <=> Tail(s) = << >>,
           s[1].alu.op \notin {"OffsetWithExtraCycle", "Branch", "Jam"},
           crossed => s[1].alu.op = "FixPtr", ~taken
    PROVE  Running(opcode, inst, g, Tail(s), extra)
<1>1. OnTime(inst, g, Tail(s), extra)
  BY PlainOnTime
<1>2. Tail(s) \in Seq(MicroOp) /\ \A w \in Weights : From(w, s, 1) = w[s[1]] + From(w, Tail(s), 1)
  BY FrontWeight
<1>3. AllInPlace(inst, h.source, Tail(s))
  BY TailPlaces DEF Running
<1>4. QED
  BY <1>1, <1>2, <1>3, RunsOn

LEMMA OffsetRuns ==
    ASSUME NEW opcode, NEW inst, NEW h, NEW g, NEW s \in Seq(MicroOp), NEW extra,
           NEW crossed \in BOOLEAN, NEW taken \in BOOLEAN, NEW retires,
           Running(opcode, inst, h, s, extra), s # << >>, Len(s) <= 7,
           s[1].alu.op = "OffsetWithExtraCycle",
           NEW t, t = IF Skips(opcode, inst, crossed) THEN Tail(Tail(s)) ELSE Tail(s),
           Does(h, g, s[1], crossed, taken, retires), retires <=> t = << >>
    PROVE  Running(opcode, inst, g, t, extra)
<1> DEFINE r == Tail(s)
<1>1. 1 \in 1..Len(s) /\ Len(s) \in Nat
  BY EmptySeq, LenProperties
<1>2. InPlace(inst, h.source, s, 1)
  BY <1>1 DEF Running, AllInPlace
<1>3. 1 < Len(s) /\ (inst.memory_action # "Write" => Weightless(s[1 + 1]))
  BY <1>2 DEF InPlace
<1>4. /\ r \in Seq(MicroOp) /\ Len(r) = Len(s) - 1
      /\ \A i \in 1..Len(r) : r[i] = s[i + 1]
      /\ \A w \in Weights : From(w, s, 1) = w[s[1]] + From(w, r, 1)
  BY FromTail, WeightTypes
<1>5. OnTime(inst, g, t, extra)
  BY OffsetOnTime
<1>6. AllInPlace(inst, h.source, r)
  BY TailPlaces DEF Running
<1>7. CASE ~Skips(opcode, inst, crossed)
  BY <1>4, <1>5, <1>6, <1>7, RunsOn
<1>8. CASE Skips(opcode, inst, crossed)
  <2> HIDE DEF r
  <2>1. r # << >> /\ Len(r) <= 7 /\ 1 \in 1..Len(r)
    <3>1. 1 \in 1..Len(r) /\ Len(r) <= 7
      BY <1>1, <1>3, <1>4
    <3>2. QED
      BY <3>1, EmptySeq
  <2>2. r[1] = s[1 + 1]
    BY <1>4, <2>1
  <2>3. Weightless(r[1])
    BY <1>3, <1>8, <2>2 DEF Skips, Dummy
  <2>4. \A w \in Weights : w[r[1]] = 0
    BY <2>3 DEF Weightless, Weights
  <2>5. /\ Tail(r) \in Seq(MicroOp)
        /\ \A w \in Weights : From(w, r, 1) = w[r[1]] + From(w, Tail(r), 1)
    BY <1>4, <2>1, FrontWeight
  <2>6. \A w \in Weights : From(w, Tail(r), 1) \in Int
    BY <2>5, FromType, WeightTypes
  <2>7. \A w \in Weights : From(w, s, 1) = w[s[1]] + From(w, Tail(r), 1)
    BY <1>4, <2>4, <2>5, <2>6
  <2>8. AllInPlace(inst, h.source, Tail(r))
    BY <1>4, <1>6, <2>1, TailPlaces
  <2>9. t = Tail(r)
    BY <1>8 DEF r
  <2>10. OnTime(inst, g, Tail(r), extra) /\ (retires <=> Tail(r) = << >>)
    BY <1>5, <2>9
  <2>11. Running(opcode, inst, g, Tail(r), extra)
    BY <2>5, <2>7, <2>8, <2>10, RunsOn
  <2>12. QED
    BY <2>9, <2>11
<1>9. QED
  BY <1>7, <1>8

\* What a taken branch appends weighs nothing.
LEMMA BranchTailFacts ==
    ASSUME NEW inst, NEW source, NEW crossed \in BOOLEAN
    PROVE  LET t == BranchTail(crossed)
           IN  /\ t \in Seq(MicroOp) /\ t # << >>
               /\ AllInPlace(inst, source, t)
               /\ ~Pending(t, "OffsetWithExtraCycle") /\ ~Pending(t, "Branch")
               /\ \A w \in Weights : From(w, t, 1) = 0
               /\ Len(t) = 1 + Extra(crossed)
<1> DEFINE t == BranchTail(crossed)
           a == ReadPcSetPc(0)
           b == ReadOp("Pc", "None", FALSE)
<1>1. a \in Inert /\ b \in Inert
  BY InertOps DEF Targets, Latch
<1>2. /\ AdvanceOf[a] = 0 /\ WritesOf[a] = 0 /\ AdvanceOf[b] = 0 /\ WritesOf[b] = 0
  <2>1. AdvanceOf[a] = 0 /\ WritesOf[a] = 0
    BY OpWeights DEF Weightless
  <2>2. "Pc" \in Latch /\ "None" \in Latch
    BY DEF Latch
  <2>3. AdvanceOf[b] = 0 /\ WritesOf[b] = 0
    BY <2>2, OpWeights
  <2>4. QED
    BY <2>1, <2>3
<1>3. t \in {<< a >>, << a, a >>, << b, a >>}
      /\ (crossed => t # << a >>) /\ (~crossed => t = << a >>)
  <2>1. Len(<< a >>) = 1 /\ Len(<< a, a >>) = 2 /\ Len(<< b, a >>) = 2
    OBVIOUS
  <2>2. << a, a >> # << a >> /\ << b, a >> # << a >>
    BY <2>1
  <2>3. QED
    BY <2>2 DEF BranchTail
<1> HIDE DEF a, b, t
<1>4. /\ << a >> \in Seq(Inert) /\ From(AdvanceOf, << a >>, 1) = 0 /\ From(WritesOf, << a >>, 1) = 0
      /\ << a, a >> \in Seq(Inert) /\ From(AdvanceOf, << a, a >>, 1) = 0 /\ From(WritesOf, << a, a >>, 1) = 0
      /\ << b, a >> \in Seq(Inert) /\ From(AdvanceOf, << b, a >>, 1) = 0 /\ From(WritesOf, << b, a >>, 1) = 0
  <2>1. << a >> \in Seq(Inert) /\ From(AdvanceOf, << a >>, 1) = 0 /\ From(WritesOf, << a >>, 1) = 0
    BY <1>1, <1>2, OneOp
  <2>2. /\ << a, a >> \in Seq(Inert) /\ << b, a >> \in Seq(Inert)
        /\ From(AdvanceOf, << a, a >>, 1) = 0 + 0 /\ From(WritesOf, << a, a >>, 1) = 0 + 0
        /\ From(AdvanceOf, << b, a >>, 1) = 0 + 0 /\ From(WritesOf, << b, a >>, 1) = 0 + 0
    BY <1>1, <1>2, TwoOps
  <2>3. 0 + 0 = 0
    OBVIOUS
  <2>4. QED
    BY ONLY <2>1, <2>2, <2>3
<1>5. t \in Seq(Inert) /\ From(AdvanceOf, t, 1) = 0 /\ From(WritesOf, t, 1) = 0
  BY <1>3, <1>4
<1>6. /\ t \in Seq(MicroOp) /\ AllInPlace(inst, source, t)
      /\ ~Pending(t, "OffsetWithExtraCycle") /\ ~Pending(t, "Branch")
      /\ From(MovedOf, t, 1) = 0
  BY <1>5, InertPlaces
<1>7. \A w \in Weights : From(w, t, 1) = 0
  BY <1>5, <1>6 DEF Weights
<1>8. /\ Len(<< a >>) = 1 + 0 /\ Len(<< a, a >>) = 1 + 1 /\ Len(<< b, a >>) = 1 + 1
  OBVIOUS
<1>9. Len(t) = 1 + Extra(crossed)
  <2>1. CASE crossed
    BY <1>3, <1>8, <2>1 DEF Extra
  <2>2. CASE ~crossed
    BY <1>3, <1>8, <2>2 DEF Extra
  <2>3. QED
    BY <2>1, <2>2
<1>10. t # << >>
  <2>1. Len(t) # 0
    BY <1>9 DEF Extra
  <2>2. QED
    BY <2>1, EmptySeq
<1>11. QED
  BY <1>6, <1>7, <1>9, <1>10 DEF t

LEMMA TailOfOne == ASSUME NEW S, NEW s \in Seq(S), Size(s) = 1 PROVE Tail(s) = << >>
<1> DEFINE n == Len(s)
<1>1. n = 1
  BY DEF Size
<1>2. s # << >>
  BY <1>1, EmptySeq
<1>3. Tail(s) \in Seq(S) /\ Len(Tail(s)) = n - 1
  BY <1>2, HeadTailProperties
<1> HIDE DEF n
<1>4. Len(Tail(s)) = 0
  BY ONLY <1>1, <1>3
<1>5. QED
  BY <1>3, <1>4, EmptySeq

LEMMA BranchRuns ==
    ASSUME NEW opcode, NEW inst, NEW h, NEW g, NEW s \in Seq(MicroOp), NEW extra,
           NEW crossed \in BOOLEAN, NEW taken \in BOOLEAN, NEW retires,
           Running(opcode, inst, h, s, extra), s # << >>, Size(s) = 1,
           s[1].alu.op = "Branch",
           NEW t, t = IF taken THEN BranchTail(crossed) ELSE << >>,
           Does(h, g, s[1], crossed, taken, retires), retires <=> t = << >>
    PROVE  Running(opcode, inst, g, t, extra)
<1>1. Tail(s) = << >>
  BY TailOfOne
<1>2. \A w \in Weights : From(w, << >>, 1) = 0 /\ From(w, s, 1) = w[s[1]] + From(w, << >>, 1)
  <2>1. Len(s) <= 7
    BY DEF Size
  <2>2. \A w \in Weights : From(w, s, 1) = w[s[1]] + From(w, << >>, 1)
    BY <1>1, <2>1, FrontWeight
  <2>3. QED
    BY <2>2, FromEmpty, WeightTypes
<1>3. /\ t \in Seq(MicroOp) /\ AllInPlace(inst, h.source, t)
      /\ ~Pending(t, "OffsetWithExtraCycle") /\ ~Pending(t, "Branch")
      /\ \A w \in Weights : From(w, t, 1) = 0
  <2>1. CASE taken
    BY <2>1, BranchTailFacts
  <2>2. CASE ~taken
    BY <1>2, <2>2, EmptySeq, EmptyPlaces, EmptyPending
  <2>3. QED
    BY <2>1, <2>2
<1>4. Len(t) = Extra(taken) + Extra(taken /\ crossed)
  <2>1. CASE taken
    <3>1. Len(t) = 1 + Extra(crossed)
      BY <2>1, BranchTailFacts
    <3>2. Extra(taken) = 1 /\ Extra(taken /\ crossed) = Extra(crossed)
      BY <2>1 DEF Extra
    <3>3. QED
      BY <3>1, <3>2
  <2>2. CASE ~taken
    <3>1. Len(t) = 0
      BY <2>2, EmptySeq
    <3>2. Extra(taken) = 0 /\ Extra(taken /\ crossed) = 0
      BY <2>2 DEF Extra
    <3>3. QED
      BY <3>1, <3>2
  <2>3. QED
    BY <2>1, <2>2
<1>5. OnTime(inst, g, t, extra)
  <2>1. /\ t \in Seq(MicroOp) /\ ~Pending(t, "OffsetWithExtraCycle") /\ ~Pending(t, "Branch")
        /\ Len(t) = Extra(taken) + Extra(taken /\ crossed)
    BY <1>3, <1>4
  <2>2. QED
    BY ONLY <2>1, BranchOnTime, crossed \in BOOLEAN, taken \in BOOLEAN, s \in Seq(MicroOp),
            Running(opcode, inst, h, s, extra), s # << >>, Size(s) = 1,
            s[1].alu.op = "Branch", Does(h, g, s[1], crossed, taken, retires)
<1>6. \A w \in Weights : From(w, s, 1) = w[s[1]] + From(w, t, 1)
  <2> TAKE w \in Weights
  <2>1. From(w, << >>, 1) = From(w, t, 1)
    BY <1>2, <1>3
  <2>2. QED
    BY <1>2, <2>1
<1>7. QED
  BY ONLY <1>3, <1>5, <1>6, RunsOn, s \in Seq(MicroOp), Running(opcode, inst, h, s, extra),
          s # << >>, Does(h, g, s[1], crossed, taken, retires), retires <=> t = << >>

\* A jam does its op over and over: it weighs nothing.
LEMMA JamRuns ==
    ASSUME NEW opcode, NEW inst, NEW h, NEW g, NEW s \in Seq(MicroOp), NEW extra,
           NEW crossed, NEW taken, NEW retires,
           Running(opcode, inst, h, s, extra), s # << >>, Len(s) <= 7,
           s[1].alu.op = "Jam",
           Does(h, g, s[1], crossed, taken, retires), retires <=> s = << >>
    PROVE  Running(opcode, inst, g, s, extra)
<1>1. 1 \in 1..Len(s) /\ s[1] \in MicroOp
  BY EmptySeq, LenProperties, ElementOfSeq
<1>2. Belongs(inst, h.source, s[1])
  BY <1>1 DEF Running, AllInPlace, InPlace
<1>3. Kind(inst) = "Jam" /\ Weightless(s[1])
  BY <1>2 DEF Belongs
<1>4. \A w \in Weights : From(w, s, 1) = w[s[1]] + From(w, s, 1)
  <2> TAKE w \in Weights
  <2>1. w[s[1]] = 0
    BY <1>3 DEF Weightless, Weights
  <2>2. From(w, s, 1) \in Int
    BY FromType, WeightTypes
  <2>3. QED
    BY <2>1, <2>2
<1>5. OnTime(inst, g, s, extra)
  <2>1. JamEnds(s)
    BY <1>3 DEF Running, OnTime
  <2>2. ~Pending(s, "Branch")
    BY <1>3, PendingKinds DEF Running
  <2>3. QED
    BY <1>3, <2>1, <2>2 DEF OnTime
<1>6. AllInPlace(inst, h.source, s)
  BY DEF Running
<1>7. QED
  BY ONLY <1>4, <1>5, <1>6, RunsOn, retires <=> s = << >>, s \in Seq(MicroOp), s # << >>,
          Running(opcode, inst, h, s, extra), Does(h, g, s[1], crossed, taken, retires), Zenon

LEMMA PopTodo == ASSUME NEW tape, TapeOK(tape), ~IsEmpty(tape) PROVE Pop(tape).todo = Tail(tape.todo)
<1>1. tape.todo \in Seq(MicroOp) /\ tape.todo # << >>
  BY TapeFacts
<1>2. CASE Len(tape.todo) = 1
  <2>1. Size(tape.todo) = 1
    BY <1>2 DEF Size
  <2>2. Tail(tape.todo) = << >>
    BY <1>1, <2>1, TailOfOne
  <2>3. QED
    BY <1>2, <2>2 DEF Pop, EmptyTape
<1>3. CASE Len(tape.todo) # 1
  BY <1>3 DEF Pop
<1>4. QED
  BY <1>2, <1>3

-----------------------------------------------------------------------------
(* The steps of the core.                                                  *)

LEMMA UnderWay ==
    ASSUME IInv, HistoryInv, current_inst # NoInst
    PROVE  Running(current_opcode, current_inst, run, ucycs.todo, extra_adc_sbc_cycle)
<1>1. current_opcode \in Opcode /\ current_inst = Decode[current_opcode]
  BY DEF HistoryInv
<1>2. run.source \in {"program", "irq", "nmi"}
  BY DEF IInv, SourceInv, RunType
<1>3. run.source # "program" => Kind(current_inst) = "Brk"
  <2>1. Kind(Decode[0]) = "Brk"
    BY DecodeAssumption DEF Kind, PlainMode
  <2>2. QED
    BY <1>2, <2>1 DEF IInv, SourceInv
<1>4. Started(current_opcode, current_inst, run.source)
  BY <1>1, <1>2, <1>3 DEF Started
<1>5. QED
  BY <1>4 DEF Running, HistoryInv

LEMMA StillUnderWay ==
    ASSUME Running(current_opcode', current_inst', run', ucycs'.todo, extra_adc_sbc_cycle')
    PROVE  HistoryInv'
<1>1. current_opcode' \in Opcode /\ current_inst' = Decode[current_opcode']
  BY DEF Running, Started
<1>2. current_inst' # NoInst
  BY <1>1, DecodeAssumption
<1>3. QED
  BY <1>1, <1>2 DEF Running, HistoryInv

\* What the ops that decide how the queue goes on make of it
LEMMA QueueAfter ==
    ASSUME NEW tape, TapeOK(tape), ~IsEmpty(tape), NEW crossed, NEW taken
    PROVE  LET op == FrontOp(tape)
               after == AfterAlu(op, Pop(tape), crossed, taken)
           IN  /\ op.alu.op = "Jam" => after = tape
               /\ op.alu.op = "Branch" =>
                     /\ Size(tape.todo) = 1
                     /\ after.todo = IF taken THEN BranchTail(crossed) ELSE << >>
               /\ op.alu.op \notin {"Jam", "Branch", "OffsetWithExtraCycle", "FixPtr"} =>
                     after.todo = Tail(tape.todo)
               /\ op.alu.op = "FixPtr" /\ ~(~crossed /\ current_opcode = 124) =>
                     after.todo = Tail(tape.todo)
<1> DEFINE op == FrontOp(tape)
           after == AfterAlu(op, Pop(tape), crossed, taken)
<1>1. Fits(tape.todo, 1) /\ op = tape.todo[1] /\ Len(tape.todo) \in Nat \ {0}
  BY TapeFacts
<1>2. Pop(tape).todo = Tail(tape.todo)
  BY PopTodo
<1>3. ASSUME op.alu.op = "Jam" PROVE after = tape
  <2>1. Len(tape.todo) # 1
    BY <1>1, <1>3, SMTT(20) DEF Fits, PlainOp, Executables
  <2>2. after = DecHead(Pop(tape))
    BY <1>3 DEF AfterAlu
  <2>3. QED
    BY <2>1, <2>2, RewindOK
<1>4. ASSUME op.alu.op = "Branch"
      PROVE  /\ Size(tape.todo) = 1
             /\ after.todo = IF taken THEN BranchTail(crossed) ELSE << >>
  <2>1. Len(tape.todo) = 1
    BY <1>1, <1>4 DEF Fits, PlainOp, Executables
  <2>2. Pop(tape) = EmptyTape
    BY <2>1 DEF Pop
  <2>3. after = IF taken THEN PushAll(EmptyTape, BranchTail(crossed)) ELSE EmptyTape
    BY <1>4, <2>2 DEF AfterAlu
  <2>4. << >> \o BranchTail(crossed) = BranchTail(crossed)
    BY DEF BranchTail
  <2>5. PushAll(EmptyTape, BranchTail(crossed)).todo = BranchTail(crossed)
    BY <2>4 DEF PushAll, EmptyTape
  <2>6. QED
    BY <2>1, <2>3, <2>5 DEF Size, EmptyTape
<1>5. op.alu.op \notin {"Jam", "Branch", "OffsetWithExtraCycle", "FixPtr"} =>
          after.todo = Tail(tape.todo)
  BY <1>2 DEF AfterAlu
<1>6. op.alu.op = "FixPtr" /\ ~(~crossed /\ current_opcode = 124) => after.todo = Tail(tape.todo)
  BY <1>2 DEF AfterAlu
<1>7. QED
  BY <1>3, <1>4, <1>5, <1>6

LEMMA OffsetAfter ==
    ASSUME NEW tape, TapeOK(tape), ~IsEmpty(tape), NEW crossed, NEW taken, NEW source,
           current_inst.memory_action \in MemoryAction,
           FrontOp(tape).alu.op = "OffsetWithExtraCycle",
           AllInPlace(current_inst, source, tape.todo)
    PROVE  AfterAlu(FrontOp(tape), Pop(tape), crossed, taken).todo =
              IF Skips(current_opcode, current_inst, crossed) THEN Tail(Tail(tape.todo))
              ELSE Tail(tape.todo)
<1> DEFINE op == FrontOp(tape)
           s == tape.todo
           r == Tail(s)
           after == AfterAlu(op, Pop(tape), crossed, taken)
<1>1. /\ Fits(s, 1) /\ op = s[1] /\ Len(s) \in Nat \ {0} /\ s \in Seq(MicroOp) /\ s # << >>
  BY TapeFacts
<1>2. Pop(tape).todo = r
  BY PopTodo
<1>3. 1 < Len(s) /\ s[2] \in PlainOp
  BY <1>1 DEF Fits, PlainOp, Executables
<1>4. InPlace(current_inst, source, s, 1)
  BY <1>1 DEF AllInPlace
<1>5. current_inst.memory_action = "Read" => Len(s) = 1 + 1
  BY <1>1, <1>4 DEF InPlace
<1>6. TapeOK(Pop(tape)) /\ ~IsEmpty(Pop(tape))
  BY <1>1, <1>3, PopOK
<1>7. Pop(Pop(tape)).todo = Tail(r)
  BY <1>2, <1>6, PopTodo
<1>8. r \in Seq(MicroOp) /\ Len(r) = Len(s) - 1
  BY <1>1, HeadTailProperties
<1>9. current_inst.memory_action = "Read" => Tail(r) = << >>
  <2> SUFFICES ASSUME current_inst.memory_action = "Read" PROVE Tail(r) = << >>
    OBVIOUS
  <2>1. Len(s) = 1 + 1
    BY <1>5
  <2> DEFINE n == Len(r)
  <2>2. n = 1
    BY <1>8, <2>1
  <2>3. Size(r) = 1
    BY <2>2 DEF Size
  <2> HIDE DEF r, n
  <2>4. QED
    BY <1>8, <2>3, TailOfOne
<1>10. after = AfterOffset(Pop(tape), crossed)
  BY DEF AfterAlu
<1>11. NeedsDummy(crossed) <=> Dummy(current_opcode, current_inst, crossed)
  BY DEF NeedsDummy, Dummy, IsIncDecAbsX
<1> HIDE DEF r, s, op, after
<1>12. after.todo = IF Skips(current_opcode, current_inst, crossed) THEN Tail(r) ELSE r
  <2>1. CASE NeedsDummy(crossed)
    BY <1>2, <1>10, <1>11, <2>1 DEF AfterOffset, Skips
  <2>2. CASE ~NeedsDummy(crossed) /\ current_inst.memory_action = "Read"
    BY <1>9, <1>10, <1>11, <2>2 DEF AfterOffset, Skips, EmptyTape
  <2>3. CASE ~NeedsDummy(crossed) /\ current_inst.memory_action # "Read"
    BY <1>2, <1>7, <1>10, <1>11, <2>3 DEF AfterOffset, Skips, IsIncDecAbsX
  <2>4. QED
    BY <2>1, <2>2, <2>3
<1>13. QED
  BY <1>12 DEF after, op, r, s

LEMMA ExecuteHistory == ASSUME IInv, HistoryInv, NEW lines \in Lines, Execute(lines) PROVE HistoryInv'
<1> DEFINE op == FrontOp(ucycs)
           s == ucycs.todo
           t == ucycs'.todo
           retires == IsEmpty(ucycs')
           opcode == current_opcode
           inst == current_inst
           extra == extra_adc_sbc_cycle
<1>1. PICK crossed \in Crossings(op), taken \in BranchOutcomes(op), pulled \in PulledStatus(op) :
          ExecuteMicroOp(op, crossed, taken, pulled)
  BY DEF Execute
<1>2. /\ current_inst # NoInst /\ ~IsEmpty(ucycs) /\ TapeOK(ucycs) /\ run \in RunType
      /\ UNCHANGED << current_inst, current_opcode, extra_adc_sbc_cycle >>
  BY DEF Execute, IInv, QueueInv
<1>3. /\ op = s[1] /\ op \in MicroOp /\ s \in Seq(MicroOp) /\ s # << >>
      /\ Len(s) \in Nat \ {0} /\ Len(ucycs.done) \in Nat
  BY <1>2, TapeFacts
<1>4. Len(s) <= 7
  <2>1. Len(ucycs.done) + Len(s) <= 7
    BY <1>2 DEF TapeOK, Slots
  <2> DEFINE m == Len(ucycs.done)
             n == Len(s)
  <2>2. m + n <= 7 /\ m \in Nat /\ n \in Nat
    BY <1>3, <2>1
  <2> HIDE DEF m, n
  <2>3. n <= 7
    BY ONLY <2>2
  <2>4. QED
    BY <2>3 DEF n
<1>5. Running(opcode, inst, run, s, extra)
  BY <1>2, UnderWay
<1>6. /\ crossed \in BOOLEAN /\ taken \in BOOLEAN /\ retires \in BOOLEAN
      /\ crossed => op.alu.op \in {"OffsetWithExtraCycle", "Branch", "FixPtr"}
      /\ taken => op.alu.op = "Branch"
  BY DEF Crossings, BranchOutcomes, IsEmpty
<1>7. Does(run, run', op, crossed, taken, retires)
  <2>1. run' = Counted(op, crossed, taken, retires)
    BY <1>1 DEF ExecuteMicroOp
  <2>2. QED
    BY <1>2, <1>3, <1>6, <2>1, CountedDoes
<1>8. ucycs' = AfterAlu(op, Pop(ucycs), crossed, taken)
  BY <1>1 DEF ExecuteMicroOp
<1>9. retires <=> t = << >>
  BY DEF IsEmpty
<1>10. Does(run, run', s[1], crossed, taken, retires)
  BY <1>3, <1>7
<1>11. inst.memory_action \in MemoryAction /\ ControlFacts(F, opcode, inst)
  BY <1>5, StartedFacts DEF Running
<1>12. AllInPlace(inst, run.source, s)
  BY <1>5 DEF Running
<1> SUFFICES Running(opcode, inst, run', t, extra)
  <2>1. ASSUME Running(opcode, inst, run', t, extra)
        PROVE  Running(current_opcode', current_inst', run', ucycs'.todo, extra_adc_sbc_cycle')
    <3>1. current_opcode' = opcode /\ current_inst' = inst /\ extra_adc_sbc_cycle' = extra
      BY <1>2
    <3>2. QED
      BY <2>1, <3>1, Zenon
  <2>2. QED
    BY <2>1, StillUnderWay
<1>13. /\ op.alu.op = "Jam" => ucycs' = ucycs
       /\ op.alu.op = "Branch" =>
             Size(s) = 1 /\ t = IF taken THEN BranchTail(crossed) ELSE << >>
       /\ op.alu.op \notin {"Jam", "Branch", "OffsetWithExtraCycle", "FixPtr"} => t = Tail(s)
       /\ op.alu.op = "FixPtr" /\ ~(~crossed /\ opcode = 124) => t = Tail(s)
  BY <1>2, <1>8, QueueAfter
<1>14. op.alu.op = "OffsetWithExtraCycle" =>
          t = IF Skips(opcode, inst, crossed) THEN Tail(Tail(s)) ELSE Tail(s)
  BY <1>2, <1>8, <1>11, <1>12, OffsetAfter
<1>15. op.alu.op = "FixPtr" => opcode # 124
  <2>1. op.alu.op = "FixPtr" => Kind(inst) = "JmpIndirect"
    BY <1>3, <1>12 DEF AllInPlace, InPlace, Belongs
  <2>2. QED
    BY <1>11, <2>1 DEF ControlFacts, Kind
<1> HIDE DEF op, s, t, retires, opcode, inst, extra
<1>16. CASE op.alu.op = "Jam"
  <2>1. t = s
    BY <1>13, <1>16 DEF t, s
  <2>2. retires <=> s = << >>
    BY <1>9, <2>1
  <2>3. Running(opcode, inst, run', s, extra)
    <3>1. s[1].alu.op = "Jam" /\ s \in Seq(MicroOp) /\ s # << >>
      BY <1>3, <1>16
    <3>2. QED
      BY ONLY <1>4, <1>5, <1>10, <2>2, <3>1, JamRuns, Zenon
  <2>4. QED
    BY <2>1, <2>3
<1>17. CASE op.alu.op = "Branch"
  <2>1. Size(s) = 1 /\ t = IF taken THEN BranchTail(crossed) ELSE << >>
    BY <1>13, <1>17
  <2>2. QED
    <3>1. s[1].alu.op = "Branch" /\ s \in Seq(MicroOp) /\ s # << >>
      BY <1>3, <1>17
    <3>2. crossed \in BOOLEAN /\ taken \in BOOLEAN
      BY <1>6
    <3>3. QED
      BY ONLY ZenonT(40), <1>5, <1>9, <1>10, <2>1, <3>1, <3>2, BranchRuns
<1>18. CASE op.alu.op = "OffsetWithExtraCycle"
  <2>1. t = IF Skips(opcode, inst, crossed) THEN Tail(Tail(s)) ELSE Tail(s)
    BY <1>14, <1>18
  <2>2. QED
    <3>1. s[1].alu.op = "OffsetWithExtraCycle" /\ s \in Seq(MicroOp) /\ s # << >>
      BY <1>3, <1>18
    <3>2. crossed \in BOOLEAN /\ taken \in BOOLEAN
      BY <1>6
    <3>3. QED
      BY ONLY <1>4, <1>5, <1>9, <1>10, <2>1, <3>1, <3>2, OffsetRuns, ZenonT(40)
<1>19. CASE op.alu.op \notin {"Jam", "Branch", "OffsetWithExtraCycle"}
  <2>1. t = Tail(s)
    BY <1>13, <1>15, <1>19
  <2>2. ~taken /\ (crossed => op.alu.op = "FixPtr")
    BY <1>6, <1>19
  <2>3. retires <=> Tail(s) = << >>
    BY <1>9, <2>1
  <2>4. Running(opcode, inst, run', Tail(s), extra)
    BY <1>3, <1>4, <1>5, <1>6, <1>10, <1>19, <2>2, <2>3, PlainRuns
  <2>5. QED
    BY <2>1, <2>4
<1>20. QED
  BY <1>16, <1>17, <1>18, <1>19

\* A queue that was just pushed
LEMMA FreshRuns ==
    ASSUME NEW opcode, NEW inst, NEW source, Started(opcode, inst, source), NEW s,
           Fresh(inst, source, s), NEW extra
    PROVE  Running(opcode, inst, NewRun(source, FetchCycle(source), FetchCycle(source)), s, extra)
<1> DEFINE f == FetchCycle(source)
           h == NewRun(source, f, f)
<1>0. f \in {0, 1}
  BY DEF FetchCycle
<1> HIDE DEF f
<1>1. /\ h.source = source /\ h.cycles = f /\ h.advance = f /\ h.moved = 0 /\ h.writes = 0
      /\ h.retired = 0 /\ h.crossed = FALSE /\ h.taken = FALSE
  BY DEF NewRun
<1> HIDE DEF h
<1>2. Started(opcode, inst, h.source)
  BY <1>1
<1>3. s \in Seq(MicroOp) /\ AllInPlace(inst, h.source, s)
  BY <1>1 DEF Fresh
<1>4. /\ From(AdvanceOf, s, 1) \in Int /\ From(MovedOf, s, 1) \in Int /\ From(WritesOf, s, 1) \in Int
  BY <1>3, FromType, WeightFacts
<1>5. Conserved(inst, h, s)
  <2>1. /\ From(AdvanceOf, s, 1) = PlannedAdvance(inst, source) - f
        /\ From(MovedOf, s, 1) = -BytesPushed(inst)
        /\ From(WritesOf, s, 1) = WriteCycles(inst)
    BY DEF Fresh, f
  <2>2. PlannedAdvance(inst, source) \in Int
    <3>1. inst.address_mode.bytes \in 0..3
      BY <1>2, StartedFacts DEF AddressMode
    <3>2. \A k \in DOMAIN Operands : Operands[k] \in 0..2
      BY DEF Operands
    <3>3. QED
      BY <3>1, <3>2 DEF PlannedAdvance
  <2> DEFINE a == From(AdvanceOf, s, 1)
             b == PlannedAdvance(inst, source)
  <2>3. f + a = b
    <3>1. a = b - f /\ b \in Int
      BY <2>1, <2>2
    <3> HIDE DEF a, b
    <3>2. QED
      BY ONLY <1>0, <3>1
  <2>4. /\ h.advance + From(AdvanceOf, s, 1) = PlannedAdvance(inst, h.source)
        /\ h.moved + From(MovedOf, s, 1) = -BytesPushed(inst)
        /\ h.writes + From(WritesOf, s, 1) = WriteCycles(inst)
    BY <1>1, <1>4, <2>1, <2>3
  <2>5. /\ h.advance >= 0 /\ h.writes >= 0 /\ h.moved <= 0 /\ h.moved >= 0
    BY <1>0, <1>1
  <2>6. QED
    BY <2>4, <2>5 DEF Conserved
<1>6. RetiredOnce(inst, h, s)
  BY <1>1 DEF RetiredOnce, Fresh, Extra
<1>7. OnTime(inst, h, s, extra)
  <2>1. Kind(inst) = "Jam" => JamEnds(s)
    BY DEF Fresh
  <2>2. ASSUME Kind(inst) # "Jam", Pending(s, "OffsetWithExtraCycle")
        PROVE  h.cycles + Len(s) = CyclesOf(inst, h.source, TRUE, FALSE)
    <3>1. Len(s) + f = CyclesOf(inst, source, Pending(s, "OffsetWithExtraCycle"), FALSE)
      BY <2>2 DEF Fresh, f
    <3>2. CyclesOf(inst, source, Pending(s, "OffsetWithExtraCycle"), FALSE)
            = CyclesOf(inst, source, TRUE, FALSE)
      BY <2>2, CyclesEq
    <3>3. Len(s) \in Nat
      BY <1>3, LenProperties
    <3> DEFINE n == Len(s)
    <3> HIDE DEF n
    <3>4. f + n = n + f
      BY ONLY <1>0, <3>3 DEF n
    <3>5. QED
      BY ONLY <1>1, <3>1, <3>2, <3>4, Zenon DEF n
  <2>3. ASSUME Kind(inst) # "Jam", ~Pending(s, "OffsetWithExtraCycle")
        PROVE  h.cycles + Len(s) = CyclesOf(inst, h.source, h.crossed, h.taken)
    <3>1. Len(s) + f = CyclesOf(inst, source, Pending(s, "OffsetWithExtraCycle"), FALSE)
      BY <2>3 DEF Fresh, f
    <3>2. CyclesOf(inst, source, Pending(s, "OffsetWithExtraCycle"), FALSE)
            = CyclesOf(inst, source, h.crossed, h.taken)
      <4>1. CyclesOf(inst, source, Pending(s, "OffsetWithExtraCycle"), FALSE)
              = CyclesOf(inst, source, FALSE, FALSE)
        <5>1. Pending(s, "OffsetWithExtraCycle") = FALSE
          BY <2>3 DEF Pending
        <5>2. QED
          BY ONLY <5>1, Zenon
      <4>2. QED
        BY ONLY <1>1, <4>1, Zenon
    <3>3. Len(s) \in Nat
      BY <1>3, LenProperties
    <3> DEFINE n == Len(s)
    <3> HIDE DEF n
    <3>4. f + n = n + f
      BY ONLY <1>0, <3>3 DEF n
    <3>5. QED
      BY ONLY <1>1, <3>1, <3>2, <3>4, Zenon DEF n
  <2>4. QED
    BY <1>1, <2>1, <2>2, <2>3 DEF OnTime
<1>8. h.cycles <= MaxCycles
  BY <1>0, <1>1 DEF MaxCycles
<1>9. QED
  BY <1>2, <1>3, <1>5, <1>6, <1>7, <1>8 DEF Running, h, f

LEMMA FetchHistory ==
    ASSUME ucycs = EmptyTape, NEW opcode \in Opcode, FetchAndPrepare(opcode)
    PROVE  HistoryInv'
<1> DEFINE inst == Decode[opcode]
           s == EmitUcycs(F, inst.address_mode, inst.memory_action)
<1>1. /\ current_opcode' = opcode /\ current_inst' = inst /\ run' = NewRun("program", 1, 1)
      /\ ucycs' = PushAll(EmptyTape, s)
  BY DEF FetchAndPrepare
<1>2. Fresh(inst, "program", s)
  BY EmitFresh
<1> HIDE DEF s
<1>3. s \in Seq(MicroOp)
  BY <1>2 DEF Fresh
<1>4. ucycs'.todo = s
  BY <1>1, <1>3, ConcatEmptySeq DEF PushAll, EmptyTape
<1>5. Started(opcode, inst, "program")
  BY DEF Started
<1> HIDE DEF inst
<1>6. \A extra : Running(opcode, inst, NewRun("program", 1, 1), s, extra)
  BY <1>2, <1>5, FreshRuns DEF FetchCycle
<1>7. Running(current_opcode', current_inst', run', ucycs'.todo, extra_adc_sbc_cycle')
  BY ONLY <1>1, <1>4, <1>6, Zenon
<1>8. QED
  BY <1>7, StillUnderWay

LEMMA EntryHistory ==
    ASSUME ucycs = EmptyTape, NEW interrupt, NEW source,
           \/ interrupt = "Irq" /\ source = "irq"
           \/ interrupt = "Nmi" /\ source = "nmi",
           StartInterrupt(interrupt, source)
    PROVE  HistoryInv'
<1> DEFINE inst == Decode[0]
           s == EmitInt(interrupt)
           op == ReadOp("Pc", "None", FALSE)
           h == NewRun(source, 0, 0)
           g == NewRun(source, 1, 0)
<1>1. s[1] = op /\ Head(s) = op /\ ~op.inc_src
  <2>1. (interrupt = "Brk") = FALSE
    OBVIOUS
  <2>2. LET a == ReadOp("Pc", "None", interrupt = "Brk") IN s[1] = a /\ Head(s) = a
    BY DEF EmitInt
  <2>3. s[1] = op /\ Head(s) = op
    BY ONLY <2>1, <2>2, Zenon DEF op
  <2>4. ~op.inc_src
    BY DEF ReadOp, Op
  <2>5. QED
    BY <2>3, <2>4
<1>2. /\ current_opcode' = 0 /\ current_inst' = inst /\ run' = g
      /\ ucycs' = Pop(PushAll(EmptyTape, s))
  BY <1>1 DEF StartInterrupt
<1>3. inst \in Instruction /\ Kind(inst) = "Brk" /\ 0 \in Opcode
      /\ inst.address_mode = PlainMode("Brk") /\ inst.memory_action = "Read"
  BY DecodeAssumption DEF Kind, PlainMode
<1>4. Plain(inst, "Brk")
  BY <1>3 DEF Plain, PlainMode, OffsetType, MemoryAction
<1>5. Started(0, inst, source)
  BY <1>3 DEF Started
<1>6. Fresh(inst, source, s)
  BY <1>4, BrkFresh
<1>7. TapeOK(PushAll(EmptyTape, s)) /\ Size(s) = 6
  BY EmitIntWell, PushOK DEF Size
<1>8. Shape(op, "Pc", TRUE, FALSE, "None", "None")
  BY Shapes DEF Latch
<1>9. AdvanceOf[op] = 0 /\ MovedOf[op] = 0 /\ WritesOf[op] = 0
  <2>1. "Pc" \in Latch /\ "None" \in Latch
    BY DEF Latch
  <2>2. QED
    BY <2>1, OpWeights
<1>10. PICK no \in BOOLEAN : ~no
  OBVIOUS
<1>11. Does(h, g, op, no, no, no)
  BY <1>9, <1>10 DEF Does, NewRun, RunType, MaxCycles
<1> HIDE DEF s, op, inst, h, g
<1>12. s \in Seq(MicroOp) /\ Len(s) <= 7 /\ s # << >> /\ Len(s) > 1
  <2>1. s \in Seq(MicroOp) /\ Len(s) <= 7
    BY <1>6 DEF Fresh
  <2>2. Len(s) > 1
    BY <1>7 DEF Size
  <2>3. QED
    BY <2>1, <2>2, EmptySeq
<1>13. PushAll(EmptyTape, s).todo = s
  BY <1>12, ConcatEmptySeq DEF PushAll, EmptyTape
<1>14. ~IsEmpty(PushAll(EmptyTape, s))
  BY <1>12, <1>13 DEF IsEmpty
<1>15. ucycs'.todo = Tail(s)
  BY <1>2, <1>7, <1>13, <1>14, PopTodo
<1>16. Tail(s) # << >>
  <2>1. Len(Tail(s)) = Len(s) - 1 /\ Len(s) \in Nat
    BY <1>12, HeadTailProperties, LenProperties
  <2>2. Len(Tail(s)) > 0
    BY <1>12, <2>1
  <2>3. QED
    BY <2>2, EmptySeq
<1>17. \A extra : Running(0, inst, h, s, extra)
  <2>1. FetchCycle(source) = 0
    BY DEF FetchCycle
  <2>2. QED
    BY <1>5, <1>6, <2>1, FreshRuns DEF h
<1>18. \A extra : Running(0, inst, g, Tail(s), extra)
  <2> TAKE extra
  <2>1. Running(0, inst, h, s, extra)
    BY <1>17
  <2>2. Does(h, g, s[1], no, no, no)
    BY <1>1, <1>11
  <2>3. s[1].alu.op \notin {"OffsetWithExtraCycle", "Branch", "Jam"}
    BY <1>1, <1>8 DEF Shape
  <2>4. (no <=> Tail(s) = << >>) /\ (no => s[1].alu.op = "FixPtr")
    BY <1>10, <1>16
  <2>5. QED
    BY ONLY <1>10, <1>12, <2>1, <2>2, <2>3, <2>4, PlainRuns, Zenon
<1>19. Running(current_opcode', current_inst', run', ucycs'.todo, extra_adc_sbc_cycle')
  BY ONLY <1>2, <1>15, <1>18, Zenon
<1>20. QED
  BY <1>19, StillUnderWay

LEMMA PoweredHistory == ASSUME Powered PROVE HistoryInv
<1>1. current_inst = NoInst /\ run = NewRun("none", 0, 0)
  BY DEF Powered
<1>2. run.cycles = 0
  BY <1>1 DEF NewRun
<1>3. QED
  BY <1>1, <1>2 DEF HistoryInv, MaxCycles

LEMMA InitHistory == Init => HistoryInv
BY PoweredHistory DEF Init

LEMMA ResetHistory == ASSUME Reset PROVE HistoryInv'
<1>1. current_inst' = NoInst /\ run' = NewRun("none", 0, 0)
  BY DEF Reset
<1>2. run'.cycles = 0
  BY <1>1 DEF NewRun
<1>3. QED
  BY <1>1, <1>2 DEF HistoryInv, MaxCycles

\* The extra cycle of a decimal ADC or SBC is counted once.
LEMMA DecimalHistory ==
    ASSUME IInv, HistoryInv, NEW lines \in Lines, DecimalCycle(lines) PROVE HistoryInv'
<1> DEFINE s == ucycs.todo
           opcode == current_opcode
           inst == current_inst
           g == run'
<1>1. /\ inst # NoInst /\ s = << >> /\ ~extra_adc_sbc_cycle /\ run \in RunType
      /\ UNCHANGED << ucycs, current_inst, current_opcode >> /\ extra_adc_sbc_cycle' = TRUE
      /\ inst.mnemonic \in {"Adc", "Sbc"}
  BY DEF DecimalCycle, AtBoundary, IsEmpty, DecimalInstruction, IInv
<1>2. Running(opcode, inst, run, s, extra_adc_sbc_cycle)
  BY <1>1, UnderWay
<1>3. g = [run EXCEPT !.cycles = @ + 1]
  BY DEF DecimalCycle
<1>4. /\ g \in RunType /\ g.source = run.source /\ g.cycles = run.cycles + 1
      /\ g.advance = run.advance /\ g.moved = run.moved /\ g.writes = run.writes
      /\ g.retired = run.retired /\ g.crossed = run.crossed /\ g.taken = run.taken
  BY <1>1, <1>3 DEF RunType
<1>5. Kind(inst) \in ModeKinds8 /\ inst.address_mode.cycles \in 0..8
  BY <1>2, StartedFacts DEF Running
<1>6. Kind(inst) # "Jam"
  <2>1. JamEnds(s) => Len(s) >= 2
    BY DEF JamEnds
  <2>2. Len(s) = 0
    BY <1>1, EmptySeq
  <2>3. QED
    BY <1>2, <2>1, <2>2 DEF Running, OnTime
<1>7. ~Pending(s, "OffsetWithExtraCycle") /\ ~Pending(s, "Branch")
  BY <1>1, EmptyPending
<1> DEFINE n == CyclesOf(inst, run.source, run.crossed, run.taken)
<1>8. run.cycles = n
  <2>1. run.cycles + Len(s) = n
    BY <1>1, <1>2, <1>6, <1>7 DEF Running, OnTime
  <2>2. Len(s) = 0 /\ run.cycles \in Nat
    BY <1>1, EmptySeq DEF RunType
  <2>3. QED
    BY <2>1, <2>2
<1>9. n \in 0..8
  BY <1>5, <1>6, CyclesBound
<1> HIDE DEF n, g, s, opcode, inst
<1>10. g.cycles <= MaxCycles
  BY <1>4, <1>8, <1>9 DEF MaxCycles
<1>11. CyclesOf(inst, g.source, g.crossed, g.taken) = n
  BY ONLY <1>4, Zenon DEF n
<1>12. OnTime(inst, g, s, TRUE)
  BY <1>1, <1>4, <1>6, <1>7, <1>8, <1>11 DEF OnTime
<1>13. Conserved(inst, g, s) /\ RetiredOnce(inst, g, s)
  BY <1>2, <1>4 DEF Running, Conserved, RetiredOnce
<1>14. Running(opcode, inst, g, s, TRUE)
  BY <1>2, <1>4, <1>10, <1>12, <1>13 DEF Running
<1>15. Running(current_opcode', current_inst', run', ucycs'.todo, extra_adc_sbc_cycle')
  BY <1>1, <1>14 DEF opcode, inst, g, s
<1>16. QED
  BY <1>15, StillUnderWay

LEMMA StepHistory == ASSUME IInv, HistoryInv, NEW lines \in Lines, StepWith(lines) PROVE HistoryInv'
<1>1. CASE Stall(lines)
  BY <1>1 DEF Stall, cpuVars, HistoryInv
<1>2. CASE FirstFetch(lines)
  <2>1. ucycs = EmptyTape
    BY <1>2 DEF FirstFetch, IInv, QueueInv
  <2>2. PICK opcode \in Opcode : FetchAndPrepare(opcode)
    BY <1>2 DEF FirstFetch
  <2>3. QED
    BY <2>1, <2>2, FetchHistory
<1>3. CASE Execute(lines)
  BY <1>3, ExecuteHistory
<1>4. CASE DecimalCycle(lines)
  BY <1>4, DecimalHistory
<1>5. CASE ServiceNmi(lines)
  <2>1. Poll(lines) /\ StartInterrupt("Nmi", "nmi")
    BY <1>5 DEF ServiceNmi
  <2>2. ucycs = EmptyTape
    BY <2>1, PollFacts
  <2>3. QED
    BY <2>1, <2>2, EntryHistory
<1>6. CASE ServiceIrq(lines)
  <2>1. Poll(lines) /\ StartInterrupt("Irq", "irq")
    BY <1>6 DEF ServiceIrq
  <2>2. ucycs = EmptyTape
    BY <2>1, PollFacts
  <2>3. QED
    BY <2>1, <2>2, EntryHistory
<1>7. CASE FetchNext(lines)
  <2>1. Poll(lines)
    BY <1>7 DEF FetchNext
  <2>2. PICK opcode \in Opcode : FetchAndPrepare(opcode)
    BY <1>7 DEF FetchNext
  <2>3. ucycs = EmptyTape
    BY <2>1, PollFacts
  <2>4. QED
    BY <2>2, <2>3, FetchHistory
<1>8. QED
  BY <1>1, <1>2, <1>3, <1>4, <1>5, <1>6, <1>7 DEF StepWith

LEMMA NextHistory == IInv /\ HistoryInv /\ [Next]_vars => HistoryInv'
<1> SUFFICES ASSUME IInv, HistoryInv, [Next]_vars PROVE HistoryInv'
  OBVIOUS
<1>1. CASE Step
  BY <1>1, StepHistory DEF Step
<1>2. CASE Reset
  BY <1>2, ResetHistory
<1>3. CASE UNCHANGED vars
  BY <1>3 DEF vars, cpuVars, nmiVars, HistoryInv
<1>4. QED
  BY <1>1, <1>2, <1>3 DEF Next

LEMMA HistoryKept == Spec => [](IInv /\ HistoryInv)
BY InitIInv, NextIInv, InitHistory, NextHistory, PTL DEF Spec

-----------------------------------------------------------------------------
(* What holds of every state.                                              *)

\* A queue all of whose ops weigh something of one sign weighs something of that sign.
LEMMA FromSign ==
    ASSUME NEW w \in [MicroOp -> Int], NEW s \in Seq(MicroOp)
    PROVE  /\ (\A i \in 1..Len(s) : w[s[i]] >= 0) => From(w, s, 1) >= 0
           /\ (\A i \in 1..Len(s) : w[s[i]] <= 0) => From(w, s, 1) <= 0
<1> DEFINE a == At(w, s, 1)
           b == At(w, s, 2)
           c == At(w, s, 3)
           d == At(w, s, 4)
           e == At(w, s, 5)
           f == At(w, s, 6)
           g == At(w, s, 7)
<1>1. From(w, s, 1) = a + b + c + d + e + f + g
  BY DEF From
<1>2. a \in Int /\ b \in Int /\ c \in Int /\ d \in Int /\ e \in Int /\ f \in Int /\ g \in Int
  BY AtInt
<1>3. (\A i \in 1..Len(s) : w[s[i]] >= 0) => \A i : At(w, s, i) >= 0
  BY DEF At
<1>4. (\A i \in 1..Len(s) : w[s[i]] <= 0) => \A i : At(w, s, i) <= 0
  BY DEF At
<1>5. ASSUME \A i \in 1..Len(s) : w[s[i]] >= 0 PROVE From(w, s, 1) >= 0
  <2>1. a >= 0 /\ b >= 0 /\ c >= 0 /\ d >= 0 /\ e >= 0 /\ f >= 0 /\ g >= 0
    BY <1>3, <1>5
  <2> HIDE DEF a, b, c, d, e, f, g
  <2>2. QED
    BY ONLY <1>1, <1>2, <2>1
<1>6. ASSUME \A i \in 1..Len(s) : w[s[i]] <= 0 PROVE From(w, s, 1) <= 0
  <2>1. a <= 0 /\ b <= 0 /\ c <= 0 /\ d <= 0 /\ e <= 0 /\ f <= 0 /\ g <= 0
    BY <1>4, <1>6
  <2> HIDE DEF a, b, c, d, e, f, g
  <2>2. QED
    BY ONLY <1>1, <1>2, <2>1
<1>7. QED
  BY <1>5, <1>6

\* What the tables say an instruction amounts to is within the bounds of Run.
LEMMA TableBounds ==
    ASSUME NEW opcode, NEW inst, NEW source, Started(opcode, inst, source)
    PROVE  /\ PlannedAdvance(inst, source) \in 0..3
           /\ BytesPushed(inst) \in -3..3
           /\ WriteCycles(inst) \in 0..3
<1>1. inst.memory_action \in MemoryAction /\ inst.address_mode.bytes \in 0..3
  BY StartedFacts DEF AddressMode
<1>2. \A k \in DOMAIN Operands : Operands[k] \in 0..2
  BY DEF Operands
<1>3. PlannedAdvance(inst, source) \in 0..3
  BY <1>1, <1>2 DEF PlannedAdvance
<1>4. BytesPushed(inst) \in -3..3
  BY DEF BytesPushed, ByAction
<1>5. WriteCycles(inst) \in 0..3
  BY <1>4 DEF WriteCycles, ByAction
<1>6. QED
  BY <1>3, <1>4, <1>5

\* What has been done is bounded by what will have been done.
LEMMA RunBounds ==
    ASSUME NEW opcode, NEW inst, NEW h, NEW s, NEW extra, Running(opcode, inst, h, s, extra),
           h \in RunType, s \in Seq(MicroOp)
    PROVE  h.advance \in 0..3 /\ h.moved \in -3..3 /\ h.writes \in 0..3 /\ h.retired \in 0..1
<1> DEFINE a == From(AdvanceOf, s, 1)
           m == From(MovedOf, s, 1)
           w == From(WritesOf, s, 1)
           pa == PlannedAdvance(inst, h.source)
           bp == BytesPushed(inst)
           wc == WriteCycles(inst)
<1>1. a \in Int /\ m \in Int /\ w \in Int
  BY FromType, WeightFacts
<1>2. Started(opcode, inst, h.source) /\ Conserved(inst, h, s) /\ RetiredOnce(inst, h, s)
      /\ AllInPlace(inst, h.source, s)
  BY DEF Running
<1>3. pa \in 0..3 /\ bp \in -3..3 /\ wc \in 0..3
  BY <1>2, TableBounds
<1>4. \A i \in 1..Len(s) : s[i] \in MicroOp /\ Belongs(inst, h.source, s[i])
  BY <1>2, ElementOfSeq DEF AllInPlace, InPlace
<1>5. a >= 0 /\ w >= 0
  <2>1. \A i \in 1..Len(s) : AdvanceOf[s[i]] >= 0 /\ WritesOf[s[i]] >= 0
    BY <1>4, WeightTypes
  <2>2. QED
    BY <2>1, FromSign, WeightFacts
<1>6. (bp >= 0 => m <= 0) /\ (bp <= 0 => m >= 0)
  <2>1. /\ bp >= 0 => \A i \in 1..Len(s) : MovedOf[s[i]] <= 0
        /\ bp <= 0 => \A i \in 1..Len(s) : MovedOf[s[i]] >= 0
    BY <1>4 DEF Belongs
  <2>2. QED
    BY <2>1, FromSign, WeightFacts
<1>7. /\ h.advance + a = pa /\ h.moved + m = -bp /\ h.writes + w = wc
      /\ h.advance >= 0 /\ h.writes >= 0 /\ (bp >= 0 => h.moved <= 0) /\ (bp <= 0 => h.moved >= 0)
  BY <1>2 DEF Conserved
<1>8. h.advance \in Int /\ h.moved \in Int /\ h.writes \in Int
  BY DEF RunType
<1>9. h.retired \in 0..1
  BY <1>2 DEF RetiredOnce, Extra
<1> HIDE DEF a, m, w, pa, bp, wc
<1>10. h.advance \in 0..3 /\ h.writes \in 0..3
  BY ONLY <1>1, <1>3, <1>5, <1>7, <1>8
<1>11. h.moved \in -3..3
  BY ONLY <1>1, <1>3, <1>6, <1>7, <1>8
<1>12. QED
  BY <1>9, <1>10, <1>11

LEMMA HistoryTypeOK == IInv /\ HistoryInv => TypeOK
<1> SUFFICES ASSUME IInv, HistoryInv PROVE TypeOK
  OBVIOUS
<1>1. StateTypeOK /\ run \in RunType /\ run.cycles <= MaxCycles
  BY DEF IInv, HistoryInv
<1>2. CASE current_inst = NoInst
  <2>1. run = NewRun("none", 0, 0)
    BY <1>2 DEF HistoryInv
  <2>2. run \in Run
    BY <2>1 DEF NewRun, Run, MaxCycles
  <2>3. QED
    BY <1>1, <2>2 DEF TypeOK
<1>3. CASE current_inst # NoInst
  <2>1. Running(current_opcode, current_inst, run, ucycs.todo, extra_adc_sbc_cycle)
    BY <1>3, UnderWay
  <2>2. ucycs.todo \in Seq(MicroOp)
    BY DEF IInv, StateTypeOK, Tape
  <2>3. run.advance \in 0..3 /\ run.moved \in -3..3 /\ run.writes \in 0..3 /\ run.retired \in 0..1
    BY <1>1, <2>1, <2>2, RunBounds
  <2>4. run \in Run
    BY <1>1, <2>3 DEF RunType, Run, MaxCycles
  <2>5. QED
    BY <1>1, <2>4 DEF TypeOK
<1>4. QED
  BY <1>2, <1>3

\* The fields of the core keep their types, and no instruction, entry or jam takes more
\* cycles than are counted, is longer than 3 bytes, moves SP by more than 3, writes more
\* than 3 times or retires twice: step() and reset() in any order, on any lines.
THEOREM TypesKept == Spec => []TypeOK
BY HistoryKept, HistoryTypeOK, PTL

\* An instruction at its boundary has done what it amounts to.
LEMMA BoundaryFacts ==
    ASSUME IInv, HistoryInv, AtBoundary
    PROVE  /\ Started(current_opcode, current_inst, run.source)
           /\ Kind(current_inst) # "Jam"
           /\ run.advance = PlannedAdvance(current_inst, run.source)
           /\ run.moved = -BytesPushed(current_inst)
           /\ run.writes = WriteCycles(current_inst)
           /\ run.retired = Extra(current_inst.address_mode.cycles # 1)
           /\ \/ run.cycles = ExpectedCycles
              \/ extra_adc_sbc_cycle /\ run.cycles = ExpectedCycles + 1
<1> DEFINE s == ucycs.todo
           bp == BytesPushed(current_inst)
           pa == PlannedAdvance(current_inst, run.source)
           wc == WriteCycles(current_inst)
<1>1. current_inst # NoInst /\ s = << >> /\ run \in RunType /\ Len(s) = 0
  BY EmptySeq DEF AtBoundary, IsEmpty, IInv
<1>2. Running(current_opcode, current_inst, run, s, extra_adc_sbc_cycle)
  BY <1>1, UnderWay
<1>3. From(AdvanceOf, s, 1) = 0 /\ From(MovedOf, s, 1) = 0 /\ From(WritesOf, s, 1) = 0
  BY <1>1, FromEmpty, WeightFacts
<1>4. Started(current_opcode, current_inst, run.source)
  BY <1>2 DEF Running
<1>5. pa \in Int /\ bp \in Int /\ wc \in Int
  BY <1>4, TableBounds
<1>6. run.advance + 0 = pa /\ run.moved + 0 = -bp /\ run.writes + 0 = wc
  BY <1>2, <1>3 DEF Running, Conserved
<1>7. run.advance \in Int /\ run.moved \in Int /\ run.writes \in Int /\ run.cycles \in Nat
  BY <1>1 DEF RunType
<1>8. Kind(current_inst) # "Jam"
  BY <1>1, <1>2 DEF Running, OnTime, JamEnds
<1>9. ~Pending(s, "OffsetWithExtraCycle")
  BY <1>1, EmptyPending
<1>10. run.retired = Extra(current_inst.address_mode.cycles # 1)
  BY <1>1, <1>2 DEF Running, RetiredOnce
<1>11. \/ run.cycles + 0 = ExpectedCycles
       \/ extra_adc_sbc_cycle /\ run.cycles = ExpectedCycles + 1
  BY <1>1, <1>2, <1>8, <1>9 DEF Running, OnTime, ExpectedCycles
<1> HIDE DEF s, bp, pa, wc
<1>12. run.advance = pa /\ run.moved = -bp /\ run.writes = wc
  BY ONLY <1>5, <1>6, <1>7
<1>13. run.cycles + 0 = run.cycles
  BY ONLY <1>7
<1>14. QED
  BY <1>4, <1>8, <1>10, <1>11, <1>12, <1>13 DEF pa, bp, wc

\* When an instruction ends, its effects have been applied once, SP has moved by what it
\* pushes and pulls, and it has made the write cycles of its kind: for every flavor, every
\* table of opcodes, whatever stalls, interrupts and resets came before.
THEOREM FootprintIsExact == Spec => []FootprintExact
<1>1. IInv /\ HistoryInv => FootprintExact
  BY BoundaryFacts DEF FootprintExact
<1>2. QED
  BY <1>1, HistoryKept, PTL

LEMMA FrontPush ==
    ASSUME IInv, HistoryInv, ~IsEmpty(ucycs), PushesLatch(FrontOp(ucycs))
    PROVE  /\ Kind(current_inst) \in {"Brk", "ToSubroutine"}
           /\ run.advance = PlannedAdvance(current_inst, run.source)
           /\ run.moved = -Depth(FrontOp(ucycs).local_latch)
<1> DEFINE s == ucycs.todo
           bp == BytesPushed(current_inst)
           pa == PlannedAdvance(current_inst, run.source)
           d == Depth(FrontOp(ucycs).local_latch)
           a == run.advance
           m == run.moved
<1>1. TapeOK(ucycs) /\ run \in RunType /\ current_inst # NoInst
  BY DEF IInv, QueueInv, IsEmpty, EmptyTape
<1>2. s \in Seq(MicroOp) /\ Len(s) \in Nat \ {0} /\ FrontOp(ucycs) = s[1]
  BY <1>1, TapeFacts
<1>3. Running(current_opcode, current_inst, run, s, extra_adc_sbc_cycle)
  BY <1>1, UnderWay
<1>4. InPlace(current_inst, run.source, s, 1)
  BY <1>2, <1>3 DEF Running, AllInPlace
<1>5. /\ Kind(current_inst) \in {"Brk", "ToSubroutine"}
      /\ From(AdvanceOf, s, 1) = 0 /\ From(MovedOf, s, 1) = d - bp
  BY <1>2, <1>4 DEF InPlace
<1>6. run.advance + 0 = pa /\ run.moved + (d - bp) = -bp
  BY <1>3, <1>5 DEF Running, Conserved
<1>7. pa \in Int /\ bp \in Int
  BY <1>3, TableBounds DEF Running
<1>8. run.advance \in Int /\ run.moved \in Int /\ d \in Int
  BY <1>1 DEF RunType, Depth
<1> HIDE DEF s, bp, pa, d, a, m
<1>9. a = pa /\ m = -d
  <2>1. a + 0 = pa /\ m + (d - bp) = -bp
    BY <1>6 DEF a, m
  <2>2. a \in Int /\ m \in Int
    BY <1>8 DEF a, m
  <2>3. QED
    BY ONLY <1>7, <1>8, <2>1, <2>2
<1>10. QED
  BY <1>5, <1>9 DEF pa, d, a, m

LEMMA HistoryReturns == IInv /\ HistoryInv => ReturnAddressExact
<1> DEFINE kind == current_inst.address_mode.kind
           pushes(latch) == ~IsEmpty(ucycs) /\ ~FrontOp(ucycs).bus.read
                            /\ FrontOp(ucycs).local_latch = latch
<1> SUFFICES ASSUME IInv, HistoryInv PROVE ReturnAddressExact
  OBVIOUS
<1>1. ASSUME AtBoundary, kind \in DOMAIN Operands PROVE run.advance = 1 + Operands[kind]
  <2>1. run.advance = PlannedAdvance(current_inst, run.source)
        /\ Started(current_opcode, current_inst, run.source)
    BY <1>1, BoundaryFacts
  <2>2. run.source = "program"
    BY <1>1, <2>1, StartedFacts DEF Kind, Operands
  <2>3. /\ kind \notin {"CmosNop", "JmpAbsolute", "FromInterrupt", "Jam"}
        /\ run.advance = PlannedAdvance(current_inst, "program")
    BY <1>1, <2>1, <2>2 DEF Operands
  <2>4. PlannedAdvance(current_inst, "program") = 1 + Operands[kind]
    BY <1>1, <2>3 DEF PlannedAdvance, Kind
  <2>5. QED
    BY <2>3, <2>4
<1>2. ASSUME AtBoundary, kind = "CmosNop" PROVE run.advance = current_inst.address_mode.bytes
  <2>1. run.advance = PlannedAdvance(current_inst, run.source)
        /\ Started(current_opcode, current_inst, run.source)
    BY <1>2, BoundaryFacts
  <2>2. run.source = "program"
    BY <1>2, <2>1, StartedFacts DEF Kind
  <2>3. kind \notin DOMAIN Operands
    BY <1>2 DEF Operands
  <2>4. QED
    BY <1>2, <2>1, <2>2, <2>3 DEF PlannedAdvance, Kind
<1>3. ASSUME NEW latch \in {"PcHi", "PcLo", "Status", "BrkStatus"}, pushes(latch)
      PROVE  /\ run.advance = IF run.source = "program" THEN 2 ELSE 0
             /\ run.moved = -Depth(latch)
  <2>1. PushesLatch(FrontOp(ucycs)) /\ ~IsEmpty(ucycs)
    BY <1>3 DEF PushesLatch
  <2>2. /\ kind \in {"Brk", "ToSubroutine"}
        /\ run.advance = PlannedAdvance(current_inst, run.source)
        /\ run.moved = -Depth(latch)
    BY <1>3, <2>1, FrontPush DEF Kind
  <2>3. PlannedAdvance(current_inst, run.source) = IF run.source = "program" THEN 2 ELSE 0
    BY <2>2 DEF PlannedAdvance, Kind, Operands
  <2>4. QED
    BY <2>2, <2>3
<1>4. Depth("PcHi") = 0 /\ Depth("PcLo") = 1 /\ Depth("Status") = 2 /\ Depth("BrkStatus") = 2
  BY DEF Depth
<1> HIDE DEF pushes
<1>5. /\ pushes("PcHi") \/ pushes("PcLo") =>
            run.advance = IF run.source = "program" THEN 2 ELSE 0
      /\ pushes("PcHi") => run.moved = 0
      /\ pushes("PcLo") => run.moved = -1
      /\ pushes("Status") \/ pushes("BrkStatus") => run.moved = -2
  BY ONLY <1>3, <1>4
<1>6. QED
  BY <1>1, <1>2, <1>5 DEF ReturnAddressExact, pushes

\* PC advances by the length of each instruction, and the return addresses pushed are the
\* interrupted instruction for IRQ and NMI, the byte after the signature byte for BRK and
\* the last byte of the JSR for JSR, each byte in its place on the stack.
THEOREM ReturnAddressesAreExact == Spec => []ReturnAddressExact
BY HistoryKept, HistoryReturns, PTL

LEMMA HistoryEntries == IInv /\ HistoryInv => EntryKeepsItsSource
<1> SUFFICES ASSUME IInv, HistoryInv, NEW i \in 1..Len(ucycs.todo)
             PROVE  LET op == ucycs.todo[i]
                    IN  /\ op.local_latch = "BrkStatus" => run.source = "program"
                        /\ (op.local_latch = "Status" /\ ~op.bus.read) =>
                              run.source \in {"irq", "nmi"}
                        /\ op.bus.addr \in {"FFFA", "FFFB"} => run.source = "nmi"
                        /\ run.source = "nmi" => op.bus.addr \notin {"FFFE", "FFFF"}
  BY DEF EntryKeepsItsSource
<1>1. current_inst # NoInst
  <2>1. Len(<< >>) = 0
    BY EmptySeq
  <2>2. QED
    BY <2>1 DEF IInv, QueueInv, EmptyTape
<1>2. Belongs(current_inst, run.source, ucycs.todo[i])
  BY <1>1 DEF HistoryInv, AllInPlace, InPlace
<1>3. QED
  BY <1>2 DEF Belongs

\* An interrupt entry and the program's BRK share an instruction but never B, vector or
\* status: B is pushed by the program's BRK only, NMI reads $FFFA and the others $FFFE.
THEOREM EntriesKeepTheirSource == Spec => []EntryKeepsItsSource
BY HistoryKept, HistoryEntries, PTL

-----------------------------------------------------------------------------
(***************************************************************************)
(* The contract: cycle counts and the mask of IRQ, for a host that does    *)
(* not reset the core in the one cycle where a value is kept for the poll. *)
(***************************************************************************)

\* The two values that are kept from an instruction for the poll at its end are there only
\* at that boundary, and there they belong to the instruction that just ended.
CleanInv ==
    /\ extra_adc_sbc_cycle =>
          AtBoundary /\ DecimalInstruction /\ run.cycles = ExpectedCycles + 1
    /\ old_i # "none" =>
          /\ AtBoundary /\ run.source = "program"
          /\ current_inst.mnemonic \in {"Cli", "Sei", "Plp"}
          /\ current_inst.mnemonic = "Cli" => "I" \notin p
    /\ current_inst = NoInst => "I" \in p

AllInv == IInv /\ HistoryInv /\ CleanInv
CleanNext == Step \/ CleanReset

-----------------------------------------------------------------------------
(* One micro-op, and what it does to the status.                           *)

\* The instruction under way, from its table row.
LEMMA InstFacts ==
    ASSUME IInv, HistoryInv, current_inst # NoInst
    PROVE  LET inst == current_inst
               kind == inst.address_mode.kind
           IN  /\ run.source \in {"program", "irq", "nmi"}
               /\ run.source \in {"irq", "nmi"} => kind = "Brk"
               /\ kind = "Brk" <=> inst.mnemonic = "Brk"
               /\ kind = "CmosNop" => inst.mnemonic = "Nop"
               /\ kind # "CmosNop" => inst.address_mode.cycles = 0
               /\ inst.mnemonic = "Plp" => kind = "Stack" /\ inst.memory_action = "Read"
               /\ inst.mnemonic \in {"Cli", "Sei"} => kind = "Implied"
<1>1. Running(current_opcode, current_inst, run, ucycs.todo, extra_adc_sbc_cycle)
  BY UnderWay
<1>2. Started(current_opcode, current_inst, run.source)
  BY <1>1 DEF Running
<1>3. /\ ControlFacts(F, current_opcode, current_inst)
      /\ run.source \in {"program", "irq", "nmi"}
      /\ run.source # "program" => Kind(current_inst) = "Brk"
  BY <1>2, StartedFacts
<1>4. QED
  BY <1>3 DEF ControlFacts, Kind

\* Only RTI pulls a status before its end, and never with its last op.
LEMMA ExecuteFacts ==
    ASSUME IInv, HistoryInv, NEW lines \in Lines, Execute(lines)
    PROVE  /\ current_inst # NoInst /\ ~IsEmpty(ucycs) /\ run'.source = run.source
           /\ UNCHANGED << current_inst, current_opcode, extra_adc_sbc_cycle >>
           /\ SampleNmi(lines)
           /\ old_i' = IF IsEmpty(ucycs') /\ SavesOldI
                       THEN (IF "I" \in p THEN "set" ELSE "clear") ELSE old_i
           /\ \E status, pulled :
                 /\ p' = IF IsEmpty(ucycs') THEN Finished(status, pulled) ELSE status
                 /\ IsEmpty(ucycs') \/ Kind(current_inst) # "FromInterrupt" => status = p
<1> DEFINE op == FrontOp(ucycs)
           s == ucycs.todo
<1>1. PICK crossed \in Crossings(op), taken \in BranchOutcomes(op), pulled \in PulledStatus(op) :
          ExecuteMicroOp(op, crossed, taken, pulled)
  BY DEF Execute
<1>2. /\ current_inst # NoInst /\ ~IsEmpty(ucycs) /\ TapeOK(ucycs) /\ run \in RunType
      /\ UNCHANGED << current_inst, current_opcode, extra_adc_sbc_cycle >>
      /\ SampleNmi(lines)
  BY DEF Execute, IInv, QueueInv
<1>3. /\ op = s[1] /\ op \in MicroOp /\ s \in Seq(MicroOp) /\ Len(s) \in Nat \ {0}
  BY <1>2, TapeFacts
<1>4. run'.source = run.source
  <2>1. run' = Counted(op, crossed, taken, IsEmpty(ucycs'))
    BY <1>1 DEF ExecuteMicroOp
  <2>2. IsEmpty(ucycs') \in BOOLEAN /\ crossed \in BOOLEAN /\ taken \in BOOLEAN
    BY DEF IsEmpty, Crossings, BranchOutcomes
  <2>3. QED
    BY <1>2, <1>3, <2>1, <2>2, CountedFacts
<1>5. InPlace(current_inst, run.source, s, 1)
  BY <1>2, <1>3 DEF HistoryInv, AllInPlace
<1> DEFINE pulls == op.bus.read /\ op.local_latch = "Status"
           status == IF pulls THEN pulled ELSE p
<1>6. ASSUME pulls PROVE Kind(current_inst) = "FromInterrupt" /\ ~IsEmpty(ucycs')
  <2>1. Kind(current_inst) = "FromInterrupt" /\ 1 < Len(s)
    BY <1>3, <1>5, <1>6 DEF InPlace, Belongs
  <2>2. op.alu.op \notin {"Jam", "Branch", "OffsetWithExtraCycle", "FixPtr"}
    BY <1>3, <1>5, <2>1 DEF InPlace, Belongs, Indexed
  <2>3. ucycs' = AfterAlu(op, Pop(ucycs), crossed, taken)
    BY <1>1 DEF ExecuteMicroOp
  <2>4. ucycs'.todo = Tail(s)
    BY <1>2, <2>2, <2>3, QueueAfter
  <2>5. Len(Tail(s)) = Len(s) - 1
    BY <1>2, <1>3, HeadTailProperties DEF IsEmpty
  <2> DEFINE m == Len(s)
             n == Len(Tail(s))
  <2>6. n > 0
    <3>1. n = m - 1 /\ m \in Nat /\ 1 < m
      BY <1>3, <2>1, <2>5
    <3> HIDE DEF m, n
    <3>2. QED
      BY ONLY <3>1
  <2>7. Tail(s) # << >>
    <3>1. Len(<< >>) = 0
      BY EmptySeq
    <3>2. Tail(s) = << >> => n = 0
      BY ONLY <3>1, Zenon DEF n
    <3> HIDE DEF n, s
    <3>3. QED
      BY ONLY <2>6, <3>2
  <2>8. QED
    BY <2>1, <2>4, <2>7 DEF IsEmpty
<1>7. p' = IF IsEmpty(ucycs') THEN Finished(status, pulled) ELSE status
  BY <1>1 DEF ExecuteMicroOp
<1>8. old_i' = IF IsEmpty(ucycs') /\ SavesOldI
               THEN (IF "I" \in p THEN "set" ELSE "clear") ELSE old_i
  BY <1>1 DEF ExecuteMicroOp
<1>9. IsEmpty(ucycs') \/ Kind(current_inst) # "FromInterrupt" => status = p
  BY <1>6
<1>10. QED
  BY <1>2, <1>4, <1>7, <1>8, <1>9

-----------------------------------------------------------------------------
(* The invariant of such a host.                                           *)

LEMMA InitClean == Init => CleanInv
BY DEF Init, Powered, CleanInv

LEMMA ExecuteClean ==
    ASSUME AllInv, NEW lines \in Lines, Execute(lines) PROVE CleanInv'
<1>0. IInv /\ HistoryInv /\ CleanInv
  BY DEF AllInv
<1>1. PICK status, pulled :
         /\ p' = IF IsEmpty(ucycs') THEN Finished(status, pulled) ELSE status
         /\ IsEmpty(ucycs') \/ Kind(current_inst) # "FromInterrupt" => status = p
  BY <1>0, ExecuteFacts
<1>2. /\ current_inst # NoInst /\ ~IsEmpty(ucycs) /\ run'.source = run.source
      /\ UNCHANGED << current_inst, extra_adc_sbc_cycle >>
      /\ old_i' = IF IsEmpty(ucycs') /\ SavesOldI
                  THEN (IF "I" \in p THEN "set" ELSE "clear") ELSE old_i
  BY <1>0, ExecuteFacts
<1>3. ~extra_adc_sbc_cycle /\ old_i = "none"
  BY <1>0, <1>2 DEF CleanInv, AtBoundary
<1>4. ASSUME old_i' # "none"
      PROVE  /\ AtBoundary' /\ run'.source = "program"
             /\ current_inst'.mnemonic \in {"Cli", "Sei", "Plp"}
             /\ current_inst'.mnemonic = "Cli" => "I" \notin p'
  <2>1. IsEmpty(ucycs') /\ SavesOldI
    BY <1>2, <1>3, <1>4
  <2>2. current_inst.mnemonic \in {"Cli", "Sei", "Plp"}
    BY <2>1 DEF SavesOldI
  <2>3. run.source = "program"
    BY <1>0, <1>2, <2>2, InstFacts
  <2>4. current_inst.mnemonic = "Cli" => "I" \notin p'
    <3>1. current_inst.mnemonic = "Cli" => current_inst.address_mode.kind = "Implied"
      BY <1>0, <1>2, InstFacts
    <3>2. p' = Finished(status, pulled)
      BY <1>1, <2>1
    <3>3. QED
      BY <3>1, <3>2 DEF Finished, FinishImplied
  <2>5. QED
    BY <1>2, <2>1, <2>2, <2>3, <2>4 DEF AtBoundary
<1>5. QED
  BY <1>2, <1>3, <1>4 DEF CleanInv

LEMMA DecimalClean ==
    ASSUME AllInv, NEW lines \in Lines, DecimalCycle(lines) PROVE CleanInv'
<1>0. IInv /\ HistoryInv /\ CleanInv
  BY DEF AllInv
<1>1. /\ AtBoundary /\ DecimalInstruction /\ ~extra_adc_sbc_cycle
      /\ UNCHANGED << ucycs, current_inst, current_opcode, p, old_i >>
      /\ run' = [run EXCEPT !.cycles = @ + 1] /\ run \in RunType
  BY <1>0 DEF DecimalCycle, IInv
<1>2. /\ run'.source = run.source /\ run'.cycles = run.cycles + 1
      /\ run'.crossed = run.crossed /\ run'.taken = run.taken
  BY <1>1 DEF RunType
<1>3. run.cycles = ExpectedCycles
  BY <1>0, <1>1, BoundaryFacts
<1>4. ExpectedCycles' = ExpectedCycles
  BY ONLY <1>1, <1>2, Zenon DEF ExpectedCycles
<1>5. AtBoundary' /\ DecimalInstruction'
  BY <1>1 DEF AtBoundary, DecimalInstruction
<1>6. run'.cycles = ExpectedCycles' + 1
  BY <1>2, <1>3, <1>4
<1>7. current_inst' # NoInst
  BY <1>1 DEF AtBoundary
<1>8. old_i # "none" =>
          /\ AtBoundary /\ run.source = "program"
          /\ current_inst.mnemonic \in {"Cli", "Sei", "Plp"}
          /\ current_inst.mnemonic = "Cli" => "I" \notin p
  BY <1>0 DEF CleanInv
<1>9. QED
  BY <1>1, <1>2, <1>5, <1>6, <1>7, <1>8 DEF CleanInv

\* A poll leaves nothing behind.
LEMMA PollClean ==
    ASSUME IInv', extra_adc_sbc_cycle' = FALSE, old_i' = "none", current_inst' # NoInst
    PROVE  CleanInv'
BY DEF CleanInv

LEMMA StepClean == ASSUME AllInv, NEW lines \in Lines, StepWith(lines) PROVE CleanInv'
<1>0. IInv /\ HistoryInv /\ CleanInv
  BY DEF AllInv
<1>1. CASE Stall(lines)
  BY <1>0, <1>1 DEF Stall, cpuVars, CleanInv, AtBoundary, DecimalInstruction, ExpectedCycles
<1>2. CASE FirstFetch(lines)
  <2>1. current_inst = NoInst /\ UNCHANGED << extra_adc_sbc_cycle, old_i >>
    BY <1>2 DEF FirstFetch
  <2>2. ~extra_adc_sbc_cycle /\ old_i = "none"
    BY <1>0, <2>1 DEF CleanInv, AtBoundary
  <2>3. PICK opcode \in Opcode : FetchAndPrepare(opcode)
    BY <1>2 DEF FirstFetch
  <2>4. current_inst' # NoInst
    BY <2>3, DecodedFacts DEF FetchAndPrepare
  <2>5. QED
    BY <2>1, <2>2, <2>4 DEF CleanInv
<1>3. CASE Execute(lines)
  BY <1>3, ExecuteClean
<1>4. CASE DecimalCycle(lines)
  BY <1>4, DecimalClean
<1>5. CASE ServiceNmi(lines) \/ ServiceIrq(lines) \/ FetchNext(lines)
  <2>1. extra_adc_sbc_cycle' = FALSE /\ old_i' = "none"
    BY <1>5 DEF ServiceNmi, ServiceIrq, FetchNext, Poll
  <2>2. \E opcode \in Opcode : current_inst' = Decode[opcode]
    BY <1>5, DecodeAssumption DEF ServiceNmi, ServiceIrq, FetchNext, StartInterrupt, FetchAndPrepare
  <2>3. current_inst' # NoInst
    BY <2>2, DecodedFacts
  <2>4. QED
    BY <2>1, <2>3 DEF CleanInv
<1>6. QED
  BY <1>1, <1>2, <1>3, <1>4, <1>5 DEF StepWith

LEMMA CleanNextIsNext == [CleanNext]_vars => [Next]_vars
BY DEF CleanNext, CleanReset, Next

LEMMA NextClean == AllInv /\ [CleanNext]_vars => AllInv'
<1> SUFFICES ASSUME AllInv, [CleanNext]_vars PROVE AllInv'
  OBVIOUS
<1>0. IInv /\ HistoryInv /\ CleanInv
  BY DEF AllInv
<1>1. IInv' /\ HistoryInv'
  BY <1>0, CleanNextIsNext, NextIInv, NextHistory
<1>2. CASE Step
  BY <1>1, <1>2, StepClean DEF Step, AllInv
<1>3. CASE CleanReset
  BY <1>1, <1>3 DEF CleanReset, Reset, CleanInv, AllInv
<1>4. CASE UNCHANGED vars
  <2>1. CleanInv'
    BY <1>0, <1>4 DEF vars, cpuVars, CleanInv, AtBoundary, DecimalInstruction, ExpectedCycles
  <2>2. QED
    BY <1>1, <2>1 DEF AllInv
<1>5. QED
  BY <1>2, <1>3, <1>4 DEF CleanNext

LEMMA InitAll == Init => AllInv
BY InitIInv, InitHistory, InitClean DEF AllInv

LEMMA CleanKept == CleanSpec => []AllInv
<1>1. AllInv /\ [Step \/ CleanReset]_vars => AllInv'
  BY NextClean DEF CleanNext
<1>2. QED
  BY <1>1, InitAll, PTL DEF CleanSpec

-----------------------------------------------------------------------------
(* Timing.                                                                 *)

\* Only a CMOS one-cycle no-op is over with its fetch.
LEMMA AtLeastTwo ==
    ASSUME NEW inst, NEW source, NEW crossed, NEW taken,
           Kind(inst) \in ModeKinds8 \ {"Jam", "CmosNop"},
           inst.memory_action \in MemoryAction, source \in {"program", "irq", "nmi"},
           Kind(inst) = "Stack" => inst.memory_action # "ReadModifyWrite"
    PROVE  CyclesOf(inst, source, crossed, taken) # 1
<1> DEFINE n == CyclesOf(inst, source, crossed, taken)
<1>1. ByAction(inst, 0, 0, 2) \in 0..2 /\ ByAction(inst, 4, 3, 0) \in 0..4
  BY DEF ByAction
<1>2. \A condition : Extra(condition) \in 0..1
  BY DEF Extra
<1>3. \A base \in {4, 5} : IndexedCycles(inst, base, crossed) \in base..(base + 3)
  BY DEF IndexedCycles, ByAction, Extra
<1>4. ByAction(inst, 4, 3, 0) # 1
  BY DEF ByAction
<1> SUFFICES n # 1
  OBVIOUS
<1>5. QED
  BY <1>1, <1>2, <1>3, <1>4 DEF CyclesOf, Kind, ModeKinds8

LEMMA ShortInstruction ==
    ASSUME IInv, HistoryInv, AtBoundary, ExpectedCycles = 1 PROVE ~DecimalInstruction
<1>1. Started(current_opcode, current_inst, run.source) /\ Kind(current_inst) # "Jam"
  BY BoundaryFacts
<1>2. /\ Kind(current_inst) \in ModeKinds8 /\ current_inst.memory_action \in MemoryAction
      /\ run.source \in {"program", "irq", "nmi"}
  BY <1>1, StartedFacts
<1>3. Emittable(F, current_inst.address_mode, current_inst.memory_action)
  BY <1>1, DecodeAssumption DEF Started
<1>4. Kind(current_inst) = "Stack" => current_inst.memory_action # "ReadModifyWrite"
  BY <1>3 DEF Emittable, Kind
<1>5. Kind(current_inst) = "CmosNop"
  BY <1>1, <1>2, <1>4, AtLeastTwo DEF ExpectedCycles
<1>6. current_inst.mnemonic = "Nop"
  BY <1>5, InstFacts DEF AtBoundary, Kind
<1>7. QED
  BY <1>6 DEF DecimalInstruction

TimingStep ==
    LeavesBoundary => run.cycles = ExpectedCycles + Extra(DecimalInstruction)

LEMMA NextTiming == AllInv /\ [CleanNext]_vars => TimingStep
<1> SUFFICES ASSUME AllInv, [CleanNext]_vars, AtBoundary, run'.cycles = 1
             PROVE  run.cycles = ExpectedCycles + Extra(DecimalInstruction)
  BY DEF TimingStep, LeavesBoundary
<1>0. IInv /\ HistoryInv /\ CleanInv
  BY DEF AllInv
<1>1. \/ run.cycles = ExpectedCycles
      \/ extra_adc_sbc_cycle /\ run.cycles = ExpectedCycles + 1
  BY <1>0, BoundaryFacts
<1>2. run.cycles \in Nat /\ run.cycles > 0 /\ run \in RunType /\ current_inst # NoInst
      /\ ~(~IsEmpty(ucycs))
  BY <1>0 DEF IInv, RunType, SourceInv, AtBoundary
<1>3. CASE extra_adc_sbc_cycle
  BY <1>0, <1>3 DEF CleanInv, Extra
<1>4. CASE ~extra_adc_sbc_cycle
  <2>1. run.cycles = ExpectedCycles
    BY <1>1, <1>4
  <2>2. ~DecimalInstruction
    <3>1. ASSUME NEW lines \in Lines, StepWith(lines) PROVE ~DecimalInstruction
      <4>1. CASE Stall(lines)
        BY <1>0, <2>1, <4>1, ShortInstruction DEF Stall
      <4>2. CASE DecimalCycle(lines)
        <5>1. run'.cycles = run.cycles + 1
          BY <1>2, <4>2 DEF DecimalCycle, RunType
        <5>2. QED
          BY <1>2, <5>1
      <4>3. CASE ServiceNmi(lines) \/ ServiceIrq(lines) \/ FetchNext(lines)
        BY <1>4, <4>3 DEF ServiceNmi, ServiceIrq, FetchNext, Poll
      <4>4. CASE FirstFetch(lines) \/ Execute(lines)
        BY <1>2, <4>4 DEF FirstFetch, Execute
      <4>5. QED
        BY <3>1, <4>1, <4>2, <4>3, <4>4 DEF StepWith
    <3>2. CASE Step
      BY <3>1, <3>2 DEF Step
    <3>3. CASE CleanReset
      BY <3>3 DEF CleanReset, Reset, NewRun
    <3>4. CASE UNCHANGED vars
      BY <1>0, <2>1, <3>4, ShortInstruction DEF vars
    <3>5. QED
      BY <3>2, <3>3, <3>4 DEF CleanNext
  <2>3. QED
    BY <1>2, <2>1, <2>2 DEF Extra
<1>5. QED
  BY <1>3, <1>4

\* Every instruction of every flavor takes the cycles of its addressing mode, one more for
\* a crossed page or a taken branch where that chip has the penalty and one for CMOS
\* decimal ADC and SBC, however many stalls and interrupts there were: as long as the host
\* does not reset the core in the extra cycle itself.
THEOREM TimingIsExact == CleanSpec => TimingExact
<1>1. AllInv /\ [Step \/ CleanReset]_vars => [TimingStep]_vars
  BY NextTiming DEF CleanNext
<1>2. QED
  BY <1>1, CleanKept, PTL DEF CleanSpec, TimingExact, TimingStep

-----------------------------------------------------------------------------
(* The mask of IRQ.                                                        *)

MaskStep ==
    LeavesBoundary /\ run'.source = "irq" /\ "I" \in p =>
        run.source = "program" /\ current_inst.mnemonic \in {"Sei", "Plp"}

LEMMA NextMask == AllInv /\ [CleanNext]_vars => MaskStep
<1> SUFFICES ASSUME AllInv, [CleanNext]_vars, AtBoundary, run'.cycles = 1,
                    run'.source = "irq", "I" \in p
             PROVE  run.source = "program" /\ current_inst.mnemonic \in {"Sei", "Plp"}
  BY DEF MaskStep, LeavesBoundary
<1>0. IInv /\ HistoryInv /\ CleanInv
  BY DEF AllInv
<1>1. run.cycles \in Nat /\ run.cycles > 0 /\ run \in RunType /\ current_inst # NoInst
      /\ IsEmpty(ucycs)
  BY <1>0 DEF IInv, RunType, SourceInv, AtBoundary
<1>2. run.source = "irq" => run.cycles # 1
  <2> SUFFICES ASSUME run.source = "irq" PROVE run.cycles # 1
    OBVIOUS
  <2>1. ExpectedCycles = 6
    BY DEF ExpectedCycles, CyclesOf
  <2>2. QED
    BY <1>0, <2>1, BoundaryFacts
<1>3. ASSUME NEW lines \in Lines, StepWith(lines)
      PROVE  run.source = "program" /\ current_inst.mnemonic \in {"Sei", "Plp"}
  <2>1. CASE Stall(lines)
    BY <1>2, <2>1 DEF Stall
  <2>2. CASE DecimalCycle(lines)
    <3>1. run'.cycles = run.cycles + 1
      BY <1>1, <2>2 DEF DecimalCycle, RunType
    <3>2. QED
      BY <1>1, <3>1
  <2>3. CASE ServiceNmi(lines) \/ FetchNext(lines)
    <3>1. \A source, advance : NewRun(source, 1, advance).source = source
      BY DEF NewRun
    <3>2. run'.source \in {"program", "nmi"}
      BY <2>3, <3>1 DEF ServiceNmi, FetchNext, FetchAndPrepare, StartInterrupt
    <3>3. QED
      BY <3>2
  <2>4. CASE ServiceIrq(lines)
    <3>1. ~IrqDisable
      BY <2>4 DEF ServiceIrq
    <3>2. old_i # "none"
      BY <3>1 DEF IrqDisable
    <3>3. QED
      BY <1>0, <3>2 DEF CleanInv
  <2>5. CASE FirstFetch(lines) \/ Execute(lines)
    BY <1>1, <2>5 DEF FirstFetch, Execute
  <2>6. QED
    BY <1>3, <2>1, <2>2, <2>3, <2>4, <2>5 DEF StepWith
<1>4. CASE Step
  BY <1>3, <1>4 DEF Step
<1>5. CASE CleanReset
  BY <1>5 DEF CleanReset, Reset, NewRun
<1>6. CASE UNCHANGED vars
  BY <1>2, <1>6 DEF vars
<1>7. QED
  BY <1>4, <1>5, <1>6 DEF CleanNext

\* No IRQ is taken while I is set, but straight after a SEI or a PLP of the program, whose
\* new I the poll does not see yet: as long as the host does not reset the core between
\* the end of a CLI, SEI or PLP and that poll.
THEOREM IrqIsMasked == CleanSpec => IrqNeedsClearI
<1>1. AllInv /\ [Step \/ CleanReset]_vars => [MaskStep]_vars
  BY NextMask DEF CleanNext
<1>2. QED
  BY <1>1, CleanKept, PTL DEF CleanSpec, IrqNeedsClearI, MaskStep

-----------------------------------------------------------------------------
(* The interrupt contract, step by step.                                   *)

\* What stands for the variables of InterruptModel that are not the core's own
Phase == IF current_inst = NoInst THEN "idle" ELSE IF AtBoundary THEN "done" ELSE "busy"
Masking == "I" \in p

\* What IrqDisable is without an old I
LEMMA PlainMask ==
    /\ old_i = "none" => IrqDisable = Masking
    /\ old_i' = "none" => IrqDisable' = Masking'
BY DEF IrqDisable, Masking

LEMMA SampleRefines ==
    ASSUME IInv, NEW lines \in Lines, SampleNmi(lines)
    PROVE  lines.nmi \in BOOLEAN /\ Contract!Sample(lines.nmi, FALSE)
<1>1. lines.nmi \in BOOLEAN /\ PendingNmi(lines) \in BOOLEAN
  BY LineTypes DEF IInv, StateTypeOK
<1>2. prev_nmi' = lines.nmi /\ pending_nmi' = PendingNmi(lines)
  BY DEF SampleNmi
<1>3. pending_nmi' = ((pending_nmi \/ (lines.nmi /\ ~prev_nmi)) /\ ~FALSE)
  BY <1>1, <1>2 DEF PendingNmi
<1>4. QED
  BY <1>1, <1>2, <1>3 DEF Contract!Sample

LEMMA InitRefines == Init => Contract!IInit
<1> SUFFICES ASSUME Init PROVE Contract!IInit
  OBVIOUS
<1>1. current_inst = NoInst /\ p = {"I"} /\ old_i = "none" /\ prev_nmi = FALSE
      /\ pending_nmi = FALSE /\ run = NewRun("none", 0, 0)
  BY DEF Init, Powered
<1>2. InstructionKind = "plain"
  BY <1>1 DEF InstructionKind, NoInst, PlainMode, NewRun
<1>3. ("I" \in p) = TRUE /\ IrqDisable = TRUE
  BY <1>1 DEF IrqDisable
<1>4. QED
  BY <1>1, <1>2, <1>3 DEF Contract!IInit

\* A stall, and the extra decimal cycle, pass for waiting.
LEMMA WaitRefines ==
    ASSUME IInv, NEW lines \in Lines, SampleNmi(lines),
           UNCHANGED << ucycs, current_inst, p, old_i >>, run'.source = run.source
    PROVE  Contract!Wait
<1>1. lines.nmi \in BOOLEAN /\ Contract!Sample(lines.nmi, FALSE)
  BY SampleRefines
<1>2. Phase' = Phase /\ InstructionKind' = InstructionKind
  BY DEF Phase, AtBoundary, InstructionKind
<1>3. ("I" \in p)' = ("I" \in p) /\ IrqDisable' = IrqDisable
  BY DEF IrqDisable
<1>4. QED
  BY <1>1, <1>2, <1>3 DEF Contract!Wait, Phase

\* A cycle in the middle of an instruction
LEMMA WorkRefines ==
    ASSUME IInv, HistoryInv, CleanInv, NEW lines \in Lines, Execute(lines), ~IsEmpty(ucycs')
    PROVE  Contract!Work
<1>1. lines.nmi \in BOOLEAN /\ Contract!Sample(lines.nmi, FALSE)
  BY ExecuteFacts, SampleRefines
<1>2. /\ current_inst # NoInst /\ ~IsEmpty(ucycs) /\ run'.source = run.source
      /\ current_inst' = current_inst /\ old_i' = old_i
  BY ExecuteFacts
<1>3. Phase = "busy" /\ Phase' = "busy"
  BY <1>2 DEF Phase, AtBoundary
<1>4. InstructionKind' = InstructionKind
  BY <1>2 DEF InstructionKind
<1>5. old_i' = "none"
  BY <1>2 DEF CleanInv, AtBoundary
<1>6. IrqDisable' = Masking'
  BY <1>5, PlainMask
<1>7. InstructionKind = "return" \/ p' = p
  <2>1. Kind(current_inst) # "FromInterrupt" => p' = p
    BY ExecuteFacts
  <2>2. Kind(current_inst) = "FromInterrupt" => InstructionKind = "return"
    BY <1>2, InstFacts DEF Kind, InstructionKind
  <2>3. QED
    BY <2>1, <2>2
<1>8. Masking' \in BOOLEAN /\ (p' = p => Masking' = Masking)
  BY DEF Masking
<1>9. /\ IF InstructionKind = "return" THEN Masking' \in BOOLEAN ELSE Masking' = Masking
      /\ IrqDisable' = Masking'
  BY <1>6, <1>7, <1>8
<1>10. QED
  BY <1>1, <1>3, <1>4, <1>9 DEF Contract!Work, Phase, Masking

\* What the last cycle of an instruction leaves of I and of the mask, by its kind
LEMMA LastCycle ==
    ASSUME IInv, HistoryInv, CleanInv, NEW lines \in Lines, Execute(lines), IsEmpty(ucycs')
    PROVE  /\ InstructionKind = "delayed" => IrqDisable' = Masking
           /\ InstructionKind \in {"break", "irq", "nmi"} =>
                 Masking' = TRUE /\ IrqDisable' = TRUE
           /\ InstructionKind \in {"plain", "return"} =>
                 Masking' = Masking /\ IrqDisable' = Masking
<1> DEFINE inst == current_inst
           kind == inst.address_mode.kind
<1>1. /\ inst # NoInst /\ ~IsEmpty(ucycs)
      /\ old_i' = IF SavesOldI THEN (IF "I" \in p THEN "set" ELSE "clear") ELSE old_i
  BY ExecuteFacts
<1>2. PICK pulled : p' = Finished(p, pulled)
  <2>1. PICK status, pulled :
           /\ p' = IF IsEmpty(ucycs') THEN Finished(status, pulled) ELSE status
           /\ IsEmpty(ucycs') \/ Kind(current_inst) # "FromInterrupt" => status = p
    BY ExecuteFacts
  <2>2. QED
    BY <2>1
<1>3. old_i = "none"
  BY <1>1 DEF CleanInv, AtBoundary
<1>4. /\ run.source \in {"program", "irq", "nmi"}
      /\ run.source \in {"irq", "nmi"} => kind = "Brk"
      /\ kind = "Brk" <=> inst.mnemonic = "Brk"
      /\ inst.mnemonic = "Plp" => kind = "Stack" /\ inst.memory_action = "Read"
      /\ inst.mnemonic \in {"Cli", "Sei"} => kind = "Implied"
  BY <1>1, InstFacts
<1>5. SavesOldI <=> inst.mnemonic \in {"Cli", "Sei", "Plp"}
  BY <1>4 DEF SavesOldI
<1>6. InstructionKind = "delayed" => IrqDisable' = Masking
  <2> SUFFICES ASSUME InstructionKind = "delayed" PROVE IrqDisable' = Masking
    OBVIOUS
  <2>1. inst.mnemonic \in {"Cli", "Sei", "Plp"}
    BY <1>4 DEF InstructionKind
  <2>2. old_i' = IF "I" \in p THEN "set" ELSE "clear"
    BY <1>1, <1>5, <2>1
  <2>3. QED
    BY <2>2 DEF IrqDisable, Masking
<1>7. inst.mnemonic \notin {"Cli", "Sei", "Plp"} => old_i' = "none" /\ IrqDisable' = Masking'
  BY <1>1, <1>3, <1>5, PlainMask
<1>8. ASSUME InstructionKind \in {"break", "irq", "nmi"}
      PROVE  Masking' = TRUE /\ IrqDisable' = TRUE
  <2>1. kind = "Brk" /\ inst.mnemonic = "Brk"
    BY <1>4, <1>8 DEF InstructionKind
  <2>2. "I" \in p'
    BY <1>2, <2>1 DEF Finished
  <2>3. Masking' = TRUE
    BY <2>2 DEF Masking
  <2>4. QED
    BY <1>7, <2>1, <2>3
<1>9. ASSUME InstructionKind \in {"plain", "return"}
      PROVE  Masking' = Masking /\ IrqDisable' = Masking
  <2>1. inst.mnemonic \notin {"Brk", "Cli", "Sei", "Plp"} /\ kind # "Brk"
    BY <1>4, <1>9 DEF InstructionKind
  <2>2. "I" \in p' <=> "I" \in p
    BY <1>2, <2>1 DEF Finished, FinishRead, FinishImplied
  <2>3. Masking' = Masking
    BY <2>2 DEF Masking
  <2>4. QED
    BY <1>7, <2>1, <2>3
<1>10. QED
  BY <1>6, <1>8, <1>9

LEMMA Kinds ==
    ASSUME IInv, HistoryInv, current_inst # NoInst
    PROVE  /\ InstructionKind \in {"plain", "delayed", "return", "break", "irq", "nmi"}
           /\ run.source = "program" => InstructionKind \in Contract!Programs
<1>1. run.source \in {"program", "irq", "nmi"}
  BY InstFacts
<1>2. QED
  BY <1>1 DEF InstructionKind, Contract!Programs

LEMMA FinishRefines ==
    ASSUME IInv, HistoryInv, CleanInv, NEW lines \in Lines, Execute(lines), IsEmpty(ucycs')
    PROVE  Contract!Finish
<1>1. lines.nmi \in BOOLEAN /\ Contract!Sample(lines.nmi, FALSE)
  BY ExecuteFacts, SampleRefines
<1>2. /\ current_inst # NoInst /\ ~IsEmpty(ucycs) /\ run'.source = run.source
      /\ current_inst' = current_inst
  BY ExecuteFacts
<1>3. Phase = "busy" /\ Phase' = "done"
  BY <1>2 DEF Phase, AtBoundary
<1>4. InstructionKind' = InstructionKind
  BY <1>2 DEF InstructionKind
<1>5. InstructionKind \in {"plain", "delayed", "return", "break", "irq", "nmi"}
  BY <1>2, Kinds
<1>6. Masking' \in BOOLEAN
  BY DEF Masking
<1>7. (CASE InstructionKind = "delayed" -> Masking' \in BOOLEAN /\ IrqDisable' = Masking
         [] InstructionKind \in {"break", "irq", "nmi"} -> Masking' = TRUE /\ IrqDisable' = TRUE
         [] OTHER -> Masking' = Masking /\ IrqDisable' = Masking)
  BY <1>5, <1>6, LastCycle
<1>8. QED
  BY <1>1, <1>3, <1>4, <1>7 DEF Contract!Finish, Phase, Masking

\* An instruction that has just started is over at once only if it is a one-cycle no-op.
LEMMA JustStarted ==
    ASSUME IInv', HistoryInv', current_inst' # NoInst, run'.retired = 0
    PROVE  /\ Phase' = IF IsEmpty(ucycs') THEN "done" ELSE "busy"
           /\ IsEmpty(ucycs') =>
                 current_inst'.address_mode.cycles = 1
<1>1. Phase' = IF IsEmpty(ucycs') THEN "done" ELSE "busy"
  BY DEF Phase, AtBoundary
<1>2. IsEmpty(ucycs') => run'.retired = Extra(current_inst'.address_mode.cycles # 1)
  BY DEF HistoryInv, RetiredOnce, IsEmpty
<1>3. QED
  BY <1>1, <1>2 DEF Extra

\* A fetch begins an instruction of the program.
LEMMA FetchBegins ==
    ASSUME IInv', HistoryInv', NEW opcode \in Opcode, FetchAndPrepare(opcode),
           UNCHANGED p, old_i' = "none"
    PROVE  \E k \in Contract!Programs : Contract!Begin(k)
<1>1. current_inst' = Decode[opcode] /\ run' = NewRun("program", 1, 1)
  BY DEF FetchAndPrepare
<1>2. run'.source = "program" /\ run'.retired = 0
  BY <1>1 DEF NewRun
<1>3. current_inst' # NoInst
  BY <1>1, DecodedFacts
<1>4. ControlFacts(F, opcode, current_inst')
  BY <1>1, TableAssumption
<1>5. InstructionKind' \in Contract!Programs
  BY <1>2 DEF InstructionKind, Contract!Programs
<1>6. Phase' \in IF InstructionKind' = "plain" THEN {"busy", "done"} ELSE {"busy"}
  <2>1. CASE IsEmpty(ucycs')
    <3>1. Phase' = "done" /\ current_inst'.address_mode.cycles = 1
      BY <1>2, <1>3, <2>1, JustStarted
    <3>2. current_inst'.address_mode.kind = "CmosNop" /\ current_inst'.mnemonic = "Nop"
      BY <1>4, <3>1 DEF ControlFacts
    <3>3. InstructionKind' = "plain"
      BY <1>2, <3>2 DEF InstructionKind
    <3>4. QED
      BY <3>1, <3>3
  <2>2. CASE ~IsEmpty(ucycs')
    BY <1>2, <1>3, <2>2, JustStarted
  <2>3. QED
    BY <2>1, <2>2
<1>7. Masking' = Masking /\ IrqDisable' = Masking
  BY PlainMask DEF Masking
<1>8. Contract!Begin(InstructionKind')
  BY <1>6, <1>7 DEF Contract!Begin, Phase, Masking
<1>9. QED
  BY <1>5, <1>8

\* An entry begins with interrupts as they are: I is set at its end.
LEMMA EntryBegins ==
    ASSUME IInv', HistoryInv', NEW interrupt, NEW source \in {"irq", "nmi"},
           StartInterrupt(interrupt, source), UNCHANGED p, old_i' = "none"
    PROVE  Contract!Begin(source)
<1>1. current_inst' = Decode[0]
  BY DEF StartInterrupt
<1>2. run'.source = source /\ run'.retired = 0
  BY DEF StartInterrupt, NewRun
<1>3. current_inst' # NoInst /\ current_inst'.address_mode.cycles = 0
  BY <1>1, DecodeAssumption, DecodedFacts DEF PlainMode
<1>4. Phase' = "busy"
  BY <1>2, <1>3, JustStarted
<1>5. InstructionKind' = source
  BY <1>2 DEF InstructionKind
<1>6. Masking' = Masking /\ IrqDisable' = Masking
  BY PlainMask DEF Masking
<1>7. QED
  BY <1>4, <1>5, <1>6 DEF Contract!Begin, Phase, Masking

LEMMA PollRefines ==
    ASSUME IInv, IInv', HistoryInv', NEW lines \in Lines,
           ServiceNmi(lines) \/ ServiceIrq(lines) \/ FetchNext(lines)
    PROVE  Contract!PollNmi \/ Contract!PollIrq \/ Contract!PollNext
<1>1. Poll(lines)
  BY DEF ServiceNmi, ServiceIrq, FetchNext
<1>2. /\ lines.nmi \in BOOLEAN /\ prev_nmi' = lines.nmi /\ UNCHANGED p /\ old_i' = "none"
      /\ Phase = "done"
  BY <1>1, LineTypes DEF Poll, Phase, AtBoundary, IInv, StateTypeOK
<1>3. Contract!Latched(lines.nmi) <=> PendingNmi(lines)
  BY DEF Contract!Latched, PendingNmi
<1>4. CASE ServiceNmi(lines)
  <2>1. PendingNmi(lines) /\ pending_nmi' = FALSE /\ StartInterrupt("Nmi", "nmi")
    BY <1>4 DEF ServiceNmi
  <2>2. Contract!Sample(lines.nmi, TRUE)
    BY <1>2, <2>1 DEF Contract!Sample
  <2>3. Contract!Begin("nmi")
    BY <1>2, <2>1, EntryBegins
  <2>4. QED
    BY <1>2, <1>3, <2>1, <2>2, <2>3 DEF Contract!PollNmi, Phase
<1>5. ASSUME ~PendingNmi(lines), pending_nmi' = FALSE PROVE Contract!Sample(lines.nmi, FALSE)
  <2>1. pending_nmi' = ((pending_nmi \/ (lines.nmi /\ ~prev_nmi)) /\ ~FALSE)
    BY <1>5 DEF PendingNmi
  <2>2. QED
    BY <1>2, <2>1 DEF Contract!Sample
<1>6. CASE ServiceIrq(lines)
  <2>1. ~PendingNmi(lines) /\ pending_nmi' = FALSE /\ ~IrqDisable /\ StartInterrupt("Irq", "irq")
    BY <1>6 DEF ServiceIrq
  <2>2. Contract!Begin("irq")
    BY <1>2, <2>1, EntryBegins
  <2>3. QED
    BY <1>2, <1>3, <1>5, <2>1, <2>2 DEF Contract!PollIrq, Phase
<1>7. CASE FetchNext(lines)
  <2>1. ~PendingNmi(lines) /\ pending_nmi' = FALSE
    BY <1>7 DEF FetchNext
  <2>2. PICK opcode \in Opcode : FetchAndPrepare(opcode)
    BY <1>7 DEF FetchNext
  <2>3. \E k \in Contract!Programs : Contract!Begin(k)
    BY <1>2, <2>2, FetchBegins
  <2>4. QED
    BY <1>2, <1>3, <1>5, <2>1, <2>3 DEF Contract!PollNext, Phase
<1>8. QED
  BY <1>4, <1>6, <1>7

LEMMA FirstRefines ==
    ASSUME IInv, CleanInv, IInv', HistoryInv', NEW lines \in Lines, FirstFetch(lines)
    PROVE  Contract!FirstInstruction
<1>1. current_inst = NoInst /\ SampleNmi(lines) /\ UNCHANGED << p, old_i >>
  BY DEF FirstFetch
<1>2. lines.nmi \in BOOLEAN /\ Contract!Sample(lines.nmi, FALSE)
  BY <1>1, SampleRefines
<1>3. old_i' = "none" /\ Phase = "idle"
  BY <1>1 DEF CleanInv, AtBoundary, Phase
<1>4. PICK opcode \in Opcode : FetchAndPrepare(opcode)
  BY DEF FirstFetch
<1>5. \E k \in Contract!Programs : Contract!Begin(k)
  BY <1>1, <1>3, <1>4, FetchBegins
<1>6. QED
  BY <1>2, <1>3, <1>5 DEF Contract!FirstInstruction, Phase

LEMMA ResetRefines == ASSUME CleanReset PROVE Contract!IReset
<1>1. /\ current_inst' = NoInst /\ p' = p \cup {"I"} /\ old_i' = "none"
      /\ run' = NewRun("none", 0, 0) /\ UNCHANGED << prev_nmi, pending_nmi >>
  BY DEF CleanReset, Reset
<1>2. InstructionKind' = "plain"
  BY <1>1 DEF InstructionKind, NoInst, PlainMode, NewRun
<1>3. Masking' = TRUE
  BY <1>1 DEF Masking
<1>4. IrqDisable' = TRUE
  BY <1>1, <1>3, PlainMask
<1>5. Phase' = "idle"
  BY <1>1 DEF Phase
<1>6. QED
  BY <1>1, <1>2, <1>3, <1>4, <1>5 DEF Contract!IReset, Phase, Masking

LEMMA StepRefines ==
    ASSUME AllInv, AllInv', NEW lines \in Lines, StepWith(lines) PROVE Contract!INext
<1>0. IInv /\ HistoryInv /\ CleanInv /\ IInv' /\ HistoryInv'
  BY DEF AllInv
<1>1. CASE Stall(lines)
  <2>1. SampleNmi(lines) /\ UNCHANGED << ucycs, current_inst, p, old_i >> /\ run' = run
    BY <1>1 DEF Stall, cpuVars
  <2>2. QED
    BY <1>0, <2>1, WaitRefines DEF Contract!INext
<1>2. CASE FirstFetch(lines)
  BY <1>0, <1>2, FirstRefines DEF Contract!INext
<1>3. CASE Execute(lines)
  BY <1>0, <1>3, WorkRefines, FinishRefines DEF Contract!INext
<1>4. CASE DecimalCycle(lines)
  <2>1. /\ SampleNmi(lines) /\ UNCHANGED << ucycs, current_inst, p, old_i >>
        /\ run' = [run EXCEPT !.cycles = @ + 1] /\ run \in RunType
    BY <1>0, <1>4 DEF DecimalCycle, IInv
  <2>2. run'.source = run.source
    BY <2>1 DEF RunType
  <2>3. QED
    BY <1>0, <2>1, <2>2, WaitRefines DEF Contract!INext
<1>5. CASE ServiceNmi(lines) \/ ServiceIrq(lines) \/ FetchNext(lines)
  BY <1>0, <1>5, PollRefines DEF Contract!INext
<1>6. QED
  BY <1>1, <1>2, <1>3, <1>4, <1>5 DEF StepWith

LEMMA NextRefines ==
    AllInv /\ AllInv' /\ [CleanNext]_vars => [Contract!INext]_(Contract!ivars)
<1> SUFFICES ASSUME AllInv, AllInv', [CleanNext]_vars PROVE [Contract!INext]_(Contract!ivars)
  OBVIOUS
<1>1. CASE Step
  BY <1>1, StepRefines DEF Step
<1>2. CASE CleanReset
  BY <1>2, ResetRefines DEF Contract!INext
<1>3. CASE UNCHANGED vars
  BY <1>3 DEF vars, cpuVars, nmiVars, Contract!ivars, AtBoundary, InstructionKind, IrqDisable
<1>4. QED
  BY <1>1, <1>2, <1>3 DEF CleanNext

\* The core implements the interrupt contract: one edge, one NMI; NMI before IRQ; the poll
\* sees the I flag a CLI, SEI or PLP replaces, the one an RTI pulls and the one an entry
\* sets; a handler's first instruction runs.  For every flavor, program and set of lines.
THEOREM CoreKeepsContract == CleanSpec => InterruptContract
<1>1. Init => Contract!IInit
  BY InitRefines
<1>2. AllInv /\ AllInv' /\ [Step \/ CleanReset]_vars => [Contract!INext]_(Contract!ivars)
  BY NextRefines DEF CleanNext
<1>3. QED
  BY <1>1, <1>2, CleanKept, PTL DEF CleanSpec, InterruptContract, Contract!ISpec
=============================================================================
