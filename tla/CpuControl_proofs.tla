------------------------- MODULE CpuControl_proofs -------------------------
(***************************************************************************)
(* CpuControl, proved for every flavor, every opcode table that            *)
(* DecodeAssumption allows and every set of line values.                   *)
(*                                                                         *)
(* The second half is about the emitters, for every flavor and addressing  *)
(* mode: how much the queue of an instruction advances PC, moves SP and    *)
(* writes, how many cycles it has, and where in it the ops stand that      *)
(* decide how it goes on.  Each micro-op has a weight for what it does, a  *)
(* queue the sum of its ops.                                               *)
(***************************************************************************)
EXTENDS CpuControl, SequenceTheorems, TLAPS

-----------------------------------------------------------------------------
(* The NMI latch.  No invariant is needed: each step samples the line.     *)

NmiStep ==
    /\ ~prev_nmi /\ prev_nmi' => pending_nmi' \/ (AtBoundary /\ run'.source = "nmi")
    /\ pending_nmi /\ ~pending_nmi' => AtBoundary /\ run'.source = "nmi"

LEMMA SampleKeeps == ASSUME NEW lines, SampleNmi(lines) PROVE NmiStep
BY DEF SampleNmi, PendingNmi, NmiStep

LEMMA PollKeeps == ASSUME NEW lines, Poll(lines), ~PendingNmi(lines) PROVE NmiStep
BY DEF Poll, PendingNmi, NmiStep

LEMMA StepNmi == ASSUME NEW lines, StepWith(lines) PROVE NmiStep
<1>1. CASE Stall(lines)
  BY <1>1, SampleKeeps DEF Stall
<1>2. CASE FirstFetch(lines)
  BY <1>2, SampleKeeps DEF FirstFetch
<1>3. CASE Execute(lines)
  BY <1>3, SampleKeeps DEF Execute
<1>4. CASE DecimalCycle(lines)
  BY <1>4, SampleKeeps DEF DecimalCycle
<1>5. CASE ServiceNmi(lines)
  <2>1. AtBoundary
    BY <1>5 DEF ServiceNmi, Poll
  <2>2. run'.source = "nmi"
    BY <1>5 DEF ServiceNmi, StartInterrupt, NewRun
  <2>3. QED
    BY <2>1, <2>2 DEF NmiStep
<1>6. CASE ServiceIrq(lines)
  BY <1>6, PollKeeps DEF ServiceIrq
<1>7. CASE FetchNext(lines)
  BY <1>7, PollKeeps DEF FetchNext
<1>8. QED
  BY <1>1, <1>2, <1>3, <1>4, <1>5, <1>6, <1>7 DEF StepWith

LEMMA NextNmi == [Next]_vars => NmiStep
<1> SUFFICES ASSUME [Next]_vars PROVE NmiStep
  OBVIOUS
<1>1. CASE Step
  BY <1>1, StepNmi DEF Step
<1>2. CASE Reset
  BY <1>2 DEF Reset, NmiStep
<1>3. CASE UNCHANGED vars
  BY <1>3 DEF vars, nmiVars, NmiStep
<1>4. QED
  BY <1>1, <1>2, <1>3 DEF Next

\* No NMI edge is lost and none is forgotten before its entry, whatever the program, the
\* interrupt lines, the wait states and the resets.
THEOREM NmiEdgesKept == Spec => NmiNeverLost
<1>1. [Next]_vars => [NmiStep]_vars
  BY NextNmi
<1>2. QED
  BY <1>1, PTL DEF Spec, NmiNeverLost, NmiStep

-----------------------------------------------------------------------------
(* The micro-ops the emitters push.                                        *)

\* The ops whose ALU operation decides how the queue goes on; all of them read the bus.
Executables(alu) == {op \in MicroOp : Executable(op) /\ op.alu.op = alu /\ op.bus.read}
PlainOp ==
    {op \in MicroOp : /\ Executable(op)
                      /\ op.alu.op \notin {"OffsetWithExtraCycle", "Branch", "Jam"}}

\* What may stand at a position of the queue: a page-crossing read is followed by the
\* access it belongs to, a branch is the last op, and a jam comes before the op that is
\* never reached.
Fits(todo, i) ==
    \/ todo[i] \in PlainOp
    \/ /\ todo[i] \in Executables("OffsetWithExtraCycle")
       /\ i < Len(todo) /\ todo[i + 1] \in PlainOp
    \/ todo[i] \in Executables("Branch") /\ i = Len(todo)
    \/ todo[i] \in Executables("Jam") /\ i = Len(todo) - 1
    \/ todo[i] \in MicroOp /\ i = Len(todo) /\ i > 1 /\ todo[i - 1].alu.op = "Jam"
WellFormed(todo) == todo \in Seq(MicroOp) /\ \A i \in 1..Len(todo) : Fits(todo, i)

LEMMA ReadOpPlain ==
    ASSUME NEW src \in Addressable \cap Latch, NEW dest \in Latch, NEW inc \in BOOLEAN,
           inc => src \in Offsettable
    PROVE  ReadOp(src, dest, inc) \in PlainOp
BY DEF ReadOp, Op, Cycle, Alu, PlainOp, Executable, MicroOp, BusCycleType, AluOpType, Latch,
       OffsetType

LEMMA OtherOpsPlain ==
    /\ DummyRead("Pc") \in PlainOp
    /\ DummyRead("None") \in MicroOp
    /\ \A src \in Latch : PushOp(src) \in PlainOp
    /\ \A src \in {"EaLo", "PtrLo"}, offset \in OffsetType : ReadAndOffset(src, offset) \in PlainOp
    /\ ReadPcSetPc(0) \in PlainOp
    /\ AluWrite \in PlainOp
    /\ \A read \in BOOLEAN : AluModify(read) \in PlainOp
    /\ AluPush \in PlainOp
    /\ \A dest \in Latch : ReadPtr1(dest) \in PlainOp /\ ReadInvPtr2(dest) \in PlainOp
    /\ \A inc \in BOOLEAN, dest \in Latch, op \in {"SwapEaPc", "SpecialAddOffset"} :
          ReadPcThen(inc, dest, op) \in PlainOp
<1> USE DEF Op, Cycle, Alu, PlainOp, Executable, MicroOp, BusCycleType, AluOpType, Latch,
            OffsetType, Addressable, Offsettable
<1>1. DummyRead("Pc") \in PlainOp /\ DummyRead("None") \in MicroOp
  BY DEF DummyRead
<1>2. \A src \in Latch : PushOp(src) \in PlainOp
  BY DEF PushOp
<1>3. \A src \in {"EaLo", "PtrLo"}, offset \in OffsetType : ReadAndOffset(src, offset) \in PlainOp
  BY ZenonT(40) DEF ReadAndOffset
<1>4. ReadPcSetPc(0) \in PlainOp
  BY DEF ReadPcSetPc
<1>5. AluWrite \in PlainOp /\ \A read \in BOOLEAN : AluModify(read) \in PlainOp
  BY DEF AluWrite, AluModify
<1>6. AluPush \in PlainOp
  BY DEF AluPush
<1>7. \A dest \in Latch : ReadPtr1(dest) \in PlainOp /\ ReadInvPtr2(dest) \in PlainOp
  BY DEF ReadPtr1, ReadInvPtr2, IncPtrLo
<1>8. \A inc \in BOOLEAN, dest \in Latch, op \in {"SwapEaPc", "SpecialAddOffset"} :
          ReadPcThen(inc, dest, op) \in PlainOp
  BY DEF ReadPcThen
<1>9. QED
  BY <1>1, <1>2, <1>3, <1>4, <1>5, <1>6, <1>7, <1>8

LEMMA SpecialOps ==
    /\ \A offset \in OffsetType : OffsetOptFix(offset) \in Executables("OffsetWithExtraCycle")
    /\ ReadPcThen(TRUE, "SignedOffset8", "Branch") \in Executables("Branch")
    /\ Op(Cycle("FFFF", FALSE, FALSE, TRUE), FALSE, "None", Alu("Jam")) \in Executables("Jam")
<1> USE DEF Op, Cycle, Alu, Executables, Executable, MicroOp, BusCycleType, AluOpType, Latch,
            OffsetType, Addressable, Offsettable, VectorAddresses
<1>1. \A offset \in OffsetType : OffsetOptFix(offset) \in Executables("OffsetWithExtraCycle")
  BY DEF OffsetOptFix
<1>2. ReadPcThen(TRUE, "SignedOffset8", "Branch") \in Executables("Branch")
  BY DEF ReadPcThen
<1>3. Op(Cycle("FFFF", FALSE, FALSE, TRUE), FALSE, "None", Alu("Jam")) \in Executables("Jam")
  OBVIOUS
<1>4. QED
  BY <1>1, <1>2, <1>3

-----------------------------------------------------------------------------
(* How well-formed queues are built.                                       *)

LEMMA PlainWellFormed ==
    ASSUME NEW s \in Seq(PlainOp) PROVE WellFormed(s)
<1>1. s \in Seq(MicroOp)
  BY SeqMonotonic DEF PlainOp
<1>2. \A i \in 1..Len(s) : s[i] \in PlainOp
  BY ElementOfSeq
<1>3. QED
  BY <1>1, <1>2 DEF WellFormed, Fits

LEMMA OffsetWellFormed ==
    ASSUME NEW s \in Seq(PlainOp), NEW t \in Seq(PlainOp), t # << >>,
           NEW op \in Executables("OffsetWithExtraCycle")
    PROVE  WellFormed(s \o << op >> \o t)
<1> DEFINE q == s \o << op >>
           r == q \o t
<1>1. op \in MicroOp /\ PlainOp \subseteq MicroOp
  BY DEF Executables, PlainOp
<1>2. s \in Seq(MicroOp) /\ t \in Seq(MicroOp) /\ << op >> \in Seq(MicroOp)
  BY <1>1, SeqMonotonic
<1>3. /\ q \in Seq(MicroOp)
      /\ Len(q) = Len(s) + Len(<< op >>)
      /\ \A i \in 1..(Len(s) + Len(<< op >>)) :
            q[i] = IF i <= Len(s) THEN s[i] ELSE << op >>[i - Len(s)]
  BY <1>2, ConcatProperties
<1>4. /\ Len(s) \in Nat /\ Len(t) \in Nat \ {0}
      /\ \A i \in 1..Len(s) : s[i] \in PlainOp
      /\ \A i \in 1..Len(t) : t[i] \in PlainOp
  BY EmptySeq, LenProperties, ElementOfSeq
<1>5. /\ Len(q) = Len(s) + 1
      /\ \A i \in 1..Len(s) : q[i] \in PlainOp
      /\ q[Len(s) + 1] = op
  BY <1>3, <1>4
<1> HIDE DEF q
<1>6. q \in Seq(MicroOp)
  BY <1>3
<1>7. /\ r \in Seq(MicroOp)
      /\ Len(r) = Len(q) + Len(t)
      /\ \A i \in 1..(Len(q) + Len(t)) : r[i] = IF i <= Len(q) THEN q[i] ELSE t[i - Len(q)]
  BY <1>2, <1>6, ConcatProperties
<1> HIDE DEF r
<1>8. ASSUME NEW i \in 1..Len(r) PROVE Fits(r, i)
  <2>1. CASE i <= Len(s)
    BY <2>1, <1>4, <1>5, <1>7 DEF Fits
  <2>2. CASE i = Len(s) + 1
    <3>1. r[i] = op /\ r[i + 1] = t[1] /\ i < Len(r)
      BY <2>2, <1>4, <1>5, <1>7
    <3>2. QED
      BY <3>1, <1>4 DEF Fits
  <2>3. CASE i > Len(s) + 1
    BY <2>3, <1>4, <1>5, <1>7 DEF Fits
  <2>4. QED
    BY <2>1, <2>2, <2>3, <1>4, <1>7
<1>9. QED
  BY <1>7, <1>8 DEF WellFormed, r, q

LEMMA BranchWellFormed ==
    ASSUME NEW s \in Seq(PlainOp), NEW op \in Executables("Branch")
    PROVE  WellFormed(Append(s, op))
<1> DEFINE r == Append(s, op)
<1>1. op \in MicroOp /\ PlainOp \subseteq MicroOp
  BY DEF Executables, PlainOp
<1>2. s \in Seq(MicroOp)
  BY <1>1, SeqMonotonic
<1>3. /\ r \in Seq(MicroOp)
      /\ Len(r) = Len(s) + 1
      /\ \A i \in 1..Len(s) : r[i] = s[i]
      /\ r[Len(s) + 1] = op
  BY <1>1, <1>2, AppendProperties
<1>4. Len(s) \in Nat /\ \A i \in 1..Len(s) : s[i] \in PlainOp
  BY LenProperties, ElementOfSeq
<1> HIDE DEF r
<1>5. \A i \in 1..Len(r) : Fits(r, i)
  BY <1>3, <1>4 DEF Fits
<1>6. QED
  BY <1>3, <1>5 DEF WellFormed, r

LEMMA JamWellFormed == WellFormed(EmitJam) /\ Len(EmitJam) <= 7
<1> DEFINE jam == Op(Cycle("FFFF", FALSE, FALSE, TRUE), FALSE, "None", Alu("Jam"))
           pc == ReadOp("Pc", "None", FALSE)
           low == ReadOp("FFFE", "None", FALSE)
           high == ReadOp("FFFF", "None", FALSE)
           none == DummyRead("None")
<1>1. pc \in PlainOp /\ low \in PlainOp /\ high \in PlainOp
  BY ReadOpPlain DEF Addressable, Offsettable, VectorAddresses, Latch
<1>2. jam \in Executables("Jam") /\ none \in MicroOp
  BY SpecialOps, OtherOpsPlain
<1>3. EmitJam = << pc, high, low, low, jam, none >>
  BY DEF EmitJam
<1> HIDE DEF jam, pc, low, high, none
<1>4. PlainOp \subseteq MicroOp /\ jam \in MicroOp /\ jam.alu.op = "Jam"
  BY <1>2 DEF PlainOp, Executables
<1>5. EmitJam \in Seq(MicroOp) /\ Len(EmitJam) = 6
  BY <1>1, <1>2, <1>3, <1>4
<1>6. \A i \in 1..4 : EmitJam[i] \in PlainOp
  BY <1>1, <1>3
<1>7. EmitJam[5] = jam /\ EmitJam[6] = none
  BY <1>3
<1>8. ASSUME NEW i \in 1..6 PROVE Fits(EmitJam, i)
  <2>1. CASE i \in 1..4
    BY <2>1, <1>6 DEF Fits
  <2>2. CASE i = 5
    BY <2>2, <1>2, <1>5, <1>7 DEF Fits
  <2>3. CASE i = 6
    BY <2>3, <1>2, <1>4, <1>5, <1>7 DEF Fits
  <2>4. QED
    BY <2>1, <2>2, <2>3
<1>9. QED
  BY <1>5, <1>8 DEF WellFormed

\* An emission: it can be executed, and it is short.
Emission(s) == WellFormed(s) /\ Len(s) <= 7

LEMMA FinishOps ==
    ASSUME NEW action \in MemoryAction
    PROVE  /\ FinishAction(F, action) \in Seq(PlainOp)
           /\ FinishAction(F, action) # << >>
           /\ Len(FinishAction(F, action)) <= 3
<1> DEFINE read == ReadOp("Ea", "Op0", FALSE)
           modify == AluModify(~F.RMW_DUMMY_WRITE)
           s == FinishAction(F, action)
<1>1. read \in PlainOp
  BY ReadOpPlain DEF Addressable, Offsettable, Latch
<1>2. AluWrite \in PlainOp /\ modify \in PlainOp
  BY OtherOpsPlain, FlavorAssumption DEF FlavorType
<1>3. s = << read >> \/ s = << AluWrite >> \/ s = << read, modify, AluWrite >>
  BY DEF FinishAction, MemoryAction
<1> HIDE DEF read, modify, s
<1>4. s \in Seq(PlainOp) /\ s # << >> /\ Len(s) <= 3
  <2>1. CASE s = << read >>
    BY <1>1, <2>1
  <2>2. CASE s = << AluWrite >>
    BY <1>2, <2>2
  <2>3. CASE s = << read, modify, AluWrite >>
    BY <1>1, <1>2, <2>3
  <2>4. QED
    BY <1>3, <2>1, <2>2, <2>3
<1>5. QED
  BY <1>4 DEF s

LEMMA PlainEmission ==
    ASSUME NEW s \in Seq(PlainOp), Len(s) <= 7 PROVE Emission(s)
BY PlainWellFormed DEF Emission

LEMMA OffsetEmission ==
    ASSUME NEW s \in Seq(PlainOp), Len(s) <= 3, NEW offset \in OffsetType,
           NEW action \in MemoryAction
    PROVE  Emission(s \o << OffsetOptFix(offset) >> \o FinishAction(F, action))
<1> DEFINE op == OffsetOptFix(offset)
           t == FinishAction(F, action)
<1>1. op \in Executables("OffsetWithExtraCycle")
  BY SpecialOps
<1>2. t \in Seq(PlainOp) /\ t # << >> /\ Len(t) <= 3
  BY FinishOps
<1> HIDE DEF op, t
<1>3. WellFormed(s \o << op >> \o t)
  BY <1>1, <1>2, OffsetWellFormed
<1>4. Len(s \o << op >> \o t) = Len(s) + 1 + Len(t)
  <2>1. PlainOp \subseteq MicroOp /\ op \in MicroOp
    BY <1>1 DEF PlainOp, Executables
  <2>2. s \in Seq(MicroOp) /\ t \in Seq(MicroOp) /\ << op >> \in Seq(MicroOp)
    BY <2>1, <1>2, SeqMonotonic
  <2>3. s \o << op >> \in Seq(MicroOp) /\ Len(s \o << op >>) = Len(s) + Len(<< op >>)
    BY <2>2, ConcatProperties
  <2>4. Len((s \o << op >>) \o t) = Len(s \o << op >>) + Len(t)
    BY <2>2, <2>3, ConcatProperties
  <2>5. QED
    BY <2>3, <2>4
<1>5. Len(s) + 1 + Len(t) <= 7
  BY <1>2, LenProperties
<1>6. QED
  BY <1>3, <1>4, <1>5 DEF Emission, op, t

LEMMA BranchEmission ==
    ASSUME NEW s \in Seq(PlainOp), Len(s) <= 6
    PROVE  Emission(Append(s, ReadPcThen(TRUE, "SignedOffset8", "Branch")))
<1> DEFINE op == ReadPcThen(TRUE, "SignedOffset8", "Branch")
<1>1. op \in Executables("Branch")
  BY SpecialOps
<1> HIDE DEF op
<1>2. WellFormed(Append(s, op))
  BY <1>1, BranchWellFormed
<1>3. PlainOp \subseteq MicroOp /\ op \in MicroOp
  BY <1>1 DEF PlainOp, Executables
<1>4. s \in Seq(MicroOp)
  BY <1>3, SeqMonotonic
<1>5. Len(Append(s, op)) = Len(s) + 1
  BY <1>3, <1>4, AppendProperties
<1>6. Len(s) + 1 <= 7
  BY LenProperties
<1>7. QED
  BY <1>2, <1>5, <1>6 DEF Emission, op

\* Emissions of up to six plain ops.
LEMMA PlainTuples ==
    /\ \A a \in PlainOp : << a >> \in Seq(PlainOp) /\ Len(<< a >>) = 1
    /\ \A a, b \in PlainOp : << a, b >> \in Seq(PlainOp) /\ Len(<< a, b >>) = 2
    /\ \A a, b, c \in PlainOp : << a, b, c >> \in Seq(PlainOp) /\ Len(<< a, b, c >>) = 3
OBVIOUS

LEMMA ShortEmission == ASSUME NEW s \in Seq(PlainOp), Len(s) \in {1, 2, 3} PROVE Emission(s)
<1>1. Len(s) <= 7
  <2>1. CASE Len(s) = 1
    BY <2>1
  <2>2. CASE Len(s) = 2
    BY <2>2
  <2>3. CASE Len(s) = 3
    BY <2>3
  <2>4. QED
    BY <2>1, <2>2, <2>3
<1>2. QED
  BY <1>1, PlainEmission

LEMMA PlainTuples5 ==
    ASSUME NEW a \in PlainOp, NEW b \in PlainOp, NEW c \in PlainOp, NEW d \in PlainOp,
           NEW e \in PlainOp
    PROVE  Emission(<< a, b, c, d, e >>) /\ Len(<< a, b, c, d, e >>) = 5
<1> DEFINE s == << a, b, c, d, e >>
<1>1. s \in Seq(PlainOp) /\ Len(s) = 5
  OBVIOUS
<1> HIDE DEF s
<1>2. Len(s) <= 7
  BY <1>1
<1>3. QED
  BY <1>1, <1>2, PlainEmission DEF s

LEMMA PlainTuples6 ==
    ASSUME NEW a \in PlainOp, NEW b \in PlainOp, NEW c \in PlainOp, NEW d \in PlainOp,
           NEW e \in PlainOp, NEW f \in PlainOp
    PROVE  Emission(<< a, b, c, d, e, f >>) /\ Len(<< a, b, c, d, e, f >>) = 6
<1> DEFINE s == << a, b, c, d, e, f >>
<1>1. s \in Seq(PlainOp) /\ Len(s) = 6
  OBVIOUS
<1> HIDE DEF s
<1>2. Len(s) <= 7
  BY <1>1
<1>3. QED
  BY <1>1, <1>2, PlainEmission DEF s

LEMMA ConcatPlain ==
    ASSUME NEW s \in Seq(PlainOp), NEW t \in Seq(PlainOp)
    PROVE  s \o t \in Seq(PlainOp) /\ Len(s \o t) = Len(s) + Len(t)
BY ConcatProperties

\* The reads the emitters are made of
LEMMA Reads ==
    /\ \A dest \in Latch, inc \in BOOLEAN :
          /\ ReadOp("Pc", dest, inc) \in PlainOp
          /\ ReadOp("Sp", dest, inc) \in PlainOp
          /\ ReadOp("Ea", dest, inc) \in PlainOp
          /\ ReadOp("PtrLo", dest, inc) \in PlainOp
          /\ ReadOp("Ptr", dest, inc) \in PlainOp
    /\ \A src \in VectorAddresses, dest \in Latch : ReadOp(src, dest, FALSE) \in PlainOp
<1>1. \A src \in {"Pc", "Sp", "Ea", "PtrLo", "Ptr"} :
          src \in Addressable \cap Latch /\ src \in Offsettable
  BY DEF Addressable, Latch, Offsettable
<1>2. \A src \in VectorAddresses : src \in Addressable \cap Latch
  BY DEF Addressable, Latch
<1>3. QED
  BY <1>1, <1>2, ReadOpPlain

LEMMA EmitDpWell ==
    ASSUME NEW action \in MemoryAction, NEW offset \in OffsetType
    PROVE  Emission(EmitDp(F, action, offset))
<1> DEFINE s == << ReadOp("Pc", "EaLo", TRUE) >>
           m == IF offset # "None" THEN << ReadAndOffset("EaLo", offset) >> ELSE << >>
           t == FinishAction(F, action)
<1>1. s \in Seq(PlainOp) /\ Len(s) = 1
  BY Reads, PlainTuples DEF Latch
<1>2. m \in Seq(PlainOp) /\ Len(m) <= 1
  <2>1. CASE offset # "None"
    <3>1. ReadAndOffset("EaLo", offset) \in PlainOp
      BY OtherOpsPlain
    <3>2. QED
      BY <2>1, <3>1, PlainTuples
  <2>2. CASE offset = "None"
    BY <2>2, EmptySeq
  <2>3. QED
    BY <2>1, <2>2
<1>3. t \in Seq(PlainOp) /\ Len(t) <= 3
  BY FinishOps
<1> HIDE DEF s, m, t
<1>4. s \o m \in Seq(PlainOp) /\ Len(s \o m) = Len(s) + Len(m)
  BY <1>1, <1>2, ConcatPlain
<1>5. (s \o m) \o t \in Seq(PlainOp) /\ Len((s \o m) \o t) = Len(s \o m) + Len(t)
  BY <1>3, <1>4, ConcatPlain
<1>6. Len((s \o m) \o t) <= 7
  BY <1>1, <1>2, <1>3, <1>4, <1>5, LenProperties
<1>7. QED
  BY <1>5, <1>6, PlainEmission DEF EmitDp, s, m, t

LEMMA EmitAbsoluteWell ==
    ASSUME NEW action \in MemoryAction, NEW offset \in OffsetType
    PROVE  Emission(EmitAbsolute(F, action, offset))
<1> DEFINE s == << ReadOp("Pc", "EaLo", TRUE), ReadOp("Pc", "EaHi", TRUE) >>
           t == FinishAction(F, action)
<1>1. s \in Seq(PlainOp) /\ Len(s) = 2
  BY Reads, PlainTuples DEF Latch
<1>2. t \in Seq(PlainOp) /\ Len(t) <= 3
  BY FinishOps
<1> HIDE DEF s, t
<1>3. CASE offset # "None"
  <2>1. Len(s) <= 3
    BY <1>1
  <2>2. Emission(s \o << OffsetOptFix(offset) >> \o t)
    BY <1>1, <2>1, OffsetEmission DEF t
  <2>3. QED
    BY <1>3, <2>2 DEF EmitAbsolute, s, t
<1>4. CASE offset = "None"
  <2>1. s \o << >> = s
    BY <1>1, ConcatEmptySeq
  <2>2. s \o t \in Seq(PlainOp) /\ Len(s \o t) = Len(s) + Len(t)
    BY <1>1, <1>2, ConcatPlain
  <2>3. Len(s \o t) <= 7
    BY <1>1, <1>2, <2>2, LenProperties
  <2>4. Emission((s \o << >>) \o t)
    BY <2>1, <2>2, <2>3, PlainEmission
  <2>5. QED
    BY <1>4, <2>4 DEF EmitAbsolute, s, t
<1>5. QED
  BY <1>3, <1>4

LEMMA EmitDpIndWell ==
    ASSUME NEW action \in MemoryAction, NEW offset \in OffsetType
    PROVE  Emission(EmitDpInd(F, action, offset))
<1> DEFINE s == << ReadOp("Pc", "PtrLo", TRUE) >>
           m == IF offset = "X" THEN << ReadAndOffset("PtrLo", offset) >> ELSE << >>
           e == << ReadOp("PtrLo", "EaLo", TRUE), ReadOp("PtrLo", "EaHi", FALSE) >>
           t == FinishAction(F, action)
<1>1. s \in Seq(PlainOp) /\ Len(s) = 1 /\ e \in Seq(PlainOp) /\ Len(e) = 2
  BY Reads, PlainTuples DEF Latch
<1>2. m \in Seq(PlainOp) /\ Len(m) <= 1 /\ (offset = "Y" => m = << >>)
  <2>1. CASE offset = "X"
    <3>1. ReadAndOffset("PtrLo", offset) \in PlainOp
      BY OtherOpsPlain
    <3>2. QED
      BY <2>1, <3>1, PlainTuples
  <2>2. CASE offset # "X"
    BY <2>2, EmptySeq
  <2>3. QED
    BY <2>1, <2>2
<1>3. t \in Seq(PlainOp) /\ Len(t) <= 3
  BY FinishOps
<1> HIDE DEF s, m, e, t
<1>4. s \o m \in Seq(PlainOp) /\ Len(s \o m) = Len(s) + Len(m)
  BY <1>1, <1>2, ConcatPlain
<1> DEFINE h == (s \o m) \o e
<1>5. h \in Seq(PlainOp) /\ Len(h) = Len(s) + Len(m) + Len(e)
  BY <1>1, <1>4, ConcatPlain
<1> HIDE DEF h
<1>6. CASE offset = "Y"
  <2>1. Len(m) = 0
    BY <1>2, <1>6, EmptySeq
  <2>2. Len(h) <= 3
    BY <1>1, <1>5, <2>1
  <2>3. Emission(h \o << OffsetOptFix(offset) >> \o t)
    BY <1>5, <2>2, OffsetEmission DEF t
  <2>4. QED
    BY <1>6, <2>3 DEF EmitDpInd, s, m, e, t, h
<1>7. CASE offset # "Y"
  <2>1. h \o << >> = h
    BY <1>5, ConcatEmptySeq
  <2>2. h \o t \in Seq(PlainOp) /\ Len(h \o t) = Len(h) + Len(t)
    BY <1>3, <1>5, ConcatPlain
  <2>3. Len(h \o t) <= 7
    BY <1>1, <1>2, <1>3, <1>5, <2>2, LenProperties
  <2>4. Emission((h \o << >>) \o t)
    BY <2>1, <2>2, <2>3, PlainEmission
  <2>5. QED
    BY <1>7, <2>4 DEF EmitDpInd, s, m, e, t, h
<1>8. QED
  BY <1>6, <1>7

LEMMA EmitShortWell ==
    /\ Emission(EmitImplied) /\ Emission(EmitImmediate)
    /\ Emission(EmitJmpAbs) /\ Emission(EmitBranchRel)
    /\ \A action \in MemoryAction : Emission(EmitStack(action))
<1>1. Emission(EmitImplied) /\ Emission(EmitImmediate)
  <2>1. EmitImplied \in Seq(PlainOp) /\ Len(EmitImplied) = 1
    BY Reads, PlainTuples DEF EmitImplied, Latch
  <2>2. EmitImmediate \in Seq(PlainOp) /\ Len(EmitImmediate) = 1
    BY Reads, PlainTuples DEF EmitImmediate, Latch
  <2>3. QED
    BY <2>1, <2>2, ShortEmission
<1>2. Emission(EmitJmpAbs)
  <2>1. EmitJmpAbs \in Seq(PlainOp) /\ Len(EmitJmpAbs) = 2
    BY Reads, OtherOpsPlain, PlainTuples DEF EmitJmpAbs, Latch
  <2>2. QED
    BY <2>1, ShortEmission
<1>3. Emission(EmitBranchRel)
  <2> DEFINE op == ReadPcThen(TRUE, "SignedOffset8", "Branch")
  <2>1. << >> \in Seq(PlainOp) /\ Len(<< >>) <= 6
    BY EmptySeq
  <2>2. Emission(Append(<< >>, op))
    BY <2>1, BranchEmission
  <2> HIDE DEF op
  <2>3. Append(<< >>, op) = << op >>
    OBVIOUS
  <2>4. QED
    BY <2>2, <2>3 DEF EmitBranchRel, op
<1>4. ASSUME NEW action \in MemoryAction PROVE Emission(EmitStack(action))
  <2>1. CASE action = "Read"
    <3>1. EmitStack(action) \in Seq(PlainOp) /\ Len(EmitStack(action)) = 3
      BY <2>1, Reads, PlainTuples DEF EmitStack, Latch
    <3>2. QED
      BY <3>1, ShortEmission
  <2>2. CASE action # "Read"
    <3>1. EmitStack(action) \in Seq(PlainOp) /\ Len(EmitStack(action)) = 2
      BY <2>2, Reads, OtherOpsPlain, PlainTuples DEF EmitStack, Latch
    <3>2. QED
      BY <3>1, ShortEmission
  <2>3. QED
    BY <2>1, <2>2
<1>5. QED
  BY <1>1, <1>2, <1>3, <1>4

LEMMA EmitJumpsWell ==
    /\ Emission(EmitJmpAbsX) /\ Emission(EmitJsr) /\ Emission(EmitRts) /\ Emission(EmitRti)
    /\ Emission(EmitJmpInd(F))
    /\ Emission(EmitBranchDpRel)
<1>1. Emission(EmitJmpAbsX)
  BY Reads, OtherOpsPlain, PlainTuples5 DEF EmitJmpAbsX, Latch
<1>2. Emission(EmitJsr)
  BY Reads, OtherOpsPlain, PlainTuples5 DEF EmitJsr, Latch
<1>3. Emission(EmitRts)
  BY Reads, OtherOpsPlain, PlainTuples5 DEF EmitRts, Latch
<1>4. Emission(EmitRti)
  BY Reads, PlainTuples5 DEF EmitRti, Latch
<1>5. Emission(EmitJmpInd(F))
  <2> DEFINE s == << ReadOp("Pc", "PtrLo", TRUE), ReadOp("Pc", "PtrHi", FALSE), ReadPtr1("PcLo") >>
             m == IF F.Micro = "Micro65C02" THEN << ReadInvPtr2("PcHi") >> ELSE << >>
             t == << ReadOp("Ptr", "PcHi", FALSE) >>
  <2>1. s \in Seq(PlainOp) /\ Len(s) = 3
    BY Reads, OtherOpsPlain, PlainTuples DEF Latch
  <2>2. m \in Seq(PlainOp) /\ Len(m) <= 1
    <3>1. ReadInvPtr2("PcHi") \in PlainOp
      BY OtherOpsPlain DEF Latch
    <3>2. CASE F.Micro = "Micro65C02"
      BY <3>1, <3>2, PlainTuples
    <3>3. CASE F.Micro # "Micro65C02"
      BY <3>3, EmptySeq
    <3>4. QED
      BY <3>2, <3>3
  <2>3. t \in Seq(PlainOp) /\ Len(t) = 1
    BY Reads, PlainTuples DEF Latch
  <2> HIDE DEF s, m, t
  <2>4. s \o m \in Seq(PlainOp) /\ Len(s \o m) = Len(s) + Len(m)
    BY <2>1, <2>2, ConcatPlain
  <2>5. (s \o m) \o t \in Seq(PlainOp) /\ Len((s \o m) \o t) = Len(s \o m) + Len(t)
    BY <2>3, <2>4, ConcatPlain
  <2>6. Len((s \o m) \o t) <= 7
    BY <2>1, <2>2, <2>3, <2>4, <2>5, LenProperties
  <2>7. QED
    BY <2>5, <2>6, PlainEmission DEF EmitJmpInd, s, m, t
<1>6. Emission(EmitBranchDpRel)
  <2> DEFINE op == ReadPcThen(TRUE, "SignedOffset8", "Branch")
             a == ReadOp("Pc", "EaLo", TRUE)
             b == ReadOp("Ea", "Op0", FALSE)
  <2>1. << a, b, b >> \in Seq(PlainOp) /\ Len(<< a, b, b >>) = 3
    BY Reads, PlainTuples DEF Latch
  <2>2. Len(<< a, b, b >>) <= 6
    BY <2>1
  <2>3. Emission(Append(<< a, b, b >>, op))
    BY <2>1, <2>2, BranchEmission
  <2> HIDE DEF op, a, b
  <2>4. Append(<< a, b, b >>, op) = << a, b, b, op >>
    <3>1. a \in MicroOp /\ b \in MicroOp /\ op \in MicroOp
      BY Reads, SpecialOps DEF Latch, PlainOp, Executables, a, b, op
    <3> DEFINE s == << a, b, b >>
               r == << a, b, b, op >>
    <3>2. s \in Seq(MicroOp) /\ r \in Seq(MicroOp) /\ Len(s) = 3 /\ Len(r) = 4
          /\ r[1] = s[1] /\ r[2] = s[2] /\ r[3] = s[3] /\ r[4] = op
      BY <3>1
    <3> HIDE DEF s, r
    <3>3. s \in Seq(MicroOp)
      BY <3>2
    <3>4. /\ Append(s, op) \in Seq(MicroOp)
          /\ Len(Append(s, op)) = Len(s) + 1
          /\ \A k \in 1..Len(s) : Append(s, op)[k] = s[k]
          /\ Append(s, op)[Len(s) + 1] = op
      BY <3>1, <3>3, AppendProperties
    <3>5. \A k \in 1..Len(r) : r[k] = Append(s, op)[k]
      BY <3>2, <3>4
    <3>6. r = Append(s, op)
      BY <3>2, <3>4, <3>5, SeqEqual
    <3>7. QED
      BY <3>6 DEF s, r
  <2>5. QED
    BY <2>3, <2>4 DEF EmitBranchDpRel, op, a, b
<1>7. QED
  BY <1>1, <1>2, <1>3, <1>4, <1>5, <1>6

LEMMA EmitIntWell ==
    ASSUME NEW interrupt \in {"Brk", "Irq", "Nmi"}
    PROVE  Emission(EmitInt(interrupt)) /\ Len(EmitInt(interrupt)) = 6
<1> DEFINE a == ReadOp("Pc", "None", interrupt = "Brk")
           d == PushOp(IF interrupt = "Brk" THEN "BrkStatus" ELSE "Status")
           e == ReadOp(IF interrupt = "Nmi" THEN "FFFA" ELSE "FFFE", "PcLo", FALSE)
           f == ReadOp(IF interrupt = "Nmi" THEN "FFFB" ELSE "FFFF", "PcHi", FALSE)
<1>1. a \in PlainOp
  BY Reads DEF Latch
<1>2. d \in PlainOp /\ PushOp("PcHi") \in PlainOp /\ PushOp("PcLo") \in PlainOp
  BY OtherOpsPlain DEF Latch
<1>3. e \in PlainOp /\ f \in PlainOp
  BY Reads DEF Latch, VectorAddresses
<1> HIDE DEF a, d, e, f
<1>4. Emission(<< a, PushOp("PcHi"), PushOp("PcLo"), d, e, f >>)
      /\ Len(<< a, PushOp("PcHi"), PushOp("PcLo"), d, e, f >>) = 6
  BY <1>1, <1>2, <1>3, PlainTuples6
<1>5. QED
  BY <1>4 DEF EmitInt, a, d, e, f

LEMMA EmitNopWell ==
    ASSUME NEW bytes, NEW cycles, << bytes, cycles >> \in NopShapes
    PROVE  Emission(EmitCmosNop(bytes, cycles))
<1>1. cycles \in 1..8
  BY DEF NopShapes
<1>2. CASE bytes = 3 /\ cycles = 3
  <2>1. EmitCmosNop(bytes, cycles) \in Seq(PlainOp) /\ Len(EmitCmosNop(bytes, cycles)) = 2
    BY <1>2, Reads, PlainTuples DEF EmitCmosNop, Latch
  <2>2. QED
    BY <2>1, ShortEmission
<1>3. CASE ~(bytes = 3 /\ cycles = 3)
  <2> DEFINE s == [i \in 1..(cycles - 1) |-> ReadOp("Pc", "None", i \in {1, 3})]
  <2>1. ASSUME NEW i \in 1..(cycles - 1) PROVE ReadOp("Pc", "None", i \in {1, 3}) \in PlainOp
    <3>1. CASE i \in {1, 3}
      <4>1. ReadOp("Pc", "None", TRUE) \in PlainOp
        BY Reads DEF Latch
      <4>2. (i \in {1, 3}) = TRUE
        BY <3>1
      <4>3. QED
        BY <4>1, <4>2
    <3>2. CASE i \notin {1, 3}
      <4>1. ReadOp("Pc", "None", FALSE) \in PlainOp
        BY Reads DEF Latch
      <4>2. (i \in {1, 3}) = FALSE
        BY <3>2
      <4>3. QED
        BY <4>1, <4>2
    <3>3. QED
      BY <3>1, <3>2
  <2>2. s \in [1..(cycles - 1) -> PlainOp]
    BY <2>1
  <2>3. cycles - 1 \in Nat
    BY <1>1
  <2>4. s \in Seq(PlainOp) /\ Len(s) = cycles - 1
    BY <2>2, <2>3
  <2> HIDE DEF s
  <2>5. Len(s) <= 7
    BY <1>1, <2>4
  <2>6. QED
    BY <1>3, <2>4, <2>5, PlainEmission DEF EmitCmosNop, s
<1>4. QED
  BY <1>2, <1>3

\* Whatever the table decodes to, the emitter leaves a queue that execute_next can run.
LEMMA EmitWell ==
    ASSUME NEW mode \in AddressMode, NEW action \in MemoryAction, Emittable(F, mode, action),
           mode.kind = "CmosNop" => << mode.bytes, mode.cycles >> \in NopShapes
    PROVE  Emission(EmitUcycs(F, mode, action))
<1>1. mode.kind \in ModeKinds8 /\ mode.offset \in OffsetType
  BY DEF Emittable, AddressMode
<1>2. CASE mode.kind \in {"Implied", "Immediate", "Stack", "JmpAbsolute", "Relative"}
  BY <1>2, EmitShortWell DEF EmitUcycs
<1>3. CASE mode.kind = "DirectPage"
  BY <1>1, <1>3, EmitDpWell DEF EmitUcycs
<1>4. CASE mode.kind = "Absolute"
  BY <1>1, <1>4, EmitAbsoluteWell DEF EmitUcycs
<1>5. CASE mode.kind = "DpIndirect"
  BY <1>1, <1>5, EmitDpIndWell DEF EmitUcycs
<1>6. CASE mode.kind \in {"JmpIndirect", "JmpAbsoluteX", "ToSubroutine", "FromSubroutine",
                          "FromInterrupt", "DpRelative"}
  BY <1>6, EmitJumpsWell DEF EmitUcycs
<1>7. CASE mode.kind = "Brk"
  BY <1>7, EmitIntWell DEF EmitUcycs
<1>8. CASE mode.kind = "Jam"
  BY <1>8, JamWellFormed DEF EmitUcycs, Emission
<1>9. CASE mode.kind = "CmosNop"
  BY <1>9, EmitNopWell DEF EmitUcycs
<1>10. QED
  BY <1>1, <1>2, <1>3, <1>4, <1>5, <1>6, <1>7, <1>8, <1>9 DEF ModeKinds8

-----------------------------------------------------------------------------
(* The queue while instructions run.                                       *)

TapeOK(tape) ==
    /\ tape \in Tape(MicroOp)
    /\ WellFormed(tape.todo)
    /\ Slots(tape) <= 7
    /\ IsEmpty(tape) => tape = EmptyTape

LEMMA EmptyOK == TapeOK(EmptyTape) /\ IsEmpty(EmptyTape)
<1>1. << >> \in Seq(MicroOp) /\ Len(<< >>) = 0 /\ << >> \in Seq(PlainOp)
  BY EmptySeq
<1>2. EmptyTape \in Tape(MicroOp)
  BY <1>1 DEF EmptyTape, Tape
<1>3. WellFormed(EmptyTape.todo)
  BY <1>1, PlainWellFormed DEF EmptyTape
<1>4. Slots(EmptyTape) = 0
  BY <1>1 DEF Slots, EmptyTape
<1>5. QED
  BY <1>2, <1>3, <1>4 DEF TapeOK, IsEmpty, EmptyTape

LEMMA PushOK == ASSUME NEW s, Emission(s) PROVE TapeOK(PushAll(EmptyTape, s))
<1> DEFINE tape == PushAll(EmptyTape, s)
<1>1. s \in Seq(MicroOp) /\ Len(s) <= 7 /\ Len(s) \in Nat
  BY LenProperties DEF Emission, WellFormed
<1>2. << >> \o s = s
  BY <1>1, ConcatEmptySeq
<1>3. tape = [done |-> << >>, todo |-> s]
  BY <1>2 DEF PushAll, EmptyTape
<1>4. tape \in Tape(MicroOp)
  BY <1>1, <1>3, EmptySeq DEF Tape
<1>5. Slots(tape) = Len(s)
  BY <1>1, <1>3 DEF Slots
<1>6. QED
  BY <1>1, <1>3, <1>4, <1>5 DEF TapeOK, IsEmpty, EmptyTape, Emission

LEMMA TapeFacts ==
    ASSUME NEW tape, TapeOK(tape), ~IsEmpty(tape)
    PROVE  /\ tape.done \in Seq(MicroOp) /\ tape.todo \in Seq(MicroOp)
           /\ tape.todo # << >> /\ Len(tape.todo) \in Nat \ {0} /\ Len(tape.done) \in Nat
           /\ FrontOp(tape) = tape.todo[1] /\ FrontOp(tape) \in MicroOp
           /\ Fits(tape.todo, 1)
           /\ tape = [done |-> tape.done, todo |-> tape.todo]
<1>1. tape.done \in Seq(MicroOp) /\ tape.todo \in Seq(MicroOp) /\ tape.todo # << >>
      /\ tape = [done |-> tape.done, todo |-> tape.todo]
  BY DEF TapeOK, Tape, IsEmpty
<1>2. Len(tape.todo) \in Nat \ {0} /\ Len(tape.done) \in Nat
  BY <1>1, EmptySeq, LenProperties
<1>3. FrontOp(tape) = tape.todo[1] /\ FrontOp(tape) \in MicroOp
  BY <1>1, <1>2, ElementOfSeq DEF FrontOp
<1>4. Fits(tape.todo, 1)
  BY <1>2 DEF TapeOK, WellFormed
<1>5. QED
  BY <1>1, <1>2, <1>3, <1>4

\* Executing an op other than a jam leaves a queue that can be run on.
LEMMA PopOK ==
    ASSUME NEW tape, TapeOK(tape), ~IsEmpty(tape), FrontOp(tape).alu.op # "Jam"
    PROVE  /\ TapeOK(Pop(tape))
           /\ Len(tape.todo) = 1 => Pop(tape) = EmptyTape
           /\ Len(tape.todo) > 1 => ~IsEmpty(Pop(tape)) /\ FrontOp(Pop(tape)) = tape.todo[2]
<1> DEFINE q == tape.todo
           t == Tail(q)
           d == Append(tape.done, Head(q))
<1>1. /\ tape.done \in Seq(MicroOp) /\ q \in Seq(MicroOp) /\ q # << >>
      /\ Len(q) \in Nat \ {0} /\ Len(tape.done) \in Nat /\ q[1].alu.op # "Jam"
  BY TapeFacts
<1>2. CASE Len(q) = 1
  BY <1>2, EmptyOK DEF Pop
<1>3. CASE Len(q) # 1
  <2>1. /\ Head(q) \in MicroOp /\ t \in Seq(MicroOp) /\ Len(t) = Len(q) - 1
        /\ \A i \in 1..Len(t) : t[i] = q[i + 1]
    BY <1>1, HeadTailProperties
  <2>2. d \in Seq(MicroOp) /\ Len(d) = Len(tape.done) + 1
    BY <1>1, <2>1, AppendProperties
  <2>3. Pop(tape) = [done |-> d, todo |-> t]
    BY <1>3 DEF Pop
  <2>4. \A i \in 1..Len(q) : Fits(q, i)
    BY DEF TapeOK, WellFormed
  <2> HIDE DEF q, t, d
  <2>5. ASSUME NEW i \in 1..Len(t) PROVE Fits(t, i)
    <3>1. i + 1 \in 1..Len(q) /\ t[i] = q[i + 1] /\ i \in Nat \ {0}
      BY <1>1, <2>1
    <3>2. Fits(q, i + 1)
      BY <2>4, <3>1
    <3>3. CASE q[i + 1] \in PlainOp
      BY <3>1, <3>3 DEF Fits
    <3>4. CASE /\ q[i + 1] \in Executables("OffsetWithExtraCycle")
               /\ i + 1 < Len(q) /\ q[i + 1 + 1] \in PlainOp
      <4>1. i < Len(t) /\ i + 1 \in 1..Len(t)
        BY <1>1, <2>1, <3>1, <3>4
      <4>2. t[i + 1] = q[i + 1 + 1]
        BY <2>1, <4>1
      <4>3. QED
        BY <3>1, <3>4, <4>1, <4>2 DEF Fits
    <3>5. CASE q[i + 1] \in Executables("Branch") /\ i + 1 = Len(q)
      <4>1. i = Len(t)
        BY <1>1, <2>1, <3>1, <3>5
      <4>2. QED
        BY <3>1, <3>5, <4>1 DEF Fits
    <3>6. CASE q[i + 1] \in Executables("Jam") /\ i + 1 = Len(q) - 1
      <4>1. i = Len(t) - 1
        BY <1>1, <2>1, <3>1, <3>6
      <4>2. QED
        BY <3>1, <3>6, <4>1 DEF Fits
    <3>7. CASE /\ q[i + 1] \in MicroOp /\ i + 1 = Len(q) /\ i + 1 > 1
               /\ q[i + 1 - 1].alu.op = "Jam"
      <4>1. i = Len(t) /\ q[i].alu.op = "Jam"
        BY <1>1, <2>1, <3>1, <3>7
      <4>2. i > 1
        BY <1>1, <3>1, <4>1
      <4>3. i - 1 \in 1..Len(t) /\ (i - 1) + 1 = i
        BY <3>1, <4>1, <4>2
      <4>4. t[i - 1] = q[i]
        BY <2>1, <4>3
      <4>5. QED
        BY <3>1, <3>7, <4>1, <4>2, <4>4 DEF Fits
    <3>8. QED
      BY <3>2, <3>3, <3>4, <3>5, <3>6, <3>7 DEF Fits
  <2>6. Pop(tape) \in Tape(MicroOp)
    BY <2>1, <2>2, <2>3 DEF Tape
  <2>7. Len(t) \in Nat \ {0} /\ t[1] = q[2]
    BY <1>1, <1>3, <2>1
  <2>8. t # << >>
    BY <2>1, <2>7, EmptySeq
  <2>9. Slots(Pop(tape)) <= 7
    <3>1. Slots(tape) = Len(tape.done) + Len(q) /\ Slots(tape) <= 7
      BY DEF Slots, TapeOK, q
    <3>2. Slots(Pop(tape)) = Len(d) + Len(t)
      BY <2>3 DEF Slots
    <3>3. QED
      BY <1>1, <2>1, <2>2, <3>1, <3>2
  <2>10. TapeOK(Pop(tape)) /\ ~IsEmpty(Pop(tape))
    BY <2>1, <2>3, <2>5, <2>6, <2>8, <2>9 DEF TapeOK, WellFormed, IsEmpty
  <2>11. FrontOp(Pop(tape)) = q[2]
    BY <2>10, <2>3, <2>7, TapeFacts
  <2>12. QED
    BY <1>3, <2>10, <2>11 DEF q
<1>4. QED
  BY <1>2, <1>3

\* A jam winds the queue back to itself.
LEMMA RewindOK ==
    ASSUME NEW tape, TapeOK(tape), Len(tape.todo) # 1, ~IsEmpty(tape)
    PROVE  DecHead(Pop(tape)) = tape
<1> DEFINE q == tape.todo
           t == Tail(q)
           d == tape.done
           a == Append(d, Head(q))
<1>1. d \in Seq(MicroOp) /\ q \in Seq(MicroOp) /\ q # << >> /\ tape = [done |-> d, todo |-> q]
      /\ Len(d) \in Nat
  BY TapeFacts
<1>2. Head(q) \in MicroOp /\ t \in Seq(MicroOp)
  BY <1>1, HeadTailProperties
<1>3. Pop(tape) = [done |-> a, todo |-> t]
  BY DEF Pop
<1>4. /\ a \in Seq(MicroOp)
      /\ Len(a) = Len(d) + 1
      /\ \A i \in 1..Len(d) : a[i] = d[i]
      /\ a[Len(d) + 1] = Head(q)
  BY <1>1, <1>2, AppendProperties
<1>5. Last(a) = Head(q)
  BY <1>4 DEF Last
<1>6. Front(a) = d
  <2>1. Front(a) = SubSeq(a, 1, Len(d))
    BY <1>1, <1>4 DEF Front
  <2> HIDE DEF a, d
  <2>2. \A i \in 1..Len(d) : a[i] \in MicroOp
    BY <1>1, <1>4, ElementOfSeq
  <2>3. /\ SubSeq(a, 1, Len(d)) \in Seq(MicroOp)
        /\ Len(SubSeq(a, 1, Len(d))) = IF 1 <= Len(d) THEN Len(d) - 1 + 1 ELSE 0
        /\ \A i \in 1..(Len(d) - 1 + 1) : SubSeq(a, 1, Len(d))[i] = a[1 + i - 1]
    BY <1>1, <2>2, SubSeqProperties
  <2>4. Len(SubSeq(a, 1, Len(d))) = Len(d)
    BY <1>1, <2>3
  <2>5. \A i \in 1..Len(d) : SubSeq(a, 1, Len(d))[i] = d[i]
    BY <1>1, <1>4, <2>3
  <2>6. SubSeq(a, 1, Len(d)) = d
    BY <1>1, <2>3, <2>4, <2>5, SeqEqual
  <2>7. QED
    BY <2>1, <2>6
<1>7. << Head(q) >> \o t = q
  BY <1>1
<1>8. QED
  BY <1>1, <1>3, <1>5, <1>6, <1>7 DEF DecHead

\* Whatever the ALU operation of the op does to the queue, it can be run on.
LEMMA AfterAluOK ==
    ASSUME NEW tape, TapeOK(tape), ~IsEmpty(tape), NEW crossed, NEW taken
    PROVE  TapeOK(AfterAlu(FrontOp(tape), Pop(tape), crossed, taken))
<1> DEFINE op == FrontOp(tape)
           after == AfterAlu(op, Pop(tape), crossed, taken)
<1>1. Fits(tape.todo, 1) /\ op = tape.todo[1] /\ Len(tape.todo) \in Nat \ {0}
  BY TapeFacts
<1>2. CASE op.alu.op = "Jam"
  <2>1. Len(tape.todo) # 1
    BY <1>1, <1>2, SMTT(20) DEF Fits, PlainOp, Executables
  <2>2. after = DecHead(Pop(tape))
    BY <1>2 DEF AfterAlu
  <2>3. QED
    BY <2>1, <2>2, RewindOK
<1>3. CASE op.alu.op = "OffsetWithExtraCycle"
  <2>1. Len(tape.todo) > 1 /\ tape.todo[2] \in PlainOp
    BY <1>1, <1>3 DEF Fits, PlainOp, Executables
  <2>2. TapeOK(Pop(tape)) /\ ~IsEmpty(Pop(tape)) /\ FrontOp(Pop(tape)).alu.op # "Jam"
    BY <1>3, <2>1, PopOK DEF PlainOp
  <2>3. TapeOK(Pop(Pop(tape)))
    BY <2>2, PopOK
  <2>4. after = AfterOffset(Pop(tape), crossed)
    BY <1>3 DEF AfterAlu
  <2>5. QED
    BY <2>2, <2>3, <2>4, EmptyOK DEF AfterOffset
<1>4. CASE op.alu.op = "Branch"
  <2>1. Len(tape.todo) = 1
    BY <1>1, <1>4 DEF Fits, PlainOp, Executables
  <2>2. Pop(tape) = EmptyTape
    BY <1>4, <2>1, PopOK
  <2>3. Emission(BranchTail(crossed))
    <3> DEFINE a == ReadPcSetPc(0)
               b == ReadOp("Pc", "None", FALSE)
    <3>1. a \in PlainOp /\ b \in PlainOp
      BY Reads, OtherOpsPlain DEF Latch
    <3>2. BranchTail(crossed) \in {<< a >>, << a, a >>, << b, a >>}
      BY DEF BranchTail
    <3> HIDE DEF a, b
    <3>3. Emission(<< a >>) /\ Emission(<< a, a >>) /\ Emission(<< b, a >>)
      BY <3>1, PlainTuples, ShortEmission
    <3>4. QED
      BY <3>2, <3>3
  <2>4. after = IF taken THEN PushAll(EmptyTape, BranchTail(crossed)) ELSE EmptyTape
    BY <1>4, <2>2 DEF AfterAlu
  <2>5. QED
    BY <2>3, <2>4, PushOK, EmptyOK
<1>5. CASE op.alu.op \notin {"Jam", "OffsetWithExtraCycle", "Branch"}
  <2>1. TapeOK(Pop(tape))
    BY <1>5, PopOK
  <2>2. after \in {Pop(tape), EmptyTape}
    BY <1>5 DEF AfterAlu
  <2>3. QED
    BY <2>1, <2>2, EmptyOK
<1>6. QED
  BY <1>2, <1>3, <1>4, <1>5

\* The entry of an interrupt, whose first op runs in the cycle that starts it.
LEMMA EntryOK ==
    ASSUME NEW interrupt \in {"Irq", "Nmi"}
    PROVE  /\ TapeOK(Pop(PushAll(EmptyTape, EmitInt(interrupt))))
           /\ ~IsEmpty(Pop(PushAll(EmptyTape, EmitInt(interrupt))))
<1> DEFINE s == EmitInt(interrupt)
           tape == PushAll(EmptyTape, s)
<1>1. Emission(s) /\ Len(s) = 6
  BY EmitIntWell
<1>2. s[1].alu.op = "None"
  BY DEF EmitInt, ReadOp, Op, Alu
<1> HIDE DEF s
<1>3. s \in Seq(MicroOp)
  BY <1>1 DEF Emission, WellFormed
<1>4. tape.todo = s
  BY <1>3, ConcatEmptySeq DEF PushAll, EmptyTape
<1>5. TapeOK(tape)
  BY <1>1, PushOK
<1> HIDE DEF tape
<1>6. Len(tape.todo) = 6
  BY <1>1, <1>4
<1>7. ~IsEmpty(tape)
  BY <1>6, EmptySeq DEF IsEmpty
<1>8. FrontOp(tape).alu.op # "Jam"
  BY <1>2, <1>4, <1>5, <1>7, TapeFacts
<1>9. Len(tape.todo) > 1
  BY <1>6
<1>10. QED
  BY <1>5, <1>7, <1>8, <1>9, PopOK DEF s, tape

-----------------------------------------------------------------------------
(* The inductive invariant.                                                *)

RunType ==
    [source : {"none", "program", "irq", "nmi"}, cycles : Nat, advance : Int, moved : Int,
     writes : Int, retired : Int, crossed : BOOLEAN, taken : BOOLEAN]

\* No instruction without a table entry, and a core that fetched nothing has an empty queue
QueueInv ==
    /\ TapeOK(ucycs)
    /\ current_inst = NoInst => ucycs = EmptyTape

\* Where an instruction came from: an interrupt entry runs BRK, saves no old I and ends
\* with I set.
SourceInv ==
    /\ current_inst = NoInst <=> run.source = "none"
    /\ current_inst # NoInst => run.cycles > 0
    /\ run.source \in {"irq", "nmi"} =>
          /\ current_inst = Decode[0]
          /\ old_i = "none"
          /\ IsEmpty(ucycs) => "I" \in p

IInv == StateTypeOK /\ run \in RunType /\ QueueInv /\ SourceInv

LEMMA DecodedFacts ==
    ASSUME NEW opcode \in Opcode
    PROVE  /\ Decode[opcode] \in Instruction /\ Decode[opcode] # NoInst
           /\ opcode \in 0..255
           /\ Emission(EmitUcycs(F, Decode[opcode].address_mode, Decode[opcode].memory_action))
<1>1. /\ Decode[opcode] \in Instruction /\ Decode[opcode] # NoInst /\ opcode \in 0..255
      /\ Emittable(F, Decode[opcode].address_mode, Decode[opcode].memory_action)
      /\ Decode[opcode].address_mode.kind = "CmosNop" =>
            << Decode[opcode].address_mode.bytes, Decode[opcode].address_mode.cycles >>
               \in NopShapes
  BY DecodeAssumption
<1>2. Decode[opcode].address_mode \in AddressMode /\ Decode[opcode].memory_action \in MemoryAction
  BY <1>1 DEF Instruction
<1>3. QED
  BY <1>1, <1>2, EmitWell

LEMMA LineTypes ==
    ASSUME NEW lines \in Lines, pending_nmi \in BOOLEAN, prev_nmi \in BOOLEAN
    PROVE  lines.nmi \in BOOLEAN /\ PendingNmi(lines) \in BOOLEAN
BY LinesAssumption DEF PendingNmi

LEMMA SampledTypes ==
    ASSUME IInv, NEW lines \in Lines, SampleNmi(lines)
    PROVE  prev_nmi' \in BOOLEAN /\ pending_nmi' \in BOOLEAN
BY LineTypes DEF IInv, StateTypeOK, SampleNmi

LEMMA PoweredIInv == ASSUME Powered, p \in SUBSET {"I", "D"} PROVE IInv
<1>1. StateTypeOK
  <2>1. bus \in BusCall
    BY DEF Powered, BusCall, Cycle, Latch
  <2>2. current_opcode \in 0..255
    BY DEF Powered
  <2>3. ucycs \in Tape(MicroOp) /\ current_inst \in Instruction \cup {NoInst}
    BY EmptyOK DEF Powered, TapeOK
  <2>4. QED
    BY <2>1, <2>2, <2>3 DEF Powered, StateTypeOK
<1>2. run \in RunType /\ SourceInv
  BY DEF Powered, NewRun, RunType, SourceInv
<1>3. QueueInv
  BY EmptyOK DEF Powered, QueueInv
<1>4. QED
  BY <1>1, <1>2, <1>3 DEF IInv

LEMMA InitIInv == Init => IInv
BY PoweredIInv DEF Init

LEMMA ResetKeeps == ASSUME IInv, Reset PROVE IInv'
<1>1. StateTypeOK'
  BY EmptyOK DEF IInv, Reset, StateTypeOK, TapeOK, BusCall, Cycle
<1>2. (run \in RunType)' /\ SourceInv'
  BY DEF Reset, NewRun, RunType, SourceInv
<1>3. QueueInv'
  BY EmptyOK DEF Reset, QueueInv
<1>4. QED
  BY <1>1, <1>2, <1>3 DEF IInv

LEMMA StallKeeps == ASSUME IInv, NEW lines \in Lines, Stall(lines) PROVE IInv'
<1>1. prev_nmi' \in BOOLEAN /\ pending_nmi' \in BOOLEAN
  BY SampledTypes DEF Stall
<1>2. UNCHANGED << ucycs, current_inst, current_opcode, p, extra_adc_sbc_cycle, old_i, bus, run >>
  BY DEF Stall, cpuVars
<1>3. QED
  BY <1>1, <1>2 DEF IInv, StateTypeOK, QueueInv, SourceInv

\* Both fetches start from an empty queue.
LEMMA FetchKeeps ==
    ASSUME IInv, ucycs = EmptyTape, NEW opcode \in Opcode, FetchAndPrepare(opcode),
           prev_nmi' \in BOOLEAN, pending_nmi' \in BOOLEAN, UNCHANGED p,
           extra_adc_sbc_cycle' \in BOOLEAN, old_i' \in {"none", "set", "clear"}
    PROVE  IInv'
<1> DEFINE s == EmitUcycs(F, Decode[opcode].address_mode, Decode[opcode].memory_action)
<1>1. Decode[opcode] \in Instruction /\ Decode[opcode] # NoInst /\ opcode \in 0..255 /\ Emission(s)
  BY DecodedFacts
<1> HIDE DEF s
<1>2. TapeOK(ucycs')
  BY <1>1, PushOK DEF FetchAndPrepare, s
<1>3. current_inst' = Decode[opcode] /\ current_opcode' = opcode
  BY DEF FetchAndPrepare
<1>4. StateTypeOK'
  BY <1>1, <1>2, <1>3 DEF IInv, StateTypeOK, TapeOK, FetchAndPrepare, BusCall, Cycle, Latch
<1>5. run' = NewRun("program", 1, 1)
  BY DEF FetchAndPrepare
<1>6. (run \in RunType)' /\ SourceInv'
  BY <1>1, <1>3, <1>5 DEF NewRun, RunType, SourceInv
<1>7. QueueInv'
  BY <1>1, <1>2, <1>3 DEF QueueInv
<1>8. QED
  BY <1>4, <1>6, <1>7 DEF IInv

LEMMA EntryKeeps ==
    ASSUME IInv, ucycs = EmptyTape, NEW interrupt \in {"Irq", "Nmi"},
           NEW source \in {"irq", "nmi"}, StartInterrupt(interrupt, source),
           prev_nmi' \in BOOLEAN, pending_nmi' \in BOOLEAN, UNCHANGED p,
           extra_adc_sbc_cycle' \in BOOLEAN, old_i' = "none"
    PROVE  IInv'
<1>1. Decode[0] \in Instruction /\ Decode[0] # NoInst
  BY DecodedFacts, DecodeAssumption
<1>2. TapeOK(ucycs') /\ ~IsEmpty(ucycs')
  BY EntryOK DEF StartInterrupt
<1>3. current_inst' = Decode[0] /\ current_opcode' = 0
  BY DEF StartInterrupt
<1>4. bus' \in BusCall
  <2>1. bus' = Head(EmitInt(interrupt)).bus
    BY DEF StartInterrupt
  <2>2. Head(EmitInt(interrupt)) = ReadOp("Pc", "None", interrupt = "Brk")
    BY DEF EmitInt
  <2>3. \A inc : ReadOp("Pc", "None", inc).bus \in BusCall
    BY DEF ReadOp, Op, Cycle, BusCall, Latch
  <2>4. QED
    BY <2>1, <2>2, <2>3
<1>5. StateTypeOK'
  BY <1>1, <1>2, <1>3, <1>4 DEF IInv, StateTypeOK, TapeOK
<1>6. PICK advance \in {0, 1} : run' = NewRun(source, 1, advance)
  <2> DEFINE advance == IF Head(EmitInt(interrupt)).inc_src THEN 1 ELSE 0
  <2>1. advance \in {0, 1}
    OBVIOUS
  <2>2. run' = NewRun(source, 1, advance)
    BY DEF StartInterrupt
  <2> HIDE DEF advance
  <2>3. QED
    BY <2>1, <2>2
<1>7. (run \in RunType)' /\ SourceInv'
  BY <1>1, <1>2, <1>3, <1>6 DEF NewRun, RunType, SourceInv
<1>8. QueueInv'
  BY <1>1, <1>2, <1>3 DEF QueueInv
<1>9. QED
  BY <1>5, <1>7, <1>8 DEF IInv

LEMMA DecimalKeeps == ASSUME IInv, NEW lines \in Lines, DecimalCycle(lines) PROVE IInv'
<1>1. prev_nmi' \in BOOLEAN /\ pending_nmi' \in BOOLEAN
  BY SampledTypes DEF DecimalCycle
<1>2. UNCHANGED << ucycs, current_inst, current_opcode, p, old_i >>
  BY DEF DecimalCycle
<1>3. bus' \in BusCall /\ extra_adc_sbc_cycle' = TRUE
  BY DEF DecimalCycle, BusCall, Cycle, Latch
<1>4. run' = [run EXCEPT !.cycles = @ + 1] /\ run \in RunType
  BY DEF DecimalCycle, IInv
<1>5. run' \in RunType /\ run'.source = run.source /\ run'.cycles = run.cycles + 1
  BY <1>4 DEF RunType
<1>6. run.cycles \in Nat
  BY <1>4 DEF RunType
<1>7. StateTypeOK'
  BY <1>1, <1>2, <1>3 DEF IInv, StateTypeOK
<1>8. QueueInv' /\ SourceInv'
  BY <1>2, <1>5, <1>6 DEF IInv, QueueInv, SourceInv
<1>9. QED
  BY <1>5, <1>7, <1>8 DEF IInv

\* The history counts, it does not decide.
LEMMA CountedFacts ==
    ASSUME run \in RunType, NEW op \in MicroOp, NEW crossed \in BOOLEAN, NEW taken \in BOOLEAN,
           NEW retires \in BOOLEAN
    PROVE  /\ Counted(op, crossed, taken, retires) \in RunType
           /\ Counted(op, crossed, taken, retires).source = run.source
           /\ Counted(op, crossed, taken, retires).cycles > 0
<1> DEFINE cycles == IF run.cycles < MaxCycles THEN run.cycles + 1 ELSE run.cycles
           advance == IF op.inc_src /\ op.bus.addr = "Pc" THEN run.advance + 1 ELSE run.advance
           moved == run.moved + Moved(op)
           writes == IF op.bus.read THEN run.writes ELSE run.writes + 1
           retired == IF retires THEN run.retired + 1 ELSE run.retired
           crossing == run.crossed \/ crossed
           taking == run.taken \/ taken
           c == Counted(op, crossed, taken, retires)
<1>1. Moved(op) \in Int
  BY DEF Moved
<1>2. run.cycles \in Nat /\ run.moved \in Int /\ run.advance \in Int /\ run.writes \in Int
      /\ run.retired \in Int /\ run.crossed \in BOOLEAN /\ run.taken \in BOOLEAN
  BY DEF RunType
<1>3. cycles \in Nat /\ cycles > 0 /\ advance \in Int /\ moved \in Int /\ writes \in Int
      /\ retired \in Int
  BY <1>1, <1>2 DEF MaxCycles
<1>4. crossing \in BOOLEAN /\ taking \in BOOLEAN
  OBVIOUS
<1>5. c = [run EXCEPT !.cycles = cycles, !.advance = advance, !.moved = moved,
                      !.writes = writes, !.retired = retired, !.crossed = crossing,
                      !.taken = taking]
  BY DEF Counted
<1> HIDE DEF cycles, advance, moved, writes, retired, crossing, taking, c
<1>6. c \in RunType /\ c.source = run.source /\ c.cycles = cycles
  BY <1>3, <1>4, <1>5 DEF RunType
<1>7. QED
  BY <1>3, <1>6 DEF c

LEMMA ExecuteKeeps == ASSUME IInv, NEW lines \in Lines, Execute(lines) PROVE IInv'
<1> DEFINE op == FrontOp(ucycs)
<1>1. PICK crossed \in Crossings(op), taken \in BranchOutcomes(op), pulled \in PulledStatus(op) :
          ExecuteMicroOp(op, crossed, taken, pulled)
  BY DEF Execute
<1>2. /\ current_inst # NoInst /\ ~IsEmpty(ucycs) /\ TapeOK(ucycs)
      /\ UNCHANGED << current_inst, current_opcode, extra_adc_sbc_cycle >>
  BY DEF Execute, IInv, QueueInv
<1>3. prev_nmi' \in BOOLEAN /\ pending_nmi' \in BOOLEAN
  BY SampledTypes DEF Execute
<1>4. op \in MicroOp
  BY <1>2, TapeFacts
<1>5. crossed \in BOOLEAN /\ taken \in BOOLEAN /\ pulled \in SUBSET {"I", "D"}
  BY DEF Crossings, BranchOutcomes, PulledStatus, IInv, StateTypeOK
<1>6. TapeOK(ucycs')
  BY <1>1, <1>2, AfterAluOK DEF ExecuteMicroOp
<1>7. p' \in SUBSET {"I", "D"} /\ old_i' \in {"none", "set", "clear"}
  BY <1>1, <1>5 DEF ExecuteMicroOp, Finished, FinishRead, FinishImplied, IInv, StateTypeOK
<1>8. bus' \in BusCall
  <2>1. bus' = op.bus /\ op.bus \in BusCycleType
    BY <1>1, <1>4 DEF ExecuteMicroOp, MicroOp
  <2>2. QED
    BY <2>1 DEF BusCycleType, BusCall
<1>9. StateTypeOK'
  BY <1>2, <1>3, <1>6, <1>7, <1>8 DEF IInv, StateTypeOK, TapeOK
<1>10. run' \in RunType /\ run'.source = run.source /\ run'.cycles > 0
  <2>1. run' = Counted(op, crossed, taken, IsEmpty(ucycs'))
    BY <1>1 DEF ExecuteMicroOp
  <2>2. IsEmpty(ucycs') \in BOOLEAN
    BY DEF IsEmpty
  <2>3. run \in RunType
    BY DEF IInv
  <2>4. QED
    BY <1>4, <1>5, <2>1, <2>2, <2>3, CountedFacts
<1>11. SourceInv'
  <2>1. ASSUME run.source \in {"irq", "nmi"}
        PROVE  old_i' = "none" /\ (IsEmpty(ucycs') => "I" \in p')
    <3>1. current_inst = Decode[0] /\ old_i = "none"
      BY <2>1 DEF IInv, SourceInv
    <3>2. current_inst.mnemonic = "Brk" /\ current_inst.address_mode.kind = "Brk"
      BY <3>1, DecodeAssumption DEF PlainMode
    <3>3. ~SavesOldI
      BY <3>2 DEF SavesOldI
    <3>4. \A status : "I" \in Finished(status, pulled)
      BY <3>2 DEF Finished
    <3>5. QED
      BY <1>1, <3>1, <3>3, <3>4 DEF ExecuteMicroOp
  <2>2. QED
    BY <1>2, <1>10, <2>1 DEF IInv, SourceInv
<1>12. QueueInv'
  BY <1>2, <1>6 DEF QueueInv
<1>13. QED
  BY <1>9, <1>10, <1>11, <1>12 DEF IInv

\* At the poll the queue is empty and the latches are cleared.
LEMMA PollFacts ==
    ASSUME IInv, NEW lines \in Lines, Poll(lines)
    PROVE  /\ ucycs = EmptyTape /\ current_inst # NoInst /\ old_i' = "none"
           /\ extra_adc_sbc_cycle' = FALSE /\ prev_nmi' \in BOOLEAN /\ UNCHANGED p
           /\ run.source # "none"
<1>1. lines.nmi \in BOOLEAN
  BY LineTypes DEF IInv, StateTypeOK
<1>2. QED
  BY <1>1 DEF Poll, AtBoundary, IInv, QueueInv, TapeOK, SourceInv

LEMMA StepKeeps == ASSUME IInv, NEW lines \in Lines, StepWith(lines) PROVE IInv'
<1>1. CASE Stall(lines)
  BY <1>1, StallKeeps
<1>2. CASE FirstFetch(lines)
  <2>1. prev_nmi' \in BOOLEAN /\ pending_nmi' \in BOOLEAN
    BY <1>2, SampledTypes DEF FirstFetch
  <2>2. PICK opcode \in Opcode : FetchAndPrepare(opcode)
    BY <1>2 DEF FirstFetch
  <2>3. /\ ucycs = EmptyTape /\ UNCHANGED p
        /\ extra_adc_sbc_cycle' \in BOOLEAN /\ old_i' \in {"none", "set", "clear"}
    BY <1>2 DEF FirstFetch, IInv, QueueInv, StateTypeOK
  <2>4. QED
    BY <2>1, <2>2, <2>3, FetchKeeps
<1>3. CASE Execute(lines)
  BY <1>3, ExecuteKeeps
<1>4. CASE DecimalCycle(lines)
  BY <1>4, DecimalKeeps
<1>5. CASE ServiceNmi(lines)
  <2>1. Poll(lines) /\ pending_nmi' \in BOOLEAN /\ StartInterrupt("Nmi", "nmi")
    BY <1>5 DEF ServiceNmi
  <2>2. QED
    BY <2>1, PollFacts, EntryKeeps
<1>6. CASE ServiceIrq(lines)
  <2>1. Poll(lines) /\ pending_nmi' \in BOOLEAN /\ StartInterrupt("Irq", "irq")
    BY <1>6 DEF ServiceIrq
  <2>2. QED
    BY <2>1, PollFacts, EntryKeeps
<1>7. CASE FetchNext(lines)
  <2>1. Poll(lines) /\ pending_nmi' \in BOOLEAN
    BY <1>7 DEF FetchNext
  <2>2. PICK opcode \in Opcode : FetchAndPrepare(opcode)
    BY <1>7 DEF FetchNext
  <2>3. QED
    BY <2>1, <2>2, PollFacts, FetchKeeps
<1>8. QED
  BY <1>1, <1>2, <1>3, <1>4, <1>5, <1>6, <1>7 DEF StepWith

LEMMA NextIInv == IInv /\ [Next]_vars => IInv'
<1> SUFFICES ASSUME IInv, [Next]_vars PROVE IInv'
  OBVIOUS
<1>1. CASE Step
  BY <1>1, StepKeeps DEF Step
<1>2. CASE Reset
  BY <1>2, ResetKeeps
<1>3. CASE UNCHANGED vars
  BY <1>3 DEF vars, cpuVars, nmiVars, IInv, StateTypeOK, QueueInv, SourceInv
<1>4. QED
  BY <1>1, <1>2, <1>3 DEF Next

LEMMA Invariance == Spec => []IInv
BY InitIInv, NextIInv, PTL DEF Spec

\* The registers and latches of the core keep their types.
THEOREM StateTypes == Spec => []StateTypeOK
<1>1. IInv => StateTypeOK
  BY DEF IInv
<1>2. QED
  BY <1>1, Invariance, PTL

\* The unchecked micro-op array is never overrun, an emitter always finds it empty, and
\* no program reaches an unimplemented!() latch, whatever the opcode table, the lines, the
\* data and the resets.
THEOREM QueueStaysSafe == Spec => []QueueSafe
<1>1. IInv => QueueSafe
  <2> SUFFICES ASSUME IInv PROVE QueueSafe
    OBVIOUS
  <2>1. /\ TapeOK(ucycs)
        /\ current_inst = NoInst => ucycs = EmptyTape
    BY DEF IInv, QueueInv
  <2>2. Slots(ucycs) <= MAX_UCYC
    <3>1. Len(ucycs.done) \in Nat /\ Len(ucycs.todo) \in Nat
      BY <2>1, LenProperties DEF TapeOK, Tape
    <3>2. Slots(ucycs) \in Nat
      <4>1. \A m, n \in Nat : m + n \in Nat
        OBVIOUS
      <4>2. QED
        BY <3>1, <4>1 DEF Slots
    <3>3. Slots(ucycs) <= 7
      BY <2>1 DEF TapeOK
    <3>4. QED
      BY <3>2, <3>3 DEF MAX_UCYC
  <2>3. ASSUME ~IsEmpty(ucycs) PROVE Executable(FrontOp(ucycs))
    <3>1. Fits(ucycs.todo, 1) /\ FrontOp(ucycs) = ucycs.todo[1]
      BY <2>1, <2>3, TapeFacts
    <3>2. QED
      BY <3>1 DEF Fits, PlainOp, Executables
  <2>4. QED
    BY <2>1, <2>2, <2>3 DEF QueueSafe, TapeOK
<1>2. QED
  BY <1>1, Invariance, PTL

-----------------------------------------------------------------------------
(* No IRQ straight after an interrupt entry.                               *)

IrqStep ==
    run' # run /\ run'.source = "irq" /\ run'.cycles = 1 => AtBoundary /\ run.source = "program"

LEMMA NextIrq == IInv /\ [Next]_vars => IrqStep
<1> SUFFICES ASSUME IInv, [Next]_vars, run' # run, run'.source = "irq", run'.cycles = 1
             PROVE  AtBoundary /\ run.source = "program"
  BY DEF IrqStep
<1>1. ASSUME NEW lines \in Lines, ServiceIrq(lines) PROVE AtBoundary /\ run.source = "program"
  <2>1. AtBoundary /\ IsEmpty(ucycs) /\ ~IrqDisable
    BY <1>1 DEF ServiceIrq, Poll, AtBoundary
  <2>2. run.source # "none"
    BY <1>1, PollFacts DEF ServiceIrq
  <2>3. run.source \notin {"irq", "nmi"}
    BY <2>1 DEF IInv, SourceInv, IrqDisable
  <2>4. run.source \in {"none", "program", "irq", "nmi"}
    BY DEF IInv, RunType
  <2>5. QED
    BY <2>1, <2>2, <2>3, <2>4
<1>2. ASSUME NEW lines \in Lines, Execute(lines) PROVE FALSE
  <2> DEFINE op == FrontOp(ucycs)
  <2>1. PICK crossed \in Crossings(op), taken \in BranchOutcomes(op), pulled \in PulledStatus(op) :
            ExecuteMicroOp(op, crossed, taken, pulled)
    BY <1>2 DEF Execute
  <2>2. run' = Counted(op, crossed, taken, IsEmpty(ucycs'))
    BY <2>1 DEF ExecuteMicroOp
  <2>3. run.cycles \in Nat /\ run.cycles > 0 /\ run \in RunType
    BY <1>2 DEF IInv, RunType, SourceInv, Execute
  <2>4. run'.cycles = IF run.cycles < MaxCycles THEN run.cycles + 1 ELSE run.cycles
    BY <2>2, <2>3 DEF Counted, RunType
  <2>5. QED
    BY <2>3, <2>4 DEF MaxCycles
<1>3. ASSUME NEW lines \in Lines, DecimalCycle(lines) PROVE FALSE
  <2>1. run.cycles \in Nat /\ run.cycles > 0 /\ run \in RunType
    BY <1>3 DEF IInv, RunType, SourceInv, DecimalCycle, AtBoundary
  <2>2. run'.cycles = run.cycles + 1
    BY <1>3, <2>1 DEF DecimalCycle, RunType
  <2>3. QED
    BY <2>1, <2>2
<1>4. ASSUME NEW lines \in Lines, FirstFetch(lines) \/ FetchNext(lines) \/ ServiceNmi(lines)
      PROVE  FALSE
  <2>1. \A source, advance : NewRun(source, 1, advance).source = source
    BY DEF NewRun
  <2>2. run'.source \in {"program", "nmi"}
    BY <1>4, <2>1 DEF FirstFetch, FetchNext, ServiceNmi, FetchAndPrepare, StartInterrupt
  <2>3. QED
    BY <2>2
<1>5. ASSUME NEW lines \in Lines, Stall(lines) PROVE FALSE
  BY <1>5 DEF Stall
<1>6. CASE Reset
  BY <1>6 DEF Reset, NewRun
<1>7. CASE UNCHANGED vars
  BY <1>7 DEF vars
<1>8. QED
  BY <1>1, <1>2, <1>3, <1>4, <1>5, <1>6, <1>7 DEF Next, Step, StepWith

\* Interrupt entries do not nest through IRQ: the first instruction of a handler always
\* runs, and an IRQ is only ever taken at the end of an instruction of the program.
THEOREM IrqNeverNests == Spec => NoNestedIrq
<1>1. IInv /\ [Next]_vars => [IrqStep]_vars
  BY NextIrq
<1>2. QED
  BY <1>1, Invariance, PTL DEF Spec, NoNestedIrq, IrqStep

-----------------------------------------------------------------------------
(* Wait states and jams.                                                   *)

JamStep == Jammed /\ ~Jammed' => current_inst' = NoInst

LEMMA NextJam == IInv /\ [Next]_vars => JamStep
<1> SUFFICES ASSUME IInv, [Next]_vars, Jammed, ~Jammed' PROVE current_inst' = NoInst
  BY DEF JamStep
<1>1. TapeOK(ucycs) /\ ~IsEmpty(ucycs) /\ FrontOp(ucycs).alu.op = "Jam" /\ current_inst # NoInst
  BY EmptyOK DEF IInv, QueueInv, Jammed
<1>2. ucycs' # ucycs
  BY DEF Jammed
<1>3. ASSUME NEW lines \in Lines, Execute(lines) PROVE FALSE
  <2>1. Len(ucycs.todo) # 1
    <3>1. Fits(ucycs.todo, 1) /\ FrontOp(ucycs) = ucycs.todo[1] /\ Len(ucycs.todo) \in Nat
      BY <1>1, TapeFacts
    <3>2. QED
      BY <1>1, <3>1 DEF Fits, PlainOp, Executables
  <2>2. DecHead(Pop(ucycs)) = ucycs
    BY <1>1, <2>1, RewindOK
  <2>3. ucycs' = DecHead(Pop(ucycs))
    BY <1>1, <1>3 DEF Execute, ExecuteMicroOp, AfterAlu
  <2>4. QED
    BY <1>2, <2>2, <2>3
<1>4. ASSUME NEW lines \in Lines, Stall(lines) \/ DecimalCycle(lines) PROVE FALSE
  BY <1>2, <1>4 DEF Stall, DecimalCycle, cpuVars
<1>5. ASSUME NEW lines \in Lines, FirstFetch(lines) PROVE FALSE
  BY <1>1, <1>5 DEF FirstFetch
<1>6. ASSUME NEW lines \in Lines, ServiceNmi(lines) \/ ServiceIrq(lines) \/ FetchNext(lines)
      PROVE  FALSE
  BY <1>1, <1>6 DEF ServiceNmi, ServiceIrq, FetchNext, Poll, AtBoundary
<1>7. CASE Reset
  BY <1>7 DEF Reset
<1>8. CASE UNCHANGED vars
  BY <1>2, <1>8 DEF vars, cpuVars
<1>9. QED
  BY <1>3, <1>4, <1>5, <1>6, <1>7, <1>8 DEF Next, Step, StepWith

\* Only reset gets a jammed processor going again.
THEOREM JamNeedsReset == Spec => JamUntilReset
<1>1. IInv /\ [Next]_vars => [JamStep]_vars
  BY NextJam
<1>2. QED
  BY <1>1, Invariance, PTL DEF Spec, JamUntilReset, JamStep

\* An op that is executed leaves the queue, unless it is a jam or a branch.
LEMMA PopChanges == ASSUME NEW tape, TapeOK(tape), ~IsEmpty(tape) PROVE Pop(tape) # tape
<1>1. tape.todo \in Seq(MicroOp) /\ tape.todo # << >> /\ Len(tape.todo) \in Nat
  BY TapeFacts
<1>2. CASE Len(tape.todo) = 1
  BY <1>1, <1>2 DEF Pop, EmptyTape
<1>3. CASE Len(tape.todo) # 1
  <2>1. Pop(tape).todo = Tail(tape.todo)
    BY <1>3 DEF Pop
  <2>2. Len(Tail(tape.todo)) = Len(tape.todo) - 1
    BY <1>1, HeadTailProperties
  <2>3. Len(Tail(tape.todo)) # Len(tape.todo)
    BY <1>1, <2>2
  <2>4. Tail(tape.todo) # tape.todo
    BY <2>3
  <2>5. QED
    BY <2>1, <2>4
<1>4. QED
  BY <1>2, <1>3

WriteStep ==
    WritePending => (bus' = FrontOp(ucycs).bus /\ ucycs' # ucycs) \/ current_inst' = NoInst

LEMMA NextWrite == IInv /\ Next => WriteStep
<1> SUFFICES ASSUME IInv, Next, WritePending, current_inst' # NoInst
             PROVE  bus' = FrontOp(ucycs).bus /\ ucycs' # ucycs
  BY DEF WriteStep
<1> DEFINE op == FrontOp(ucycs)
<1>1. TapeOK(ucycs) /\ ~IsEmpty(ucycs) /\ current_inst # NoInst /\ ~op.bus.read
  BY DEF WritePending, IInv, QueueInv
<1>2. op \in PlainOp
  BY <1>1, TapeFacts DEF Fits, Executables
<1>3. ASSUME NEW lines \in Lines, Execute(lines) PROVE bus' = op.bus /\ ucycs' # ucycs
  <2>1. PICK crossed \in Crossings(op), taken \in BranchOutcomes(op), pulled \in PulledStatus(op) :
            ExecuteMicroOp(op, crossed, taken, pulled)
    BY <1>3 DEF Execute
  <2>2. bus' = op.bus /\ ucycs' = AfterAlu(op, Pop(ucycs), crossed, taken)
    BY <2>1 DEF ExecuteMicroOp
  <2>3. ucycs' \in {Pop(ucycs), EmptyTape}
    BY <1>2, <2>2 DEF AfterAlu, PlainOp
  <2>4. QED
    BY <1>1, <2>2, <2>3, PopChanges, EmptyOK
<1>4. ASSUME NEW lines \in Lines, Stall(lines) \/ FirstFetch(lines) PROVE FALSE
  BY <1>1, <1>4 DEF Stall, NextCycleRead, FirstFetch
<1>5. ASSUME NEW lines \in Lines,
             DecimalCycle(lines) \/ ServiceNmi(lines) \/ ServiceIrq(lines) \/ FetchNext(lines)
      PROVE  FALSE
  BY <1>1, <1>5 DEF DecimalCycle, ServiceNmi, ServiceIrq, FetchNext, Poll, AtBoundary
<1>6. CASE Reset
  BY <1>6 DEF Reset
<1>7. QED
  BY <1>3, <1>4, <1>5, <1>6 DEF Next, Step, StepWith

\* RDY never delays a write: the pending write is the very next bus cycle.
THEOREM RdyStallsReadsOnly == Spec => WritesIgnoreRdy
<1>1. IInv /\ [Next]_vars => [WriteStep]_vars
  BY NextWrite
<1>2. QED
  BY <1>1, Invariance, PTL DEF Spec, WritesIgnoreRdy, WriteStep

-----------------------------------------------------------------------------
(* Weights.                                                                *)

AdvanceOf == [op \in MicroOp |-> IF op.inc_src /\ op.bus.addr = "Pc" THEN 1 ELSE 0]
MovedOf == [op \in MicroOp |-> Moved(op)]
WritesOf == [op \in MicroOp |-> IF op.bus.read THEN 0 ELSE 1]
Weights == {AdvanceOf, MovedOf, WritesOf}
Weightless(op) == AdvanceOf[op] = 0 /\ MovedOf[op] = 0 /\ WritesOf[op] = 0

\* The weight of the op at a position of a queue, and of the queue from there on: no
\* queue is longer than seven ops.
At(w, s, i) == IF i \in 1..Len(s) THEN w[s[i]] ELSE 0
From(w, s, i) ==
    At(w, s, i) + At(w, s, i + 1) + At(w, s, i + 2) + At(w, s, i + 3) + At(w, s, i + 4)
    + At(w, s, i + 5) + At(w, s, i + 6)

-----------------------------------------------------------------------------
(* What an instruction amounts to, and where its ops stand.                *)

Kind(inst) == inst.address_mode.kind
Indexed(inst) ==
    \/ Kind(inst) = "Absolute" /\ inst.address_mode.offset # "None"
    \/ Kind(inst) = "DpIndirect" /\ inst.address_mode.offset = "Y"

\* By how much an instruction advances PC
PlannedAdvance(inst, source) ==
    IF source # "program" THEN 0
    ELSE CASE Kind(inst) \in DOMAIN Operands -> 1 + Operands[Kind(inst)]
           [] Kind(inst) = "CmosNop" -> inst.address_mode.bytes
           [] Kind(inst) = "JmpAbsolute" -> 3
           [] Kind(inst) \in {"FromInterrupt", "Jam"} -> 1
           [] OTHER -> 2

\* The micro-ops that occur in an instruction
Belongs(inst, source, op) ==
    /\ op.local_latch = "BrkStatus" => source = "program"
    /\ op.local_latch = "Status" =>
          IF op.bus.read THEN Kind(inst) = "FromInterrupt" ELSE source \in {"irq", "nmi"}
    /\ op.bus.addr \in {"FFFA", "FFFB"} => source = "nmi"
    /\ source = "nmi" => op.bus.addr \notin {"FFFE", "FFFF"}
    /\ op.alu.op = "OffsetWithExtraCycle" => Indexed(inst)
    /\ op.alu.op = "Branch" => Kind(inst) \in {"Relative", "DpRelative"}
    /\ op.alu.op = "FixPtr" => Kind(inst) = "JmpIndirect"
    /\ op.alu.op = "Jam" => Kind(inst) = "Jam" /\ Weightless(op)
    /\ BytesPushed(inst) >= 0 => MovedOf[op] <= 0
    /\ BytesPushed(inst) <= 0 => MovedOf[op] >= 0

\* What is on the stack already when the op pushes its latch
Depth(latch) == CASE latch = "PcHi" -> 0 [] latch = "PcLo" -> 1 [] OTHER -> 2
PushesLatch(op) ==
    ~op.bus.read /\ op.local_latch \in {"PcHi", "PcLo", "Status", "BrkStatus"}

InPlace(inst, source, s, i) ==
    /\ Belongs(inst, source, s[i])
    /\ s[i].alu.op = "OffsetWithExtraCycle" =>
          /\ Weightless(s[i]) /\ i < Len(s)
          /\ inst.memory_action # "Write" => Weightless(s[i + 1])
          /\ inst.memory_action = "Read" => Len(s) = i + 1
          /\ \A j \in (i + 1)..Len(s) : s[j].alu.op # "OffsetWithExtraCycle"
    /\ s[i].local_latch = "Status" /\ s[i].bus.read => i < Len(s)
    /\ PushesLatch(s[i]) =>
          /\ Kind(inst) \in {"Brk", "ToSubroutine"}
          /\ From(AdvanceOf, s, i) = 0
          /\ From(MovedOf, s, i) = Depth(s[i].local_latch) - BytesPushed(inst)
AllInPlace(inst, source, s) == \A i \in 1..Len(s) : InPlace(inst, source, s, i)

Pending(s, alu) == \E i \in 1..Len(s) : s[i].alu.op = alu
JamEnds(s) == Len(s) >= 2 /\ s[Len(s) - 1].alu.op = "Jam"
-----------------------------------------------------------------------------
(* Weights of queues.                                                      *)

\* Weights are integers; advances and writes are counted, not given back.
LEMMA WeightTypes ==
    /\ \A w \in Weights : w \in [MicroOp -> Int]
    /\ \A op \in MicroOp :
          /\ AdvanceOf[op] = IF op.inc_src /\ op.bus.addr = "Pc" THEN 1 ELSE 0
          /\ MovedOf[op] = Moved(op)
          /\ WritesOf[op] = IF op.bus.read THEN 0 ELSE 1
          /\ AdvanceOf[op] \in {0, 1} /\ MovedOf[op] \in Int /\ WritesOf[op] \in {0, 1}
<1>1. \A op \in MicroOp : Moved(op) \in Int
  BY DEF Moved
<1>2. QED
  BY <1>1 DEF Weights, AdvanceOf, MovedOf, WritesOf

LEMMA AtType ==
    ASSUME NEW w \in [MicroOp -> Int], NEW s \in Seq(MicroOp), NEW i
    PROVE  /\ At(w, s, i) \in Int
           /\ i \in 1..Len(s) => At(w, s, i) = w[s[i]] /\ s[i] \in MicroOp
           /\ i \notin 1..Len(s) => At(w, s, i) = 0
<1>1. i \in 1..Len(s) => s[i] \in MicroOp
  BY ElementOfSeq
<1>2. QED
  BY <1>1 DEF At

LEMMA AtInt ==
    ASSUME NEW w \in [MicroOp -> Int], NEW s \in Seq(MicroOp), NEW i PROVE At(w, s, i) \in Int
BY AtType

\* Executing the first op shifts the queue by one.
LEMMA FromTail ==
    ASSUME NEW w \in [MicroOp -> Int], NEW s \in Seq(MicroOp), s # << >>, Len(s) <= 7
    PROVE  /\ Tail(s) \in Seq(MicroOp) /\ Len(Tail(s)) = Len(s) - 1
           /\ \A i \in 1..Len(Tail(s)) : Tail(s)[i] = s[i + 1]
           /\ \A i \in Nat \ {0} : From(w, Tail(s), i) = From(w, s, i + 1)
           /\ From(w, s, 1) = w[s[1]] + From(w, Tail(s), 1)
<1> DEFINE t == Tail(s)
<1>1. t \in Seq(MicroOp) /\ Len(t) = Len(s) - 1 /\ \A i \in 1..Len(t) : t[i] = s[i + 1]
  BY HeadTailProperties
<1>2. Len(s) \in Nat \ {0}
  BY EmptySeq, LenProperties
<1> HIDE DEF t
<1>3. ASSUME NEW i \in Nat \ {0} PROVE At(w, t, i) = At(w, s, i + 1)
  BY <1>1, <1>2 DEF At
<1>4. ASSUME NEW i \in Nat \ {0} PROVE From(w, t, i) = From(w, s, i + 1)
  <2>1. /\ At(w, t, i) = At(w, s, i + 1) /\ At(w, t, i + 1) = At(w, s, (i + 1) + 1)
        /\ At(w, t, i + 2) = At(w, s, (i + 1) + 2) /\ At(w, t, i + 3) = At(w, s, (i + 1) + 3)
        /\ At(w, t, i + 4) = At(w, s, (i + 1) + 4) /\ At(w, t, i + 5) = At(w, s, (i + 1) + 5)
        /\ At(w, t, i + 6) = At(w, s, (i + 1) + 6)
    BY ONLY <1>3, i \in Nat \ {0}, SMTT(20)
  <2>2. QED
    BY ONLY <2>1 DEF From
<1>5. At(w, s, 8) = 0 /\ At(w, s, 1) = w[s[1]]
  BY <1>2 DEF At
<1>6. /\ At(w, s, 1) \in Int /\ At(w, s, 2) \in Int /\ At(w, s, 3) \in Int
      /\ At(w, s, 4) \in Int /\ At(w, s, 5) \in Int /\ At(w, s, 6) \in Int
      /\ At(w, s, 7) \in Int
  BY AtInt
<1>7. From(w, s, 1) = w[s[1]] + From(w, s, 1 + 1)
  <2> DEFINE a == At(w, s, 1)
             b == At(w, s, 2)
             c == At(w, s, 3)
             d == At(w, s, 4)
             e == At(w, s, 5)
             f == At(w, s, 6)
             g == At(w, s, 7)
  <2>1. /\ From(w, s, 1) = a + b + c + d + e + f + g
        /\ From(w, s, 1 + 1) = b + c + d + e + f + g + 0
    BY <1>5 DEF From
  <2>2. a \in Int /\ b \in Int /\ c \in Int /\ d \in Int /\ e \in Int /\ f \in Int /\ g \in Int
    BY <1>6
  <2> HIDE DEF a, b, c, d, e, f, g
  <2>3. From(w, s, 1) = a + From(w, s, 1 + 1)
    BY ONLY <2>1, <2>2
  <2>4. QED
    BY <2>3, <1>5 DEF a
<1>8. From(w, s, 1 + 1) = From(w, t, 1)
  BY <1>4
<1>9. QED
  BY <1>1, <1>4, <1>7, <1>8 DEF t

LEMMA FromType ==
    ASSUME NEW w \in [MicroOp -> Int], NEW s \in Seq(MicroOp), NEW i \in Nat
    PROVE  From(w, s, i) \in Int
<1>1. /\ At(w, s, i) \in Int /\ At(w, s, i + 1) \in Int /\ At(w, s, i + 2) \in Int
      /\ At(w, s, i + 3) \in Int /\ At(w, s, i + 4) \in Int /\ At(w, s, i + 5) \in Int
      /\ At(w, s, i + 6) \in Int
  BY AtInt
<1>2. QED
  BY <1>1, SMTT(20) DEF From

LEMMA FromEmpty ==
    ASSUME NEW w \in [MicroOp -> Int], NEW i \in Nat PROVE From(w, << >>, i) = 0
<1>1. \A j : At(w, << >>, j) = 0
  <2>1. Len(<< >>) = 0
    BY EmptySeq
  <2>2. QED
    BY <2>1 DEF At
<1>2. QED
  BY <1>1 DEF From

\* The weight of a queue put together is that of its parts.
LEMMA FromConcat ==
    ASSUME NEW w \in [MicroOp -> Int], NEW s \in Seq(MicroOp), NEW t \in Seq(MicroOp),
           Len(s) + Len(t) <= 7
    PROVE  From(w, s \o t, 1) = From(w, s, 1) + From(w, t, 1)
<1> DEFINE r == s \o t
<1>1. /\ r \in Seq(MicroOp) /\ Len(r) = Len(s) + Len(t)
      /\ \A i \in 1..(Len(s) + Len(t)) : r[i] = IF i <= Len(s) THEN s[i] ELSE t[i - Len(s)]
  BY ConcatProperties
<1>2. Len(s) \in Nat /\ Len(t) \in Nat
  BY LenProperties
<1> HIDE DEF r
<1>3. ASSUME NEW i \in Nat \ {0}
      PROVE  At(w, r, i) = IF i <= Len(s) THEN At(w, s, i) ELSE At(w, t, i - Len(s))
  BY <1>1, <1>2, SMTT(20) DEF At
<1>4. \A i \in Nat \ {0} : i > Len(s) => At(w, s, i) = 0
  BY <1>2 DEF At
<1>5. \A i \in Nat \ {0} : i > Len(t) => At(w, t, i) = 0
  BY <1>2 DEF At
<1>6. /\ \A i \in {1, 2, 3, 4, 5, 6, 7} : At(w, s, i) \in Int
      /\ \A i \in {1, 2, 3, 4, 5, 6, 7} : At(w, t, i) \in Int
  BY AtInt
<1>7. Len(s) \in 0..7
  <2> DEFINE m == Len(s)
             n == Len(t)
  <2>1. m \in Nat /\ n \in Nat /\ m + n <= 7
    BY <1>2
  <2> HIDE DEF m, n
  <2>2. m \in 0..7
    BY ONLY <2>1
  <2>3. QED
    BY <2>2 DEF m
<1>8. From(w, r, 1) = From(w, s, 1) + From(w, t, 1)
  <2> DEFINE a1 == At(w, s, 1)
             a2 == At(w, s, 2)
             a3 == At(w, s, 3)
             a4 == At(w, s, 4)
             a5 == At(w, s, 5)
             a6 == At(w, s, 6)
             a7 == At(w, s, 7)
             b1 == At(w, t, 1)
             b2 == At(w, t, 2)
             b3 == At(w, t, 3)
             b4 == At(w, t, 4)
             b5 == At(w, t, 5)
             b6 == At(w, t, 6)
             b7 == At(w, t, 7)
             c1 == At(w, r, 1)
             c2 == At(w, r, 2)
             c3 == At(w, r, 3)
             c4 == At(w, r, 4)
             c5 == At(w, r, 5)
             c6 == At(w, r, 6)
             c7 == At(w, r, 7)
  <2>1. /\ From(w, s, 1) = a1 + a2 + a3 + a4 + a5 + a6 + a7
        /\ From(w, t, 1) = b1 + b2 + b3 + b4 + b5 + b6 + b7
        /\ From(w, r, 1) = c1 + c2 + c3 + c4 + c5 + c6 + c7
    BY DEF From
  <2>2. /\ a1 \in Int /\ a2 \in Int /\ a3 \in Int /\ a4 \in Int /\ a5 \in Int /\ a6 \in Int /\ a7 \in Int
        /\ b1 \in Int /\ b2 \in Int /\ b3 \in Int /\ b4 \in Int /\ b5 \in Int /\ b6 \in Int /\ b7 \in Int
    BY <1>6
  <2>3. ASSUME Len(s) = 0
        PROVE  /\ c1 = b1 /\ c2 = b2 /\ c3 = b3 /\ c4 = b4 /\ c5 = b5 /\ c6 = b6 /\ c7 = b7
               /\ a1 = 0 /\ a2 = 0 /\ a3 = 0 /\ a4 = 0 /\ a5 = 0 /\ a6 = 0 /\ a7 = 0
    <3>1. c1 = b1 /\ c2 = b2 /\ c3 = b3 /\ c4 = b4 /\ c5 = b5 /\ c6 = b6 /\ c7 = b7
      BY ONLY <2>3, <1>3
    <3>2. a1 = 0 /\ a2 = 0 /\ a3 = 0 /\ a4 = 0 /\ a5 = 0 /\ a6 = 0 /\ a7 = 0
      BY ONLY <2>3, <1>2, <1>4, <1>5, Len(s) + Len(t) <= 7
    <3>3. QED
      BY <3>1, <3>2
  <2>4. ASSUME Len(s) = 1
        PROVE  /\ c1 = a1 /\ c2 = b1 /\ c3 = b2 /\ c4 = b3 /\ c5 = b4 /\ c6 = b5 /\ c7 = b6
               /\ a2 = 0 /\ a3 = 0 /\ a4 = 0 /\ a5 = 0 /\ a6 = 0 /\ a7 = 0 /\ b7 = 0
    <3>1. c1 = a1 /\ c2 = b1 /\ c3 = b2 /\ c4 = b3 /\ c5 = b4 /\ c6 = b5 /\ c7 = b6
      BY ONLY <2>4, <1>3
    <3>2. a2 = 0 /\ a3 = 0 /\ a4 = 0 /\ a5 = 0 /\ a6 = 0 /\ a7 = 0 /\ b7 = 0
      BY ONLY <2>4, <1>2, <1>4, <1>5, Len(s) + Len(t) <= 7
    <3>3. QED
      BY <3>1, <3>2
  <2>5. ASSUME Len(s) = 2
        PROVE  /\ c1 = a1 /\ c2 = a2 /\ c3 = b1 /\ c4 = b2 /\ c5 = b3 /\ c6 = b4 /\ c7 = b5
               /\ a3 = 0 /\ a4 = 0 /\ a5 = 0 /\ a6 = 0 /\ a7 = 0 /\ b6 = 0 /\ b7 = 0
    <3>1. c1 = a1 /\ c2 = a2 /\ c3 = b1 /\ c4 = b2 /\ c5 = b3 /\ c6 = b4 /\ c7 = b5
      BY ONLY <2>5, <1>3
    <3>2. a3 = 0 /\ a4 = 0 /\ a5 = 0 /\ a6 = 0 /\ a7 = 0 /\ b6 = 0 /\ b7 = 0
      BY ONLY <2>5, <1>2, <1>4, <1>5, Len(s) + Len(t) <= 7
    <3>3. QED
      BY <3>1, <3>2
  <2>6. ASSUME Len(s) = 3
        PROVE  /\ c1 = a1 /\ c2 = a2 /\ c3 = a3 /\ c4 = b1 /\ c5 = b2 /\ c6 = b3 /\ c7 = b4
               /\ a4 = 0 /\ a5 = 0 /\ a6 = 0 /\ a7 = 0 /\ b5 = 0 /\ b6 = 0 /\ b7 = 0
    <3>1. c1 = a1 /\ c2 = a2 /\ c3 = a3 /\ c4 = b1 /\ c5 = b2 /\ c6 = b3 /\ c7 = b4
      BY ONLY <2>6, <1>3
    <3>2. a4 = 0 /\ a5 = 0 /\ a6 = 0 /\ a7 = 0 /\ b5 = 0 /\ b6 = 0 /\ b7 = 0
      BY ONLY <2>6, <1>2, <1>4, <1>5, Len(s) + Len(t) <= 7
    <3>3. QED
      BY <3>1, <3>2
  <2>7. ASSUME Len(s) = 4
        PROVE  /\ c1 = a1 /\ c2 = a2 /\ c3 = a3 /\ c4 = a4 /\ c5 = b1 /\ c6 = b2 /\ c7 = b3
               /\ a5 = 0 /\ a6 = 0 /\ a7 = 0 /\ b4 = 0 /\ b5 = 0 /\ b6 = 0 /\ b7 = 0
    <3>1. c1 = a1 /\ c2 = a2 /\ c3 = a3 /\ c4 = a4 /\ c5 = b1 /\ c6 = b2 /\ c7 = b3
      BY ONLY <2>7, <1>3
    <3>2. a5 = 0 /\ a6 = 0 /\ a7 = 0 /\ b4 = 0 /\ b5 = 0 /\ b6 = 0 /\ b7 = 0
      BY ONLY <2>7, <1>2, <1>4, <1>5, Len(s) + Len(t) <= 7
    <3>3. QED
      BY <3>1, <3>2
  <2>8. ASSUME Len(s) = 5
        PROVE  /\ c1 = a1 /\ c2 = a2 /\ c3 = a3 /\ c4 = a4 /\ c5 = a5 /\ c6 = b1 /\ c7 = b2
               /\ a6 = 0 /\ a7 = 0 /\ b3 = 0 /\ b4 = 0 /\ b5 = 0 /\ b6 = 0 /\ b7 = 0
    <3>1. c1 = a1 /\ c2 = a2 /\ c3 = a3 /\ c4 = a4 /\ c5 = a5 /\ c6 = b1 /\ c7 = b2
      BY ONLY <2>8, <1>3
    <3>2. a6 = 0 /\ a7 = 0 /\ b3 = 0 /\ b4 = 0 /\ b5 = 0 /\ b6 = 0 /\ b7 = 0
      BY ONLY <2>8, <1>2, <1>4, <1>5, Len(s) + Len(t) <= 7
    <3>3. QED
      BY <3>1, <3>2
  <2>9. ASSUME Len(s) = 6
        PROVE  /\ c1 = a1 /\ c2 = a2 /\ c3 = a3 /\ c4 = a4 /\ c5 = a5 /\ c6 = a6 /\ c7 = b1
               /\ a7 = 0 /\ b2 = 0 /\ b3 = 0 /\ b4 = 0 /\ b5 = 0 /\ b6 = 0 /\ b7 = 0
    <3>1. c1 = a1 /\ c2 = a2 /\ c3 = a3 /\ c4 = a4 /\ c5 = a5 /\ c6 = a6 /\ c7 = b1
      BY ONLY <2>9, <1>3
    <3>2. a7 = 0 /\ b2 = 0 /\ b3 = 0 /\ b4 = 0 /\ b5 = 0 /\ b6 = 0 /\ b7 = 0
      BY ONLY <2>9, <1>2, <1>4, <1>5, Len(s) + Len(t) <= 7
    <3>3. QED
      BY <3>1, <3>2
  <2>10. ASSUME Len(s) = 7
        PROVE  /\ c1 = a1 /\ c2 = a2 /\ c3 = a3 /\ c4 = a4 /\ c5 = a5 /\ c6 = a6 /\ c7 = a7
               /\ b1 = 0 /\ b2 = 0 /\ b3 = 0 /\ b4 = 0 /\ b5 = 0 /\ b6 = 0 /\ b7 = 0
    <3>1. c1 = a1 /\ c2 = a2 /\ c3 = a3 /\ c4 = a4 /\ c5 = a5 /\ c6 = a6 /\ c7 = a7
      BY ONLY <2>10, <1>3
    <3>2. b1 = 0 /\ b2 = 0 /\ b3 = 0 /\ b4 = 0 /\ b5 = 0 /\ b6 = 0 /\ b7 = 0
      BY ONLY <2>10, <1>2, <1>4, <1>5, Len(s) + Len(t) <= 7
    <3>3. QED
      BY <3>1, <3>2
  <2> HIDE DEF a1, a2, a3, a4, a5, a6, a7, b1, b2, b3, b4, b5, b6, b7, c1, c2, c3, c4, c5, c6, c7
  <2>11. CASE Len(s) = 0
    BY ONLY <2>1, <2>2, <2>3, <2>11
  <2>12. CASE Len(s) = 1
    BY ONLY <2>1, <2>2, <2>4, <2>12
  <2>13. CASE Len(s) = 2
    BY ONLY <2>1, <2>2, <2>5, <2>13
  <2>14. CASE Len(s) = 3
    BY ONLY <2>1, <2>2, <2>6, <2>14
  <2>15. CASE Len(s) = 4
    BY ONLY <2>1, <2>2, <2>7, <2>15
  <2>16. CASE Len(s) = 5
    BY ONLY <2>1, <2>2, <2>8, <2>16
  <2>17. CASE Len(s) = 6
    BY ONLY <2>1, <2>2, <2>9, <2>17
  <2>18. CASE Len(s) = 7
    BY ONLY <2>1, <2>2, <2>10, <2>18
  <2>19. QED
    BY ONLY <1>7, <2>11, <2>12, <2>13, <2>14, <2>15, <2>16, <2>17, <2>18
<1>9. QED
  BY <1>8 DEF r

\* The weight of a queue written out.
LEMMA FromTuple ==
    ASSUME NEW w \in [MicroOp -> Int]
    PROVE  /\ \A a \in MicroOp :
                 From(w, << a >>, 1) = w[a]
           /\ \A a, b \in MicroOp :
                 From(w, << a, b >>, 1) = w[a] + w[b]
           /\ \A a, b, c \in MicroOp :
                 From(w, << a, b, c >>, 1) = w[a] + w[b] + w[c]
           /\ \A a, b, c, d \in MicroOp :
                 From(w, << a, b, c, d >>, 1) = w[a] + w[b] + w[c] + w[d]
           /\ \A a, b, c, d, e \in MicroOp :
                 From(w, << a, b, c, d, e >>, 1) = w[a] + w[b] + w[c] + w[d] + w[e]
           /\ \A a, b, c, d, e, f \in MicroOp :
                 From(w, << a, b, c, d, e, f >>, 1) = w[a] + w[b] + w[c] + w[d] + w[e] + w[f]
<1>1. ASSUME NEW a \in MicroOp
      PROVE  From(w, << a >>, 1) = w[a]
  <2>1. w[a] \in Int
    OBVIOUS
  <2>2. QED
    BY <2>1 DEF From, At
<1>2. ASSUME NEW a \in MicroOp, NEW b \in MicroOp
      PROVE  From(w, << a, b >>, 1) = w[a] + w[b]
  <2>1. w[a] \in Int /\ w[b] \in Int
    OBVIOUS
  <2>2. QED
    BY <2>1 DEF From, At
<1>3. ASSUME NEW a \in MicroOp, NEW b \in MicroOp, NEW c \in MicroOp
      PROVE  From(w, << a, b, c >>, 1) = w[a] + w[b] + w[c]
  <2>1. w[a] \in Int /\ w[b] \in Int /\ w[c] \in Int
    OBVIOUS
  <2>2. QED
    BY <2>1 DEF From, At
<1>4. ASSUME NEW a \in MicroOp, NEW b \in MicroOp, NEW c \in MicroOp, NEW d \in MicroOp
      PROVE  From(w, << a, b, c, d >>, 1) = w[a] + w[b] + w[c] + w[d]
  <2>1. w[a] \in Int /\ w[b] \in Int /\ w[c] \in Int /\ w[d] \in Int
    OBVIOUS
  <2>2. QED
    BY <2>1 DEF From, At
<1>5. ASSUME NEW a \in MicroOp, NEW b \in MicroOp, NEW c \in MicroOp, NEW d \in MicroOp, NEW e \in MicroOp
      PROVE  From(w, << a, b, c, d, e >>, 1) = w[a] + w[b] + w[c] + w[d] + w[e]
  <2>1. w[a] \in Int /\ w[b] \in Int /\ w[c] \in Int /\ w[d] \in Int /\ w[e] \in Int
    OBVIOUS
  <2>2. QED
    BY <2>1 DEF From, At
<1>6. ASSUME NEW a \in MicroOp, NEW b \in MicroOp, NEW c \in MicroOp, NEW d \in MicroOp, NEW e \in MicroOp, NEW f \in MicroOp
      PROVE  From(w, << a, b, c, d, e, f >>, 1) = w[a] + w[b] + w[c] + w[d] + w[e] + w[f]
  <2>1. w[a] \in Int /\ w[b] \in Int /\ w[c] \in Int /\ w[d] \in Int /\ w[e] \in Int /\ w[f] \in Int
    OBVIOUS
  <2>2. QED
    BY <2>1 DEF From, At
<1>7. QED
  BY <1>1, <1>2, <1>3, <1>4, <1>5, <1>6

-----------------------------------------------------------------------------
(* The micro-ops the emitters push.                                        *)

Shape(op, addr, read, inc, latch, alu) ==
    /\ op \in MicroOp
    /\ op.bus.addr = addr /\ op.bus.read = read /\ op.inc_src = inc
    /\ op.local_latch = latch /\ op.alu.op = alu

\* Each op is what its constructor says.
LEMMA Shapes ==
    /\ \A src \in Latch, dest \in Latch, inc \in BOOLEAN :
          Shape(ReadOp(src, dest, inc), src, TRUE, inc, dest, "None")
    /\ \A src \in Latch : Shape(DummyRead(src), src, TRUE, FALSE, "None", "None")
    /\ \A src \in Latch : Shape(PushOp(src), "Sp", FALSE, FALSE, src, "DecSp")
    /\ \A src \in {"EaLo", "PtrLo"}, offset \in OffsetType :
          Shape(ReadAndOffset(src, offset), src, TRUE, FALSE, "None", "AddOffset")
    /\ Shape(ReadPcSetPc(0), "Pc", TRUE, FALSE, "None", "SetPc")
    /\ \A offset \in OffsetType :
          Shape(OffsetOptFix(offset), "Ea", TRUE, FALSE, "Op0", "OffsetWithExtraCycle")
    /\ Shape(AluWrite, "Ea", FALSE, FALSE, "None", "None")
    /\ \A read \in BOOLEAN : Shape(AluModify(read), "Ea", read, FALSE, "None", "Modify")
    /\ Shape(AluPush, "Sp", FALSE, FALSE, "None", "DecSp")
    /\ \A dest \in Latch : Shape(ReadPtr1(dest), "Ptr", TRUE, FALSE, dest, "IncLatch")
    /\ \A dest \in Latch : Shape(ReadInvPtr2(dest), "Ptr", TRUE, FALSE, dest, "FixPtr")
    /\ \A inc \in BOOLEAN, dest \in Latch, alu \in {"SwapEaPc", "SpecialAddOffset", "Branch"} :
          Shape(ReadPcThen(inc, dest, alu), "Pc", TRUE, inc, dest, alu)
    /\ Shape(Op(Cycle("FFFF", FALSE, FALSE, TRUE), FALSE, "None", Alu("Jam")),
             "FFFF", TRUE, FALSE, "None", "Jam")
<1> USE DEF Shape, Op, Cycle, Alu, MicroOp, BusCycleType, AluOpType, Latch, OffsetType,
            VectorAddresses
<1>1. \A src \in Latch, dest \in Latch, inc \in BOOLEAN :
          Shape(ReadOp(src, dest, inc), src, TRUE, inc, dest, "None")
  BY DEF ReadOp
<1>2. \A src \in Latch : Shape(DummyRead(src), src, TRUE, FALSE, "None", "None")
  BY DEF DummyRead
<1>3. \A src \in Latch : Shape(PushOp(src), "Sp", FALSE, FALSE, src, "DecSp")
  BY DEF PushOp
<1>4. \A src \in {"EaLo", "PtrLo"}, offset \in OffsetType :
          Shape(ReadAndOffset(src, offset), src, TRUE, FALSE, "None", "AddOffset")
  <2> TAKE src \in {"EaLo", "PtrLo"}, offset \in OffsetType
  <2>1. CASE src = "EaLo"
    BY <2>1 DEF ReadAndOffset
  <2>2. CASE src = "PtrLo"
    BY <2>2 DEF ReadAndOffset
  <2>3. QED
    BY <2>1, <2>2
<1>5. Shape(ReadPcSetPc(0), "Pc", TRUE, FALSE, "None", "SetPc")
  BY DEF ReadPcSetPc
<1>6. \A offset \in OffsetType :
          Shape(OffsetOptFix(offset), "Ea", TRUE, FALSE, "Op0", "OffsetWithExtraCycle")
  BY DEF OffsetOptFix
<1>7. Shape(AluWrite, "Ea", FALSE, FALSE, "None", "None")
  BY DEF AluWrite
<1>8. \A read \in BOOLEAN : Shape(AluModify(read), "Ea", read, FALSE, "None", "Modify")
  BY DEF AluModify
<1>9. Shape(AluPush, "Sp", FALSE, FALSE, "None", "DecSp")
  BY DEF AluPush
<1>10. \A dest \in Latch : Shape(ReadPtr1(dest), "Ptr", TRUE, FALSE, dest, "IncLatch")
  BY DEF ReadPtr1, IncPtrLo
<1>11. \A dest \in Latch : Shape(ReadInvPtr2(dest), "Ptr", TRUE, FALSE, dest, "FixPtr")
  BY DEF ReadInvPtr2
<1>12. \A inc \in BOOLEAN, dest \in Latch, alu \in {"SwapEaPc", "SpecialAddOffset", "Branch"} :
          Shape(ReadPcThen(inc, dest, alu), "Pc", TRUE, inc, dest, alu)
  BY DEF ReadPcThen
<1>13. Shape(Op(Cycle("FFFF", FALSE, FALSE, TRUE), FALSE, "None", Alu("Jam")),
             "FFFF", TRUE, FALSE, "None", "Jam")
  OBVIOUS
<1>14. QED
  BY <1>1, <1>2, <1>3, <1>4, <1>5, <1>6, <1>7, <1>8, <1>9, <1>10, <1>11, <1>12, <1>13

\* The weights of an op, from its shape
LEMMA ShapeWeights ==
    ASSUME NEW op, NEW addr, NEW read \in BOOLEAN, NEW inc \in BOOLEAN, NEW latch, NEW alu,
           Shape(op, addr, read, inc, latch, alu)
    PROVE  /\ AdvanceOf[op] = IF inc /\ addr = "Pc" THEN 1 ELSE 0
           /\ MovedOf[op] = (IF inc /\ addr = "Sp" THEN 1 ELSE 0)
                            - (IF alu = "DecSp" THEN 1 ELSE 0)
           /\ WritesOf[op] = IF read THEN 0 ELSE 1
BY WeightTypes DEF Shape, Moved

\* Ops that may occur anywhere
Inert ==
    {op \in MicroOp :
        /\ op.local_latch \notin {"Status", "BrkStatus"}
        /\ op.bus.addr \notin VectorAddresses
        /\ op.alu.op \notin {"OffsetWithExtraCycle", "Branch", "FixPtr", "Jam"}
        /\ MovedOf[op] = 0
        /\ op.bus.read \/ op.local_latch \notin {"PcHi", "PcLo"}}

\* The latches an instruction reads into, but for the status
Targets == Latch \ {"Status", "BrkStatus"}

LEMMA InertOps ==
    /\ \A src \in {"Pc", "Ea", "PtrLo", "Ptr"}, dest \in Targets, inc \in BOOLEAN :
          ReadOp(src, dest, inc) \in Inert
    /\ \A dest \in Targets : ReadOp("Sp", dest, FALSE) \in Inert
    /\ DummyRead("Pc") \in Inert
    /\ \A src \in {"EaLo", "PtrLo"}, offset \in OffsetType : ReadAndOffset(src, offset) \in Inert
    /\ ReadPcSetPc(0) \in Inert
    /\ AluWrite \in Inert
    /\ \A read \in BOOLEAN : AluModify(read) \in Inert
    /\ \A dest \in Targets : ReadPtr1(dest) \in Inert
    /\ \A inc \in BOOLEAN, dest \in Targets, alu \in {"SwapEaPc", "SpecialAddOffset"} :
          ReadPcThen(inc, dest, alu) \in Inert
<1>1. ASSUME NEW op \in MicroOp, op.bus.addr \notin VectorAddresses, op.local_latch \in Targets,
             op.alu.op \in {"None", "AddOffset", "SetPc", "Modify", "IncLatch", "SwapEaPc",
                            "SpecialAddOffset"},
             op.bus.addr = "Sp" => ~op.inc_src,
             op.bus.read \/ op.local_latch \notin {"PcHi", "PcLo"}
      PROVE  op \in Inert
  <2>1. MovedOf[op] = 0
    BY <1>1, WeightTypes DEF Moved
  <2>2. QED
    BY <1>1, <2>1 DEF Inert, Targets
<1> USE DEF Latch, VectorAddresses, Targets
<1>2. \A src \in {"Pc", "Ea", "PtrLo", "Ptr"}, dest \in Targets, inc \in BOOLEAN :
          ReadOp(src, dest, inc) \in Inert
  <2> TAKE src \in {"Pc", "Ea", "PtrLo", "Ptr"}, dest \in Targets, inc \in BOOLEAN
  <2>1. Shape(ReadOp(src, dest, inc), src, TRUE, inc, dest, "None")
    BY Shapes
  <2>2. QED
    BY <2>1, <1>1 DEF Shape
<1>3. \A dest \in Targets : ReadOp("Sp", dest, FALSE) \in Inert
  <2> TAKE dest \in Targets
  <2>1. Shape(ReadOp("Sp", dest, FALSE), "Sp", TRUE, FALSE, dest, "None")
    BY Shapes
  <2>2. QED
    BY <2>1, <1>1 DEF Shape
<1>4. DummyRead("Pc") \in Inert
  <2>1. Shape(DummyRead("Pc"), "Pc", TRUE, FALSE, "None", "None")
    BY Shapes
  <2>2. QED
    BY <2>1, <1>1 DEF Shape
<1>5. \A src \in {"EaLo", "PtrLo"}, offset \in OffsetType : ReadAndOffset(src, offset) \in Inert
  <2> TAKE src \in {"EaLo", "PtrLo"}, offset \in OffsetType
  <2>1. Shape(ReadAndOffset(src, offset), src, TRUE, FALSE, "None", "AddOffset")
    BY Shapes
  <2>2. QED
    BY <2>1, <1>1 DEF Shape
<1>6. ReadPcSetPc(0) \in Inert
  BY Shapes, <1>1 DEF Shape
<1>7. AluWrite \in Inert
  BY Shapes, <1>1 DEF Shape
<1>8. \A read \in BOOLEAN : AluModify(read) \in Inert
  <2> TAKE read \in BOOLEAN
  <2>1. Shape(AluModify(read), "Ea", read, FALSE, "None", "Modify")
    BY Shapes
  <2>2. QED
    BY <2>1, <1>1 DEF Shape
<1>9. \A dest \in Targets : ReadPtr1(dest) \in Inert
  <2> TAKE dest \in Targets
  <2>1. Shape(ReadPtr1(dest), "Ptr", TRUE, FALSE, dest, "IncLatch")
    BY Shapes
  <2>2. QED
    BY <2>1, <1>1 DEF Shape
<1>10. \A inc \in BOOLEAN, dest \in Targets, alu \in {"SwapEaPc", "SpecialAddOffset"} :
          ReadPcThen(inc, dest, alu) \in Inert
  <2> TAKE inc \in BOOLEAN, dest \in Targets, alu \in {"SwapEaPc", "SpecialAddOffset"}
  <2>1. Shape(ReadPcThen(inc, dest, alu), "Pc", TRUE, inc, dest, alu)
    BY Shapes
  <2>2. QED
    BY <2>1, <1>1 DEF Shape
<1>11. QED
  BY <1>2, <1>3, <1>4, <1>5, <1>6, <1>7, <1>8, <1>9, <1>10

\* Queues of inert ops are in order, whatever the instruction.
LEMMA InertPlace ==
    ASSUME NEW inst, NEW source, NEW s \in Seq(MicroOp), NEW i \in 1..Len(s), s[i] \in Inert
    PROVE  /\ InPlace(inst, source, s, i)
           /\ s[i].alu.op \notin {"OffsetWithExtraCycle", "Branch", "FixPtr", "Jam"}
<1>1. MovedOf[s[i]] = 0
  BY DEF Inert
<1>2. Belongs(inst, source, s[i])
  BY <1>1 DEF Inert, Belongs, VectorAddresses
<1>3. QED
  BY <1>2 DEF Inert, InPlace, PushesLatch

LEMMA InertPlaces ==
    ASSUME NEW inst, NEW source, NEW s \in Seq(Inert)
    PROVE  /\ s \in Seq(MicroOp) /\ AllInPlace(inst, source, s)
           /\ ~Pending(s, "OffsetWithExtraCycle") /\ ~Pending(s, "Branch")
           /\ From(MovedOf, s, 1) = 0
<1>1. s \in Seq(MicroOp)
  BY SeqMonotonic DEF Inert
<1>2. \A i \in 1..Len(s) : s[i] \in Inert
  BY ElementOfSeq
<1>3. \A i \in 1..Len(s) : /\ InPlace(inst, source, s, i)
                           /\ s[i].alu.op \notin {"OffsetWithExtraCycle", "Branch"}
  BY <1>1, <1>2, InertPlace
<1>4. \A i : At(MovedOf, s, i) = 0
  BY <1>2 DEF At, Inert
<1>5. From(MovedOf, s, 1) = 0
  BY <1>4 DEF From
<1>6. QED
  BY <1>1, <1>3, <1>5 DEF AllInPlace, Pending

-----------------------------------------------------------------------------
(* What the emitters push for an instruction.                              *)

\* The opcode fetch of a program's instruction is done when its queue is pushed.
FetchCycle(source) == IF source = "program" THEN 1 ELSE 0

Fresh(inst, source, s) ==
    /\ s \in Seq(MicroOp) /\ Len(s) <= 7
    /\ AllInPlace(inst, source, s)
    /\ From(AdvanceOf, s, 1) = PlannedAdvance(inst, source) - FetchCycle(source)
    /\ From(MovedOf, s, 1) = -BytesPushed(inst)
    /\ From(WritesOf, s, 1) = WriteCycles(inst)
    /\ s = << >> <=> inst.address_mode.cycles = 1
    /\ Kind(inst) = "Jam" => JamEnds(s)
    /\ Kind(inst) # "Jam" =>
          Len(s) + FetchCycle(source)
              = CyclesOf(inst, source, Pending(s, "OffsetWithExtraCycle"), FALSE)

LEMMA InertFresh ==
    ASSUME NEW inst, NEW s \in Seq(Inert), Len(s) <= 7, Kind(inst) # "Jam",
           s = << >> <=> inst.address_mode.cycles = 1, BytesPushed(inst) = 0,
           From(AdvanceOf, s, 1) = PlannedAdvance(inst, "program") - 1,
           From(WritesOf, s, 1) = WriteCycles(inst),
           Len(s) + 1 = CyclesOf(inst, "program", FALSE, FALSE)
    PROVE  Fresh(inst, "program", s)
<1>1. /\ s \in Seq(MicroOp) /\ AllInPlace(inst, "program", s)
      /\ ~Pending(s, "OffsetWithExtraCycle") /\ From(MovedOf, s, 1) = 0
  BY InertPlaces
<1>2. Pending(s, "OffsetWithExtraCycle") = FALSE
  BY <1>1 DEF Pending
<1>3. From(MovedOf, s, 1) = -BytesPushed(inst)
  BY <1>1
<1>4. FetchCycle("program") = 1
  BY DEF FetchCycle
<1>5. QED
  BY <1>1, <1>2, <1>3, <1>4 DEF Fresh

LEMMA Tuples ==
    ASSUME NEW S
    PROVE  /\ \A a \in S : << a >> \in Seq(S) /\ Len(<< a >>) = 1
           /\ \A a, b \in S : << a, b >> \in Seq(S) /\ Len(<< a, b >>) = 2
           /\ \A a, b, c \in S : << a, b, c >> \in Seq(S) /\ Len(<< a, b, c >>) = 3
           /\ \A a, b, c, d \in S : << a, b, c, d >> \in Seq(S) /\ Len(<< a, b, c, d >>) = 4
           /\ \A a, b, c, d, e \in S : << a, b, c, d, e >> \in Seq(S) /\ Len(<< a, b, c, d, e >>) = 5
           /\ \A a, b, c, d, e, f \in S : << a, b, c, d, e, f >> \in Seq(S) /\ Len(<< a, b, c, d, e, f >>) = 6
OBVIOUS

\* The weights of the ops that a mode without a stack access is made of
LEMMA OpWeights ==
    /\ \A src \in Latch, dest \in Latch, inc \in BOOLEAN :
          /\ AdvanceOf[ReadOp(src, dest, inc)] = IF inc /\ src = "Pc" THEN 1 ELSE 0
          /\ MovedOf[ReadOp(src, dest, inc)] = IF inc /\ src = "Sp" THEN 1 ELSE 0
          /\ WritesOf[ReadOp(src, dest, inc)] = 0
    /\ Weightless(DummyRead("Pc")) /\ Weightless(DummyRead("None"))
    /\ \A src \in Latch :
          /\ AdvanceOf[PushOp(src)] = 0 /\ MovedOf[PushOp(src)] = -1 /\ WritesOf[PushOp(src)] = 1
    /\ \A src \in {"EaLo", "PtrLo"}, offset \in OffsetType : Weightless(ReadAndOffset(src, offset))
    /\ Weightless(ReadPcSetPc(0))
    /\ \A offset \in OffsetType : Weightless(OffsetOptFix(offset))
    /\ AdvanceOf[AluWrite] = 0 /\ MovedOf[AluWrite] = 0 /\ WritesOf[AluWrite] = 1
    /\ \A read \in BOOLEAN :
          /\ AdvanceOf[AluModify(read)] = 0 /\ MovedOf[AluModify(read)] = 0
          /\ WritesOf[AluModify(read)] = IF read THEN 0 ELSE 1
    /\ AdvanceOf[AluPush] = 0 /\ MovedOf[AluPush] = -1 /\ WritesOf[AluPush] = 1
    /\ \A dest \in Latch : Weightless(ReadPtr1(dest)) /\ Weightless(ReadInvPtr2(dest))
    /\ \A inc \in BOOLEAN, dest \in Latch, alu \in {"SwapEaPc", "SpecialAddOffset", "Branch"} :
          /\ AdvanceOf[ReadPcThen(inc, dest, alu)] = IF inc THEN 1 ELSE 0
          /\ MovedOf[ReadPcThen(inc, dest, alu)] = 0
          /\ WritesOf[ReadPcThen(inc, dest, alu)] = 0
    /\ Weightless(Op(Cycle("FFFF", FALSE, FALSE, TRUE), FALSE, "None", Alu("Jam")))
<1>1. \A op \in MicroOp :
          /\ AdvanceOf[op] = IF op.inc_src /\ op.bus.addr = "Pc" THEN 1 ELSE 0
          /\ MovedOf[op] = (IF op.inc_src /\ op.bus.addr = "Sp" THEN 1 ELSE 0)
                           - (IF op.alu.op = "DecSp" THEN 1 ELSE 0)
          /\ WritesOf[op] = IF op.bus.read THEN 0 ELSE 1
  BY WeightTypes DEF Moved
<1>2. \A src \in Latch, dest \in Latch, inc \in BOOLEAN :
          /\ AdvanceOf[ReadOp(src, dest, inc)] = IF inc /\ src = "Pc" THEN 1 ELSE 0
          /\ MovedOf[ReadOp(src, dest, inc)] = IF inc /\ src = "Sp" THEN 1 ELSE 0
          /\ WritesOf[ReadOp(src, dest, inc)] = 0
  <2> TAKE src \in Latch, dest \in Latch, inc \in BOOLEAN
  <2>1. Shape(ReadOp(src, dest, inc), src, TRUE, inc, dest, "None")
    BY Shapes
  <2>2. QED
    BY <2>1, <1>1 DEF Shape
<1>3. Weightless(DummyRead("Pc")) /\ Weightless(DummyRead("None"))
  <2>1. /\ Shape(DummyRead("Pc"), "Pc", TRUE, FALSE, "None", "None")
        /\ Shape(DummyRead("None"), "None", TRUE, FALSE, "None", "None")
    BY Shapes DEF Latch
  <2>2. QED
    BY <2>1, <1>1 DEF Shape, Weightless
<1>4. \A src \in Latch :
          /\ AdvanceOf[PushOp(src)] = 0 /\ MovedOf[PushOp(src)] = -1 /\ WritesOf[PushOp(src)] = 1
  <2> TAKE src \in Latch
  <2>1. Shape(PushOp(src), "Sp", FALSE, FALSE, src, "DecSp")
    BY Shapes
  <2>2. QED
    BY <2>1, <1>1 DEF Shape
<1>5. \A src \in {"EaLo", "PtrLo"}, offset \in OffsetType : Weightless(ReadAndOffset(src, offset))
  <2> TAKE src \in {"EaLo", "PtrLo"}, offset \in OffsetType
  <2>1. Shape(ReadAndOffset(src, offset), src, TRUE, FALSE, "None", "AddOffset")
    BY Shapes
  <2>2. QED
    BY <2>1, <1>1 DEF Shape, Weightless
<1>6. Weightless(ReadPcSetPc(0))
  <2>1. Shape(ReadPcSetPc(0), "Pc", TRUE, FALSE, "None", "SetPc")
    BY Shapes
  <2>2. QED
    BY <2>1, <1>1 DEF Shape, Weightless
<1>7. \A offset \in OffsetType : Weightless(OffsetOptFix(offset))
  <2> TAKE offset \in OffsetType
  <2>1. Shape(OffsetOptFix(offset), "Ea", TRUE, FALSE, "Op0", "OffsetWithExtraCycle")
    BY Shapes
  <2>2. QED
    BY <2>1, <1>1 DEF Shape, Weightless
<1>8. AdvanceOf[AluWrite] = 0 /\ MovedOf[AluWrite] = 0 /\ WritesOf[AluWrite] = 1
  <2>1. Shape(AluWrite, "Ea", FALSE, FALSE, "None", "None")
    BY Shapes
  <2>2. QED
    BY <2>1, <1>1 DEF Shape
<1>9. \A read \in BOOLEAN :
          /\ AdvanceOf[AluModify(read)] = 0 /\ MovedOf[AluModify(read)] = 0
          /\ WritesOf[AluModify(read)] = IF read THEN 0 ELSE 1
  <2> TAKE read \in BOOLEAN
  <2>1. Shape(AluModify(read), "Ea", read, FALSE, "None", "Modify")
    BY Shapes
  <2>2. QED
    BY <2>1, <1>1 DEF Shape
<1>10. AdvanceOf[AluPush] = 0 /\ MovedOf[AluPush] = -1 /\ WritesOf[AluPush] = 1
  <2>1. Shape(AluPush, "Sp", FALSE, FALSE, "None", "DecSp")
    BY Shapes
  <2>2. QED
    BY <2>1, <1>1 DEF Shape
<1>11. \A dest \in Latch : Weightless(ReadPtr1(dest)) /\ Weightless(ReadInvPtr2(dest))
  <2> TAKE dest \in Latch
  <2>1. /\ Shape(ReadPtr1(dest), "Ptr", TRUE, FALSE, dest, "IncLatch")
        /\ Shape(ReadInvPtr2(dest), "Ptr", TRUE, FALSE, dest, "FixPtr")
    BY Shapes
  <2>2. QED
    BY <2>1, <1>1 DEF Shape, Weightless
<1>12. \A inc \in BOOLEAN, dest \in Latch, alu \in {"SwapEaPc", "SpecialAddOffset", "Branch"} :
          /\ AdvanceOf[ReadPcThen(inc, dest, alu)] = IF inc THEN 1 ELSE 0
          /\ MovedOf[ReadPcThen(inc, dest, alu)] = 0
          /\ WritesOf[ReadPcThen(inc, dest, alu)] = 0
  <2> TAKE inc \in BOOLEAN, dest \in Latch, alu \in {"SwapEaPc", "SpecialAddOffset", "Branch"}
  <2>1. Shape(ReadPcThen(inc, dest, alu), "Pc", TRUE, inc, dest, alu)
    BY Shapes
  <2>2. QED
    BY <2>1, <1>1 DEF Shape
<1>13. Weightless(Op(Cycle("FFFF", FALSE, FALSE, TRUE), FALSE, "None", Alu("Jam")))
  <2> DEFINE op == Op(Cycle("FFFF", FALSE, FALSE, TRUE), FALSE, "None", Alu("Jam"))
  <2>1. Shape(op, "FFFF", TRUE, FALSE, "None", "Jam")
    BY Shapes
  <2> HIDE DEF op
  <2>2. Weightless(op)
    BY <2>1, <1>1 DEF Shape, Weightless
  <2>3. QED
    BY <2>2 DEF op
<1>14. QED
  BY <1>2, <1>3, <1>4, <1>5, <1>6, <1>7, <1>8, <1>9, <1>10, <1>11, <1>12, <1>13

\* How a memory access ends
LEMMA FinishFacts ==
    ASSUME NEW action \in MemoryAction
    PROVE  LET t == FinishAction(F, action)
           IN  /\ t \in Seq(Inert) /\ Len(t) = IF action = "ReadModifyWrite" THEN 3 ELSE 1
               /\ action # "Write" => Weightless(t[1])
               /\ From(AdvanceOf, t, 1) = 0
               /\ From(WritesOf, t, 1) =
                     CASE action = "Read" -> 0
                       [] action = "Write" -> 1
                       [] OTHER -> IF F.RMW_DUMMY_WRITE THEN 2 ELSE 1
<1> DEFINE read == ReadOp("Ea", "Op0", FALSE)
           modify == AluModify(~F.RMW_DUMMY_WRITE)
<1>1. F.RMW_DUMMY_WRITE \in BOOLEAN
  BY FlavorAssumption DEF FlavorType
<1>2. read \in Inert /\ modify \in Inert /\ AluWrite \in Inert
  BY <1>1, InertOps DEF Targets, Latch
<1>3. /\ Weightless(read)
      /\ AdvanceOf[modify] = 0 /\ WritesOf[modify] = IF F.RMW_DUMMY_WRITE THEN 1 ELSE 0
      /\ AdvanceOf[AluWrite] = 0 /\ WritesOf[AluWrite] = 1
  <2>1. Weightless(read)
    BY OpWeights DEF Latch, Weightless
  <2>2. AdvanceOf[modify] = 0 /\ WritesOf[modify] = IF F.RMW_DUMMY_WRITE THEN 1 ELSE 0
    BY <1>1, OpWeights
  <2>3. QED
    BY <2>1, <2>2, OpWeights
<1>4. /\ FinishAction(F, "Read") = << read >>
      /\ FinishAction(F, "Write") = << AluWrite >>
      /\ FinishAction(F, "ReadModifyWrite") = << read, modify, AluWrite >>
  BY DEF FinishAction
<1> HIDE DEF read, modify
<1>5. /\ AdvanceOf \in [MicroOp -> Int] /\ WritesOf \in [MicroOp -> Int]
      /\ read \in MicroOp /\ modify \in MicroOp /\ AluWrite \in MicroOp
  BY <1>2, WeightTypes DEF Weights, Inert
<1>6. CASE action = "Read"
  <2>1. << read >> \in Seq(Inert) /\ Len(<< read >>) = 1
    BY <1>2, Tuples
  <2>2. From(AdvanceOf, << read >>, 1) = 0 /\ From(WritesOf, << read >>, 1) = 0
    BY <1>3, <1>5, FromTuple DEF Weightless
  <2>3. << read >>[1] = read
    OBVIOUS
  <2>4. QED
    BY <1>3, <1>4, <1>6, <2>1, <2>2, <2>3
<1>7. CASE action = "Write"
  <2>1. << AluWrite >> \in Seq(Inert) /\ Len(<< AluWrite >>) = 1
    BY <1>2, Tuples
  <2>2. /\ From(AdvanceOf, << AluWrite >>, 1) = AdvanceOf[AluWrite]
        /\ From(WritesOf, << AluWrite >>, 1) = WritesOf[AluWrite]
    BY <1>5, FromTuple
  <2>3. QED
    BY <1>3, <1>4, <1>7, <2>1, <2>2
<1>8. CASE action = "ReadModifyWrite"
  <2> DEFINE t == << read, modify, AluWrite >>
  <2>1. t \in Seq(Inert) /\ Len(t) = 3
    BY <1>2, Tuples
  <2>2. /\ From(AdvanceOf, t, 1) = AdvanceOf[read] + AdvanceOf[modify] + AdvanceOf[AluWrite]
        /\ From(WritesOf, t, 1) = WritesOf[read] + WritesOf[modify] + WritesOf[AluWrite]
    BY <1>5, FromTuple
  <2>3. t[1] = read
    OBVIOUS
  <2> HIDE DEF t
  <2>4. From(AdvanceOf, t, 1) = 0
    BY <1>3, <2>2 DEF Weightless
  <2>5. From(WritesOf, t, 1) = IF F.RMW_DUMMY_WRITE THEN 2 ELSE 1
    BY <1>3, <2>2 DEF Weightless
  <2>6. QED
    BY <1>3, <1>4, <1>8, <2>1, <2>3, <2>4, <2>5 DEF t
<1>9. QED
  BY <1>6, <1>7, <1>8 DEF MemoryAction

-----------------------------------------------------------------------------
(* Memory accesses: operand bytes, perhaps an index, and the access.       *)

\* The write cycles of a memory access
AccessWrites(inst) == ByAction(inst, 0, 1, IF F.RMW_DUMMY_WRITE THEN 2 ELSE 1)

LEMMA WeightFacts ==
    /\ AdvanceOf \in [MicroOp -> Int]
    /\ MovedOf \in [MicroOp -> Int]
    /\ WritesOf \in [MicroOp -> Int]
BY WeightTypes DEF Weights

LEMMA AccessInt == ASSUME NEW inst PROVE AccessWrites(inst) \in Int
BY DEF AccessWrites, ByAction

LEMMA AccessFacts ==
    ASSUME NEW inst, inst.memory_action \in MemoryAction
    PROVE  LET t == FinishAction(F, inst.memory_action)
           IN  /\ t \in Seq(Inert) /\ t \in Seq(MicroOp) /\ t # << >>
               /\ Len(t) = ByAction(inst, 1, 1, 3)
               /\ inst.memory_action = "Read" => Len(t) = 1
               /\ inst.memory_action # "Write" => Weightless(t[1])
               /\ From(AdvanceOf, t, 1) = 0
               /\ From(WritesOf, t, 1) = AccessWrites(inst)
<1> DEFINE t == FinishAction(F, inst.memory_action)
<1>1. /\ t \in Seq(Inert) /\ Len(t) = IF inst.memory_action = "ReadModifyWrite" THEN 3 ELSE 1
      /\ inst.memory_action # "Write" => Weightless(t[1])
      /\ From(AdvanceOf, t, 1) = 0
      /\ From(WritesOf, t, 1) =
            CASE inst.memory_action = "Read" -> 0
              [] inst.memory_action = "Write" -> 1
              [] OTHER -> IF F.RMW_DUMMY_WRITE THEN 2 ELSE 1
  BY FinishFacts
<1> HIDE DEF t
<1>2. t \in Seq(MicroOp)
  BY <1>1, SeqMonotonic DEF Inert
<1>3. Len(t) = ByAction(inst, 1, 1, 3) /\ From(WritesOf, t, 1) = AccessWrites(inst)
  BY <1>1 DEF ByAction, AccessWrites, MemoryAction
<1>4. t # << >>
  BY <1>1
<1>5. QED
  BY <1>1, <1>2, <1>3, <1>4 DEF t

LEMMA MemoryQueue ==
    ASSUME NEW inst, inst.memory_action \in MemoryAction, NEW s, s \in Seq(Inert), Len(s) <= 4,
           From(WritesOf, s, 1) = 0
    PROVE  LET q == s \o FinishAction(F, inst.memory_action)
           IN  /\ q \in Seq(Inert) /\ q # << >> /\ Len(q) <= 7
               /\ Len(q) = Len(s) + ByAction(inst, 1, 1, 3)
               /\ From(AdvanceOf, q, 1) = From(AdvanceOf, s, 1)
               /\ From(WritesOf, q, 1) = AccessWrites(inst)
<1> DEFINE t == FinishAction(F, inst.memory_action)
           q == s \o t
<1>1. /\ t \in Seq(Inert) /\ t \in Seq(MicroOp)
      /\ Len(t) = ByAction(inst, 1, 1, 3)
      /\ From(AdvanceOf, t, 1) = 0
      /\ From(WritesOf, t, 1) = AccessWrites(inst)
  BY AccessFacts
<1> HIDE DEF t
<1>2. s \in Seq(MicroOp)
  BY SeqMonotonic DEF Inert
<1>3. q \in Seq(Inert) /\ Len(q) = Len(s) + Len(t)
  BY <1>1, ConcatProperties
<1>4. Len(s) \in Nat /\ Len(t) \in Nat /\ 1 <= Len(t) /\ Len(t) <= 3
  BY <1>1, LenProperties DEF ByAction
<1>5. Len(s) + Len(t) <= 7
  BY ONLY <1>4, Len(s) <= 4
<1>6. /\ From(AdvanceOf, q, 1) = From(AdvanceOf, s, 1) + From(AdvanceOf, t, 1)
      /\ From(WritesOf, q, 1) = From(WritesOf, s, 1) + From(WritesOf, t, 1)
  BY <1>1, <1>2, <1>5, FromConcat, WeightFacts
<1> HIDE DEF q
<1>7. From(AdvanceOf, s, 1) \in Int
  BY <1>2, FromType, WeightFacts
<1>8. /\ From(AdvanceOf, q, 1) = From(AdvanceOf, s, 1)
      /\ From(WritesOf, q, 1) = AccessWrites(inst)
  <2>1. AccessWrites(inst) \in Int
    BY AccessInt
  <2>2. From(AdvanceOf, q, 1) = From(AdvanceOf, s, 1)
    BY ONLY <1>1, <1>6, <1>7
  <2>3. From(WritesOf, q, 1) = AccessWrites(inst)
    BY ONLY <1>1, <1>6, <2>1, From(WritesOf, s, 1) = 0
  <2>4. QED
    BY <2>2, <2>3
<1>9. q # << >>
  <2>1. Len(q) # 0
    BY <1>3, <1>4
  <2>2. QED
    BY <2>1, EmptySeq
<1>10. QED
  BY <1>1, <1>3, <1>5, <1>8, <1>9 DEF q, t

LEMMA OffsetQueue ==
    ASSUME NEW inst, inst.memory_action \in MemoryAction, NEW s, s \in Seq(Inert), Len(s) <= 3,
           From(WritesOf, s, 1) = 0, Indexed(inst), NEW offset \in OffsetType
    PROVE  LET q == s \o << OffsetOptFix(offset) >> \o FinishAction(F, inst.memory_action)
           IN  /\ q \in Seq(MicroOp) /\ q # << >> /\ Len(q) <= 7
               /\ Len(q) = Len(s) + 1 + ByAction(inst, 1, 1, 3)
               /\ AllInPlace(inst, "program", q)
               /\ Pending(q, "OffsetWithExtraCycle")
               /\ From(AdvanceOf, q, 1) = From(AdvanceOf, s, 1)
               /\ From(MovedOf, q, 1) = 0
               /\ From(WritesOf, q, 1) = AccessWrites(inst)
<1> DEFINE op == OffsetOptFix(offset)
           t == FinishAction(F, inst.memory_action)
           h == s \o << op >>
           q == h \o t
<1>1. /\ t \in Seq(Inert) /\ t \in Seq(MicroOp) /\ t # << >>
      /\ Len(t) = ByAction(inst, 1, 1, 3)
      /\ inst.memory_action = "Read" => Len(t) = 1
      /\ inst.memory_action # "Write" => Weightless(t[1])
      /\ From(AdvanceOf, t, 1) = 0
      /\ From(WritesOf, t, 1) = AccessWrites(inst)
  BY AccessFacts
<1>2. /\ op \in MicroOp /\ op.bus.addr = "Ea" /\ op.bus.read = TRUE /\ op.local_latch = "Op0"
      /\ op.alu.op = "OffsetWithExtraCycle"
  BY Shapes DEF Shape
<1>3. Weightless(op)
  BY OpWeights
<1> HIDE DEF t, op
<1>4. s \in Seq(MicroOp) /\ << op >> \in Seq(MicroOp) /\ Len(<< op >>) = 1
  BY <1>2, SeqMonotonic DEF Inert
<1>5. Len(s) \in Nat /\ Len(t) \in Nat /\ 1 <= Len(t) /\ Len(t) <= 3
  BY <1>1, LenProperties DEF ByAction
<1>6. /\ h \in Seq(MicroOp) /\ Len(h) = Len(s) + 1
      /\ \A i \in 1..(Len(s) + 1) : h[i] = IF i <= Len(s) THEN s[i] ELSE op
  <2>1. /\ h \in Seq(MicroOp) /\ Len(h) = Len(s) + Len(<< op >>)
        /\ \A i \in 1..(Len(s) + Len(<< op >>)) :
              h[i] = IF i <= Len(s) THEN s[i] ELSE << op >>[i - Len(s)]
    BY <1>4, ConcatProperties
  <2>2. QED
    BY <2>1, <1>4, <1>5
<1>7. /\ From(AdvanceOf, h, 1) = From(AdvanceOf, s, 1) + From(AdvanceOf, << op >>, 1)
      /\ From(MovedOf, h, 1) = From(MovedOf, s, 1) + From(MovedOf, << op >>, 1)
      /\ From(WritesOf, h, 1) = From(WritesOf, s, 1) + From(WritesOf, << op >>, 1)
  <2>1. Len(s) + Len(<< op >>) <= 7
    BY <1>4, <1>5
  <2>2. QED
    BY <1>4, <2>1, FromConcat, WeightFacts
<1> HIDE DEF h
<1>8. /\ q \in Seq(MicroOp) /\ Len(q) = Len(h) + Len(t)
      /\ \A i \in 1..(Len(h) + Len(t)) : q[i] = IF i <= Len(h) THEN h[i] ELSE t[i - Len(h)]
  BY <1>1, <1>6, ConcatProperties
<1>9. Len(h) + Len(t) <= 7
  BY ONLY <1>5, <1>6, Len(s) <= 3
<1>10. /\ From(AdvanceOf, q, 1) = From(AdvanceOf, h, 1) + From(AdvanceOf, t, 1)
       /\ From(MovedOf, q, 1) = From(MovedOf, h, 1) + From(MovedOf, t, 1)
       /\ From(WritesOf, q, 1) = From(WritesOf, h, 1) + From(WritesOf, t, 1)
  BY <1>1, <1>6, <1>9, FromConcat, WeightFacts
<1> HIDE DEF q
<1>11. /\ Len(q) = Len(s) + 1 + Len(t) /\ Len(q) <= 7
       /\ \A i \in 1..Len(s) : q[i] = s[i]
       /\ q[Len(s) + 1] = op
       /\ q[Len(s) + 2] = t[1]
       /\ \A i \in 1..Len(q) : i \in 1..Len(s) \/ i = Len(s) + 1
                               \/ (i - Len(h) \in 1..Len(t) /\ q[i] = t[i - Len(h)])
  <2>1. Len(q) = Len(s) + 1 + Len(t) /\ Len(q) <= 7
    BY ONLY <1>5, <1>6, <1>8, <1>9
  <2>2. /\ Len(h) = Len(s) + 1 /\ Len(s) \in Nat
        /\ Len(t) \in Nat /\ 1 <= Len(t) /\ Len(t) <= 3
    BY ONLY <1>5, <1>6
  <2>3. \A i \in 1..Len(s) : q[i] = s[i]
    BY ONLY <2>2, <1>6, <1>8
  <2>4. q[Len(s) + 1] = op
    BY ONLY <2>2, <1>6, <1>8
  <2>5. q[Len(s) + 2] = t[1]
    BY ONLY <2>2, <1>8
  <2>6. ASSUME NEW i \in 1..Len(q), i \notin 1..Len(s), i # Len(s) + 1
        PROVE  i - Len(h) \in 1..Len(t) /\ q[i] = t[i - Len(h)]
    BY ONLY <2>1, <2>2, <2>6, <1>8, i \in 1..Len(q)
  <2>7. QED
    BY ONLY <2>1, <2>3, <2>4, <2>5, <2>6
<1>12. /\ \A i \in 1..Len(s) : s[i] \in Inert
       /\ \A i \in 1..Len(t) : t[i] \in Inert
  BY <1>1, ElementOfSeq
<1>13. /\ From(AdvanceOf, q, 1) = From(AdvanceOf, s, 1)
       /\ From(MovedOf, q, 1) = 0
       /\ From(WritesOf, q, 1) = AccessWrites(inst)
  <2>1. /\ From(AdvanceOf, << op >>, 1) = 0
        /\ From(MovedOf, << op >>, 1) = 0
        /\ From(WritesOf, << op >>, 1) = 0
    BY <1>2, <1>3, FromTuple, WeightFacts DEF Weightless
  <2>2. From(MovedOf, s, 1) = 0 /\ From(MovedOf, t, 1) = 0
    BY <1>1, InertPlaces
  <2>3. From(AdvanceOf, s, 1) \in Int /\ AccessWrites(inst) \in Int
    BY <1>4, FromType, WeightFacts, AccessInt
  <2>4. From(AdvanceOf, q, 1) = From(AdvanceOf, s, 1)
    BY ONLY <1>1, <1>7, <1>10, <2>1, <2>3
  <2>5. From(MovedOf, q, 1) = 0
    BY ONLY <1>7, <1>10, <2>1, <2>2
  <2>6. From(WritesOf, q, 1) = AccessWrites(inst)
    BY ONLY <1>1, <1>7, <1>10, <2>1, <2>3, From(WritesOf, s, 1) = 0
  <2>7. QED
    BY ONLY <2>4, <2>5, <2>6
<1>14. ASSUME NEW i \in 1..Len(q) PROVE i = Len(s) + 1 \/ q[i] \in Inert
  BY <1>11, <1>12
<1>15. q[Len(s) + 1] = op /\ Len(s) + 1 \in 1..Len(q) /\ q[Len(s) + 2] = t[1]
  BY ONLY <1>5, <1>11
<1>16. Pending(q, "OffsetWithExtraCycle")
  BY <1>2, <1>15 DEF Pending
<1>17. InPlace(inst, "program", q, Len(s) + 1)
  <2> DEFINE i == Len(s) + 1
  <2>1. q[i] = op /\ i < Len(q) /\ q[i + 1] = t[1] /\ Len(q) = i + Len(t)
    BY ONLY <1>5, <1>11, <1>15
  <2>2. Belongs(inst, "program", op)
    BY <1>2, <1>3 DEF Belongs, Weightless
  <2>3. ~PushesLatch(op)
    BY <1>2 DEF PushesLatch
  <2>4. \A j \in (i + 1)..Len(q) : q[j].alu.op # "OffsetWithExtraCycle"
    <3> TAKE j \in (i + 1)..Len(q)
    <3>1. j \in 1..Len(q) /\ j # Len(s) + 1
      BY ONLY <1>5, j \in (i + 1)..Len(q)
    <3>2. q[j] \in Inert
      BY <3>1, <1>14
    <3>3. QED
      BY <3>2 DEF Inert
  <2>5. inst.memory_action = "Read" => Len(q) = i + 1
    BY <1>1, <2>1
  <2> HIDE DEF i
  <2>6. InPlace(inst, "program", q, i)
    BY <1>1, <1>2, <1>3, <2>1, <2>2, <2>3, <2>4, <2>5 DEF InPlace
  <2>7. QED
    BY <2>6 DEF i
<1>18. AllInPlace(inst, "program", q)
  BY <1>8, <1>14, <1>17, InertPlace DEF AllInPlace
<1>19. Len(q) = Len(s) + 1 + ByAction(inst, 1, 1, 3) /\ q # << >>
  <2>1. Len(q) # 0
    BY <1>5, <1>11
  <2>2. QED
    BY <1>1, <1>11, <2>1, EmptySeq
<1>20. QED
  BY <1>8, <1>11, <1>13, <1>16, <1>18, <1>19 DEF q, h, t, op

LEMMA InertConcat ==
    ASSUME NEW s, s \in Seq(Inert), NEW t, t \in Seq(Inert), Len(s) + Len(t) <= 7
    PROVE  /\ s \o t \in Seq(Inert)
           /\ Len(s \o t) = Len(s) + Len(t)
           /\ From(AdvanceOf, s \o t, 1) = From(AdvanceOf, s, 1) + From(AdvanceOf, t, 1)
           /\ From(WritesOf, s \o t, 1) = From(WritesOf, s, 1) + From(WritesOf, t, 1)
<1>1. s \in Seq(MicroOp) /\ t \in Seq(MicroOp)
  BY SeqMonotonic DEF Inert
<1>2. s \o t \in Seq(Inert) /\ Len(s \o t) = Len(s) + Len(t)
  BY ConcatProperties
<1>3. QED
  BY <1>1, <1>2, FromConcat, WeightFacts

\* An instruction with an addressing mode of its own, and what one more op adds
Plain(inst, kind) ==
    /\ Kind(inst) = kind /\ inst.memory_action \in MemoryAction
    /\ inst.address_mode.offset \in OffsetType /\ inst.address_mode.cycles = 0

\* PC, SP and writes by addressing mode
LEMMA ModeTable ==
    ASSUME NEW inst, inst.memory_action \in MemoryAction
    PROVE  /\ Kind(inst) \in {"DirectPage", "Absolute", "DpIndirect"} =>
                 /\ PlannedAdvance(inst, "program") =
                       IF Kind(inst) = "Absolute" THEN 3 ELSE 2
                 /\ BytesPushed(inst) = 0 /\ WriteCycles(inst) = AccessWrites(inst)
           /\ Kind(inst) \in {"Implied", "Immediate", "Relative", "DpRelative", "JmpAbsolute",
                              "JmpIndirect", "JmpAbsoluteX", "CmosNop", "Jam"} =>
                 BytesPushed(inst) = 0 /\ WriteCycles(inst) = 0
           /\ Kind(inst) \in {"Implied", "Stack", "Jam", "FromInterrupt"} =>
                 PlannedAdvance(inst, "program") = 1
           /\ Kind(inst) \in {"Immediate", "Relative", "JmpIndirect", "JmpAbsoluteX",
                              "ToSubroutine", "FromSubroutine", "Brk"} =>
                 PlannedAdvance(inst, "program") = 2
           /\ Kind(inst) \in {"JmpAbsolute", "DpRelative"} => PlannedAdvance(inst, "program") = 3
           /\ Kind(inst) = "CmosNop" => PlannedAdvance(inst, "program") = inst.address_mode.bytes
           /\ Kind(inst) = "Stack" =>
                 /\ BytesPushed(inst) = ByAction(inst, -1, 1, 0)
                 /\ WriteCycles(inst) = ByAction(inst, 0, 1, 0)
           /\ Kind(inst) = "ToSubroutine" => BytesPushed(inst) = 2 /\ WriteCycles(inst) = 2
           /\ Kind(inst) = "FromSubroutine" => BytesPushed(inst) = -2 /\ WriteCycles(inst) = 0
           /\ Kind(inst) = "FromInterrupt" => BytesPushed(inst) = -3 /\ WriteCycles(inst) = 0
           /\ Kind(inst) = "Brk" => BytesPushed(inst) = 3 /\ WriteCycles(inst) = 3
<1> DEFINE kind == inst.address_mode.kind
<1>1. Kind(inst) = kind
  BY DEF Kind
<1>2. /\ BytesPushed(inst) = CASE kind = "Brk" -> 3
                               [] kind = "ToSubroutine" -> 2
                               [] kind = "Stack" -> ByAction(inst, -1, 1, 0)
                               [] kind = "FromSubroutine" -> -2
                               [] kind = "FromInterrupt" -> -3
                               [] OTHER -> 0
      /\ WriteCycles(inst) = IF kind \in {"DirectPage", "Absolute", "DpIndirect"}
                             THEN AccessWrites(inst)
                             ELSE IF BytesPushed(inst) > 0 THEN BytesPushed(inst) ELSE 0
  BY DEF BytesPushed, WriteCycles, AccessWrites
<1>3. PlannedAdvance(inst, "program") =
        CASE kind \in {"Implied", "Stack", "Immediate", "DirectPage", "DpIndirect", "Relative",
                       "Absolute", "DpRelative"} ->
                1 + (CASE kind \in {"Implied", "Stack"} -> 0
                       [] kind \in {"Absolute", "DpRelative"} -> 2
                       [] OTHER -> 1)
          [] kind = "CmosNop" -> inst.address_mode.bytes
          [] kind = "JmpAbsolute" -> 3
          [] kind \in {"FromInterrupt", "Jam"} -> 1
          [] OTHER -> 2
  BY DEF PlannedAdvance, Operands, Kind
<1> HIDE DEF kind
<1>4. kind = "Stack" => /\ BytesPushed(inst) = ByAction(inst, -1, 1, 0)
                        /\ WriteCycles(inst) = ByAction(inst, 0, 1, 0)
  BY <1>2 DEF ByAction, MemoryAction
<1>5. /\ kind \in {"DirectPage", "Absolute", "DpIndirect"} =>
            /\ PlannedAdvance(inst, "program") = IF kind = "Absolute" THEN 3 ELSE 2
            /\ BytesPushed(inst) = 0 /\ WriteCycles(inst) = AccessWrites(inst)
      /\ kind \in {"Implied", "Immediate", "Relative", "DpRelative", "JmpAbsolute",
                   "JmpIndirect", "JmpAbsoluteX", "CmosNop", "Jam"} =>
            BytesPushed(inst) = 0 /\ WriteCycles(inst) = 0
  BY <1>2, <1>3
<1>6. /\ kind = "ToSubroutine" => BytesPushed(inst) = 2 /\ WriteCycles(inst) = 2
      /\ kind = "FromSubroutine" => BytesPushed(inst) = -2 /\ WriteCycles(inst) = 0
      /\ kind = "FromInterrupt" => BytesPushed(inst) = -3 /\ WriteCycles(inst) = 0
      /\ kind = "Brk" => BytesPushed(inst) = 3 /\ WriteCycles(inst) = 3
  BY <1>2
<1>7. /\ kind \in {"Implied", "Stack", "Jam", "FromInterrupt"} =>
            PlannedAdvance(inst, "program") = 1
      /\ kind \in {"Immediate", "Relative", "JmpIndirect", "JmpAbsoluteX", "ToSubroutine",
                   "FromSubroutine", "Brk"} => PlannedAdvance(inst, "program") = 2
      /\ kind \in {"JmpAbsolute", "DpRelative"} => PlannedAdvance(inst, "program") = 3
      /\ kind = "CmosNop" => PlannedAdvance(inst, "program") = inst.address_mode.bytes
  BY <1>3
<1>8. QED
  BY <1>1, <1>4, <1>5, <1>6, <1>7

LEMMA OneOp ==
    ASSUME NEW op \in Inert
    PROVE  /\ << op >> \in Seq(Inert) /\ Len(<< op >>) = 1
           /\ From(AdvanceOf, << op >>, 1) = AdvanceOf[op]
           /\ From(WritesOf, << op >>, 1) = WritesOf[op]
<1>1. op \in MicroOp
  BY DEF Inert
<1>2. QED
  BY <1>1, Tuples, FromTuple, WeightFacts

LEMMA NoOp ==
    /\ << >> \in Seq(Inert) /\ Len(<< >>) = 0
    /\ From(AdvanceOf, << >>, 1) = 0 /\ From(WritesOf, << >>, 1) = 0
BY FromEmpty, WeightFacts

LEMMA TwoOps ==
    ASSUME NEW a \in Inert, NEW b \in Inert
    PROVE  /\ << a, b >> \in Seq(Inert) /\ Len(<< a, b >>) = 2
           /\ From(AdvanceOf, << a, b >>, 1) = AdvanceOf[a] + AdvanceOf[b]
           /\ From(WritesOf, << a, b >>, 1) = WritesOf[a] + WritesOf[b]
<1>1. a \in MicroOp /\ b \in MicroOp
  BY DEF Inert
<1>2. << a, b >> \in Seq(Inert) /\ Len(<< a, b >>) = 2
  BY Tuples
<1>3. \A w \in [MicroOp -> Int] : From(w, << a, b >>, 1) = w[a] + w[b]
  BY <1>1, FromTuple
<1>4. QED
  BY ONLY <1>2, <1>3, WeightFacts

\* Reads of operand bytes and of pointers
LEMMA InertReads ==
    ASSUME NEW src \in {"Pc", "Ea", "PtrLo", "Ptr"}, NEW dest \in Targets, NEW inc \in BOOLEAN
    PROVE  /\ ReadOp(src, dest, inc) \in Inert
           /\ AdvanceOf[ReadOp(src, dest, inc)] = IF inc /\ src = "Pc" THEN 1 ELSE 0
           /\ WritesOf[ReadOp(src, dest, inc)] = 0
<1>1. src \in Latch /\ dest \in Latch
  BY DEF Latch, Targets
<1>2. QED
  BY <1>1, InertOps, OpWeights

\* The length of a queue, as a number
Size(s) == Len(s)

LEMMA ShortFresh ==
    ASSUME NEW inst, NEW kind, Plain(inst, kind), kind # "Jam", BytesPushed(inst) = 0,
           NEW s, s \in Seq(Inert), Size(s) \in 1..6,
           From(AdvanceOf, s, 1) = PlannedAdvance(inst, "program") - 1,
           From(WritesOf, s, 1) = WriteCycles(inst),
           Size(s) + 1 = CyclesOf(inst, "program", FALSE, FALSE)
    PROVE  Fresh(inst, "program", s)
<1>1. Size(s) <= 7 /\ Size(s) # 0
  OBVIOUS
<1>2. Len(s) <= 7 /\ Len(s) + 1 = CyclesOf(inst, "program", FALSE, FALSE)
  BY <1>1 DEF Size
<1>3. s # << >>
  BY <1>1, EmptySeq DEF Size
<1>4. Kind(inst) # "Jam" /\ (s = << >> <=> inst.address_mode.cycles = 1)
  BY <1>3 DEF Plain
<1>5. QED
  BY <1>2, <1>4, InertFresh

\* The weights of longer tuples
LEMMA FiveOps ==
    ASSUME NEW a \in MicroOp, NEW b \in MicroOp, NEW c \in MicroOp, NEW d \in MicroOp,
           NEW e \in MicroOp, NEW w \in [MicroOp -> Int]
    PROVE  From(w, << a, b, c, d, e >>, 1) = w[a] + w[b] + w[c] + w[d] + w[e]
BY FromTuple

LEMMA AccessFresh ==
    ASSUME NEW inst, NEW kind \in {"DirectPage", "Absolute", "DpIndirect"}, Plain(inst, kind),
           NEW s, s \in Seq(Inert), Len(s) <= 4, From(WritesOf, s, 1) = 0,
           From(AdvanceOf, s, 1) = PlannedAdvance(inst, "program") - 1,
           Len(s) + ByAction(inst, 1, 1, 3) + 1 = CyclesOf(inst, "program", FALSE, FALSE)
    PROVE  Fresh(inst, "program", s \o FinishAction(F, inst.memory_action))
<1> DEFINE q == s \o FinishAction(F, inst.memory_action)
<1>1. /\ q \in Seq(Inert) /\ q # << >> /\ Len(q) <= 7
      /\ Len(q) = Len(s) + ByAction(inst, 1, 1, 3)
      /\ From(AdvanceOf, q, 1) = From(AdvanceOf, s, 1)
      /\ From(WritesOf, q, 1) = AccessWrites(inst)
  BY MemoryQueue DEF Plain
<1> HIDE DEF q
<1>2. BytesPushed(inst) = 0 /\ WriteCycles(inst) = AccessWrites(inst)
  BY ModeTable DEF Plain
<1>3. Len(q) + 1 = CyclesOf(inst, "program", FALSE, FALSE)
  BY ONLY <1>1, Len(s) + ByAction(inst, 1, 1, 3) + 1 = CyclesOf(inst, "program", FALSE, FALSE)
<1>4. /\ Kind(inst) # "Jam" /\ (q = << >> <=> inst.address_mode.cycles = 1)
      /\ From(AdvanceOf, q, 1) = PlannedAdvance(inst, "program") - 1
      /\ From(WritesOf, q, 1) = WriteCycles(inst)
  BY <1>1, <1>2 DEF Plain
<1>5. Fresh(inst, "program", q)
  BY ONLY <1>1, <1>2, <1>3, <1>4, InertFresh
<1>6. QED
  BY <1>5 DEF q

LEMMA OffsetFresh ==
    ASSUME NEW inst, NEW kind \in {"Absolute", "DpIndirect"}, Plain(inst, kind), Indexed(inst),
           NEW s, s \in Seq(Inert), Len(s) <= 3, From(WritesOf, s, 1) = 0,
           From(AdvanceOf, s, 1) = PlannedAdvance(inst, "program") - 1,
           Len(s) + 1 + ByAction(inst, 1, 1, 3) + 1 = CyclesOf(inst, "program", TRUE, FALSE),
           NEW offset \in OffsetType
    PROVE  Fresh(inst, "program",
                 s \o << OffsetOptFix(offset) >> \o FinishAction(F, inst.memory_action))
<1> DEFINE q == s \o << OffsetOptFix(offset) >> \o FinishAction(F, inst.memory_action)
<1>1. /\ q \in Seq(MicroOp) /\ q # << >> /\ Len(q) <= 7
      /\ Len(q) = Len(s) + 1 + ByAction(inst, 1, 1, 3)
      /\ AllInPlace(inst, "program", q)
      /\ Pending(q, "OffsetWithExtraCycle")
      /\ From(AdvanceOf, q, 1) = From(AdvanceOf, s, 1)
      /\ From(MovedOf, q, 1) = 0
      /\ From(WritesOf, q, 1) = AccessWrites(inst)
  BY OffsetQueue DEF Plain
<1> HIDE DEF q
<1>2. BytesPushed(inst) = 0 /\ WriteCycles(inst) = AccessWrites(inst)
  BY ModeTable DEF Plain
<1>3. Len(q) + 1 = CyclesOf(inst, "program", TRUE, FALSE)
  BY ONLY <1>1,
          Len(s) + 1 + ByAction(inst, 1, 1, 3) + 1 = CyclesOf(inst, "program", TRUE, FALSE)
<1>4. /\ Kind(inst) # "Jam" /\ (q = << >> <=> inst.address_mode.cycles = 1)
      /\ From(AdvanceOf, q, 1) = PlannedAdvance(inst, "program") - 1
      /\ From(MovedOf, q, 1) = -BytesPushed(inst)
      /\ From(WritesOf, q, 1) = WriteCycles(inst)
  BY <1>1, <1>2 DEF Plain
<1>5. Pending(q, "OffsetWithExtraCycle") = TRUE
  BY <1>1 DEF Pending
<1>6. FetchCycle("program") = 1
  BY DEF FetchCycle
<1>7. Fresh(inst, "program", q)
  BY ONLY <1>1, <1>3, <1>4, <1>5, <1>6 DEF Fresh
<1>8. QED
  BY <1>7 DEF q

LEMMA DpFresh ==
    ASSUME NEW inst, Plain(inst, "DirectPage")
    PROVE  Fresh(inst, "program", EmitDp(F, inst.memory_action, inst.address_mode.offset))
<1> DEFINE offset == inst.address_mode.offset
           a == ReadOp("Pc", "EaLo", TRUE)
           x == ReadAndOffset("EaLo", offset)
           mid == IF offset # "None" THEN << x >> ELSE << >>
           s == << a >> \o mid
<1>1. a \in Inert /\ AdvanceOf[a] = 1 /\ WritesOf[a] = 0
  BY InertReads DEF Targets, Latch
<1>2. x \in Inert /\ AdvanceOf[x] = 0 /\ WritesOf[x] = 0
  BY InertOps, OpWeights DEF Plain, Weightless
<1>3. s \o FinishAction(F, inst.memory_action) = EmitDp(F, inst.memory_action, offset)
  BY DEF EmitDp
<1> HIDE DEF a, x
<1>4. /\ mid \in Seq(Inert) /\ Len(mid) = Extra(offset # "None")
      /\ From(AdvanceOf, mid, 1) = 0 /\ From(WritesOf, mid, 1) = 0
  BY <1>2, OneOp, NoOp DEF Extra
<1> HIDE DEF mid
<1>5. Len(<< a >>) = 1 /\ << a >> \in Seq(Inert) /\ Len(mid) <= 1 /\ Len(mid) \in Nat
  BY <1>1, <1>4, OneOp DEF Extra
<1>6. /\ s \in Seq(Inert) /\ Len(s) = 1 + Extra(offset # "None")
      /\ From(AdvanceOf, s, 1) = 1 /\ From(WritesOf, s, 1) = 0
  <2>1. Len(<< a >>) + Len(mid) <= 7
    BY ONLY <1>5
  <2>2. /\ s \in Seq(Inert) /\ Len(s) = Len(<< a >>) + Len(mid)
        /\ From(AdvanceOf, s, 1) = From(AdvanceOf, << a >>, 1) + From(AdvanceOf, mid, 1)
        /\ From(WritesOf, s, 1) = From(WritesOf, << a >>, 1) + From(WritesOf, mid, 1)
    BY <1>4, <1>5, <2>1, InertConcat
  <2>3. From(AdvanceOf, << a >>, 1) = 1 /\ From(WritesOf, << a >>, 1) = 0
    BY <1>1, OneOp
  <2>4. QED
    BY ONLY <1>4, <1>5, <2>2, <2>3
<1> HIDE DEF s
<1>7. Len(s) <= 4
  BY ONLY <1>6 DEF Extra
<1>8. From(AdvanceOf, s, 1) = PlannedAdvance(inst, "program") - 1
  BY <1>6, ModeTable DEF Plain
<1>9. Len(s) + ByAction(inst, 1, 1, 3) + 1 = CyclesOf(inst, "program", FALSE, FALSE)
  <2> DEFINE m == Len(s)
  <2>1. m = 1 + Extra(offset # "None")
    BY <1>6
  <2> HIDE DEF m
  <2>2. m + ByAction(inst, 1, 1, 3) + 1 = CyclesOf(inst, "program", FALSE, FALSE)
    BY <2>1 DEF Plain, Kind, CyclesOf, ByAction, Extra, MemoryAction
  <2>3. QED
    BY <2>2 DEF m
<1>10. QED
  BY <1>3, <1>6, <1>7, <1>8, <1>9, AccessFresh

LEMMA AbsoluteFresh ==
    ASSUME NEW inst, Plain(inst, "Absolute")
    PROVE  Fresh(inst, "program", EmitAbsolute(F, inst.memory_action, inst.address_mode.offset))
<1> DEFINE offset == inst.address_mode.offset
           a == ReadOp("Pc", "EaLo", TRUE)
           b == ReadOp("Pc", "EaHi", TRUE)
           s == << a, b >>
           t == FinishAction(F, inst.memory_action)
           mid == IF offset # "None" THEN << OffsetOptFix(offset) >> ELSE << >>
<1>1. /\ a \in Inert /\ AdvanceOf[a] = 1 /\ WritesOf[a] = 0
      /\ b \in Inert /\ AdvanceOf[b] = 1 /\ WritesOf[b] = 0
  BY InertReads DEF Targets, Latch
<1>2. (s \o mid) \o t = EmitAbsolute(F, inst.memory_action, offset)
  BY DEF EmitAbsolute
<1> HIDE DEF a, b, t
<1>3. /\ s \in Seq(Inert) /\ Len(s) = 2
      /\ From(AdvanceOf, s, 1) = 2 /\ From(WritesOf, s, 1) = 0
  BY <1>1, TwoOps
<1> HIDE DEF s
<1>4. From(AdvanceOf, s, 1) = PlannedAdvance(inst, "program") - 1
  BY <1>3, ModeTable DEF Plain
<1>5. Len(s) <= 3 /\ Len(s) <= 4
  BY <1>3
<1>6. CASE offset = "None"
  <2>1. s \o mid = s
    BY <1>3, <1>6, ConcatEmptySeq
  <2>2. 2 + ByAction(inst, 1, 1, 3) + 1 = CyclesOf(inst, "program", FALSE, FALSE)
    BY <1>6 DEF Plain, Kind, CyclesOf, ByAction, MemoryAction
  <2>3. Len(s) + ByAction(inst, 1, 1, 3) + 1 = CyclesOf(inst, "program", FALSE, FALSE)
    BY ONLY <2>2, <1>3
  <2>4. Fresh(inst, "program", s \o t)
    BY <1>3, <1>4, <1>5, <2>3, AccessFresh DEF t
  <2>5. QED
    BY <1>2, <2>1, <2>4
<1>7. CASE offset # "None"
  <2>1. Indexed(inst)
    BY <1>7 DEF Plain, Indexed
  <2>2. 2 + 1 + ByAction(inst, 1, 1, 3) + 1 = CyclesOf(inst, "program", TRUE, FALSE)
    BY <1>7 DEF Plain, Kind, CyclesOf, IndexedCycles, ByAction, Extra, MemoryAction
  <2>3. Len(s) + 1 + ByAction(inst, 1, 1, 3) + 1 = CyclesOf(inst, "program", TRUE, FALSE)
    BY ONLY <2>2, <1>3
  <2>4. Fresh(inst, "program", s \o << OffsetOptFix(offset) >> \o t)
    BY <1>3, <1>4, <1>5, <2>1, <2>3, OffsetFresh DEF t, Plain
  <2>5. QED
    BY <1>2, <1>7, <2>4
<1>8. QED
  BY <1>6, <1>7

LEMMA DpIndirectFresh ==
    ASSUME NEW inst, Plain(inst, "DpIndirect")
    PROVE  Fresh(inst, "program", EmitDpInd(F, inst.memory_action, inst.address_mode.offset))
<1> DEFINE offset == inst.address_mode.offset
           a == ReadOp("Pc", "PtrLo", TRUE)
           x == ReadAndOffset("PtrLo", offset)
           b == ReadOp("PtrLo", "EaLo", TRUE)
           c == ReadOp("PtrLo", "EaHi", FALSE)
           pre == IF offset = "X" THEN << x >> ELSE << >>
           h == << a >> \o pre
           s == h \o << b, c >>
           t == FinishAction(F, inst.memory_action)
           mid == IF offset = "Y" THEN << OffsetOptFix(offset) >> ELSE << >>
<1>1. /\ a \in Inert /\ AdvanceOf[a] = 1 /\ WritesOf[a] = 0
      /\ b \in Inert /\ AdvanceOf[b] = 0 /\ WritesOf[b] = 0
      /\ c \in Inert /\ AdvanceOf[c] = 0 /\ WritesOf[c] = 0
  BY InertReads DEF Targets, Latch
<1>2. x \in Inert /\ AdvanceOf[x] = 0 /\ WritesOf[x] = 0
  BY InertOps, OpWeights DEF Plain, Weightless
<1>3. (s \o mid) \o t = EmitDpInd(F, inst.memory_action, offset)
  BY DEF EmitDpInd
<1> HIDE DEF a, b, c, x, t
<1>4. /\ pre \in Seq(Inert) /\ Len(pre) = Extra(offset = "X")
      /\ From(AdvanceOf, pre, 1) = 0 /\ From(WritesOf, pre, 1) = 0
  BY <1>2, OneOp, NoOp DEF Extra
<1> HIDE DEF pre
<1>5. /\ Len(<< a >>) = 1 /\ << a >> \in Seq(Inert)
      /\ Len(<< b, c >>) = 2 /\ << b, c >> \in Seq(Inert)
      /\ Len(pre) <= 1 /\ Len(pre) \in Nat
      /\ From(AdvanceOf, << a >>, 1) = 1 /\ From(WritesOf, << a >>, 1) = 0
      /\ From(AdvanceOf, << b, c >>, 1) = 0 /\ From(WritesOf, << b, c >>, 1) = 0
  BY <1>1, <1>4, OneOp, TwoOps DEF Extra
<1>6. /\ h \in Seq(Inert) /\ Len(h) = 1 + Len(pre)
      /\ From(AdvanceOf, h, 1) = 1 /\ From(WritesOf, h, 1) = 0
  <2>1. Len(<< a >>) + Len(pre) <= 7
    BY ONLY <1>5
  <2>2. /\ h \in Seq(Inert) /\ Len(h) = Len(<< a >>) + Len(pre)
        /\ From(AdvanceOf, h, 1) = From(AdvanceOf, << a >>, 1) + From(AdvanceOf, pre, 1)
        /\ From(WritesOf, h, 1) = From(WritesOf, << a >>, 1) + From(WritesOf, pre, 1)
    BY <1>4, <1>5, <2>1, InertConcat
  <2>3. QED
    BY ONLY <1>4, <1>5, <2>2
<1> HIDE DEF h
<1>7. /\ s \in Seq(Inert) /\ Len(s) = 3 + Extra(offset = "X")
      /\ From(AdvanceOf, s, 1) = 1 /\ From(WritesOf, s, 1) = 0
  <2>1. Len(h) + Len(<< b, c >>) <= 7
    BY ONLY <1>5, <1>6
  <2>2. /\ s \in Seq(Inert) /\ Len(s) = Len(h) + Len(<< b, c >>)
        /\ From(AdvanceOf, s, 1) = From(AdvanceOf, h, 1) + From(AdvanceOf, << b, c >>, 1)
        /\ From(WritesOf, s, 1) = From(WritesOf, h, 1) + From(WritesOf, << b, c >>, 1)
    BY <1>5, <1>6, <2>1, InertConcat
  <2>3. Len(s) = 3 + Len(pre)
    BY ONLY <2>2, <1>5, <1>6
  <2>4. QED
    BY ONLY <1>4, <1>5, <1>6, <2>2, <2>3
<1> HIDE DEF s
<1>8. Len(s) <= 4
  BY ONLY <1>7 DEF Extra
<1>9. From(AdvanceOf, s, 1) = PlannedAdvance(inst, "program") - 1
  BY <1>7, ModeTable DEF Plain
<1>10. CASE offset # "Y"
  <2>1. s \o mid = s
    BY <1>7, <1>10, ConcatEmptySeq
  <2>2. offset \in {"X", "None"}
    BY <1>10 DEF Plain, OffsetType
  <2>3. 3 + Extra(offset = "X") + ByAction(inst, 1, 1, 3) + 1
            = CyclesOf(inst, "program", FALSE, FALSE)
    <3>1. CASE offset = "X"
      BY <3>1 DEF Plain, Kind, CyclesOf, ByAction, Extra, MemoryAction
    <3>2. CASE offset = "None"
      BY <3>2 DEF Plain, Kind, CyclesOf, ByAction, Extra, MemoryAction
    <3>3. QED
      BY <2>2, <3>1, <3>2
  <2>4. Len(s) + ByAction(inst, 1, 1, 3) + 1 = CyclesOf(inst, "program", FALSE, FALSE)
    BY ONLY <2>3, <1>7
  <2>5. Fresh(inst, "program", s \o t)
    BY <1>7, <1>8, <1>9, <2>4, AccessFresh DEF t
  <2>6. QED
    BY <1>3, <2>1, <2>5
<1>11. CASE offset = "Y"
  <2>1. Indexed(inst)
    BY <1>11 DEF Plain, Indexed
  <2>2. 3 + 1 + ByAction(inst, 1, 1, 3) + 1 = CyclesOf(inst, "program", TRUE, FALSE)
    BY <1>11 DEF Plain, Kind, CyclesOf, IndexedCycles, ByAction, Extra, MemoryAction
  <2>3. Len(s) = 3
    BY <1>7, <1>11 DEF Extra
  <2>4. Len(s) + 1 + ByAction(inst, 1, 1, 3) + 1 = CyclesOf(inst, "program", TRUE, FALSE)
    BY ONLY <2>2, <2>3
  <2>5. Len(s) <= 3
    BY <2>3
  <2>6. Fresh(inst, "program", s \o << OffsetOptFix(offset) >> \o t)
    BY <1>7, <1>9, <2>1, <2>4, <2>5, OffsetFresh DEF t, Plain
  <2>7. QED
    BY <1>3, <1>11, <2>6
<1>12. QED
  BY <1>10, <1>11

-----------------------------------------------------------------------------
(* The other instructions.                                                 *)

LEMMA ImpliedFresh ==
    ASSUME NEW inst, Plain(inst, "Implied") PROVE Fresh(inst, "program", EmitImplied)
<1> DEFINE a == ReadOp("Pc", "None", FALSE)
<1>1. a \in Inert /\ AdvanceOf[a] = 0 /\ WritesOf[a] = 0
  BY InertReads DEF Targets, Latch
<1>2. EmitImplied = << a >>
  BY DEF EmitImplied
<1> HIDE DEF a
<1> DEFINE s == << a >>
<1>3. s \in Seq(Inert) /\ Len(s) = 1 /\ From(AdvanceOf, s, 1) = 0 /\ From(WritesOf, s, 1) = 0
  BY <1>1, OneOp
<1> HIDE DEF s
<1>4. Size(s) = 1 /\ Size(s) \in 1..6 /\ Size(s) + 1 = CyclesOf(inst, "program", FALSE, FALSE)
  <2>1. Size(s) = 1
    BY <1>3 DEF Size
  <2>2. CyclesOf(inst, "program", FALSE, FALSE) = 2
    BY DEF Plain, Kind, CyclesOf
  <2>3. /\ 1 \in 1..6 /\ 2 \in 1..6 /\ 5 \in 1..6
        /\ 1 + 1 = 2 /\ 2 + 1 = 3 /\ 5 + 1 = 6
    OBVIOUS
  <2>4. QED
    BY ONLY <2>1, <2>2, <2>3, Zenon
<1>5. /\ BytesPushed(inst) = 0 /\ From(WritesOf, s, 1) = WriteCycles(inst)
      /\ From(AdvanceOf, s, 1) = PlannedAdvance(inst, "program") - 1
  BY <1>3, ModeTable DEF Plain
<1>6. QED
  BY <1>2, <1>3, <1>4, <1>5, ShortFresh DEF s

LEMMA ImmediateFresh ==
    ASSUME NEW inst, Plain(inst, "Immediate") PROVE Fresh(inst, "program", EmitImmediate)
<1> DEFINE a == ReadOp("Pc", "Op0", TRUE)
<1>1. a \in Inert /\ AdvanceOf[a] = 1 /\ WritesOf[a] = 0
  BY InertReads DEF Targets, Latch
<1>2. EmitImmediate = << a >>
  BY DEF EmitImmediate
<1> HIDE DEF a
<1> DEFINE s == << a >>
<1>3. s \in Seq(Inert) /\ Len(s) = 1 /\ From(AdvanceOf, s, 1) = 1 /\ From(WritesOf, s, 1) = 0
  BY <1>1, OneOp
<1> HIDE DEF s
<1>4. Size(s) = 1 /\ Size(s) \in 1..6 /\ Size(s) + 1 = CyclesOf(inst, "program", FALSE, FALSE)
  <2>1. Size(s) = 1
    BY <1>3 DEF Size
  <2>2. CyclesOf(inst, "program", FALSE, FALSE) = 2
    BY DEF Plain, Kind, CyclesOf
  <2>3. /\ 1 \in 1..6 /\ 2 \in 1..6 /\ 5 \in 1..6
        /\ 1 + 1 = 2 /\ 2 + 1 = 3 /\ 5 + 1 = 6
    OBVIOUS
  <2>4. QED
    BY ONLY <2>1, <2>2, <2>3, Zenon
<1>5. /\ BytesPushed(inst) = 0 /\ From(WritesOf, s, 1) = WriteCycles(inst)
      /\ From(AdvanceOf, s, 1) = PlannedAdvance(inst, "program") - 1
  BY <1>3, ModeTable DEF Plain
<1>6. QED
  BY <1>2, <1>3, <1>4, <1>5, ShortFresh DEF s

LEMMA JmpAbsoluteFresh ==
    ASSUME NEW inst, Plain(inst, "JmpAbsolute") PROVE Fresh(inst, "program", EmitJmpAbs)
<1> DEFINE a == ReadOp("Pc", "EaLo", TRUE)
           b == ReadPcThen(TRUE, "EaHi", "SwapEaPc")
<1>1. /\ a \in Inert /\ AdvanceOf[a] = 1 /\ WritesOf[a] = 0
      /\ b \in Inert /\ AdvanceOf[b] = 1 /\ WritesOf[b] = 0
  BY InertReads, InertOps, OpWeights DEF Targets, Latch
<1>2. EmitJmpAbs = << a, b >>
  BY DEF EmitJmpAbs
<1> HIDE DEF a, b
<1> DEFINE s == << a, b >>
<1>3. s \in Seq(Inert) /\ Len(s) = 2 /\ From(AdvanceOf, s, 1) = 2 /\ From(WritesOf, s, 1) = 0
  BY <1>1, TwoOps
<1> HIDE DEF s
<1>4. Size(s) = 2 /\ Size(s) \in 1..6 /\ Size(s) + 1 = CyclesOf(inst, "program", FALSE, FALSE)
  <2>1. Size(s) = 2
    BY <1>3 DEF Size
  <2>2. CyclesOf(inst, "program", FALSE, FALSE) = 3
    BY DEF Plain, Kind, CyclesOf
  <2>3. /\ 1 \in 1..6 /\ 2 \in 1..6 /\ 5 \in 1..6
        /\ 1 + 1 = 2 /\ 2 + 1 = 3 /\ 5 + 1 = 6
    OBVIOUS
  <2>4. QED
    BY ONLY <2>1, <2>2, <2>3, Zenon
<1>5. /\ BytesPushed(inst) = 0 /\ From(WritesOf, s, 1) = WriteCycles(inst)
      /\ From(AdvanceOf, s, 1) = PlannedAdvance(inst, "program") - 1
  BY <1>3, ModeTable DEF Plain
<1>6. QED
  BY <1>2, <1>3, <1>4, <1>5, ShortFresh DEF s

LEMMA JmpAbsoluteXFresh ==
    ASSUME NEW inst, Plain(inst, "JmpAbsoluteX") PROVE Fresh(inst, "program", EmitJmpAbsX)
<1> DEFINE a == ReadOp("Pc", "EaLo", TRUE)
           b == ReadOp("Pc", "EaHi", FALSE)
           c == ReadPcThen(FALSE, "None", "SpecialAddOffset")
           d == ReadOp("Ea", "PcLo", TRUE)
           e == ReadOp("Ea", "PcHi", FALSE)
<1>1. /\ a \in Inert /\ AdvanceOf[a] = 1 /\ WritesOf[a] = 0
      /\ b \in Inert /\ AdvanceOf[b] = 0 /\ WritesOf[b] = 0
      /\ d \in Inert /\ AdvanceOf[d] = 0 /\ WritesOf[d] = 0
      /\ e \in Inert /\ AdvanceOf[e] = 0 /\ WritesOf[e] = 0
  BY InertReads DEF Targets, Latch
<1>2. c \in Inert /\ AdvanceOf[c] = 0 /\ WritesOf[c] = 0
  BY InertOps, OpWeights DEF Targets, Latch
<1>3. EmitJmpAbsX = << a, b, c, d, e >>
  BY DEF EmitJmpAbsX
<1> HIDE DEF a, b, c, d, e
<1> DEFINE s == << a, b, c, d, e >>
<1>4. s \in Seq(Inert) /\ Len(s) = 5
  BY <1>1, <1>2, Tuples
<1>5. From(AdvanceOf, s, 1) = 1 /\ From(WritesOf, s, 1) = 0
  <2>1. a \in MicroOp /\ b \in MicroOp /\ c \in MicroOp /\ d \in MicroOp /\ e \in MicroOp
    BY <1>1, <1>2 DEF Inert
  <2>2. /\ From(AdvanceOf, s, 1) = AdvanceOf[a] + AdvanceOf[b] + AdvanceOf[c] + AdvanceOf[d]
                                   + AdvanceOf[e]
        /\ From(WritesOf, s, 1) = WritesOf[a] + WritesOf[b] + WritesOf[c] + WritesOf[d]
                                  + WritesOf[e]
    BY <2>1, FiveOps, WeightFacts, SMTT(20)
  <2> HIDE DEF s
  <2>3. From(AdvanceOf, s, 1) = 1 + 0 + 0 + 0 + 0
    BY ONLY <1>1, <1>2, <2>2, Zenon
  <2>4. From(WritesOf, s, 1) = 0 + 0 + 0 + 0 + 0
    BY ONLY <1>1, <1>2, <2>2, Zenon
  <2>5. QED
    BY ONLY <2>3, <2>4
<1> HIDE DEF s
<1>6. Size(s) = 5 /\ Size(s) \in 1..6 /\ Size(s) + 1 = CyclesOf(inst, "program", FALSE, FALSE)
  <2>1. Size(s) = 5
    BY <1>4 DEF Size
  <2>2. CyclesOf(inst, "program", FALSE, FALSE) = 6
    BY DEF Plain, Kind, CyclesOf
  <2>3. /\ 1 \in 1..6 /\ 2 \in 1..6 /\ 5 \in 1..6
        /\ 1 + 1 = 2 /\ 2 + 1 = 3 /\ 5 + 1 = 6
    OBVIOUS
  <2>4. QED
    BY ONLY <2>1, <2>2, <2>3, Zenon
<1>7. /\ BytesPushed(inst) = 0 /\ From(WritesOf, s, 1) = WriteCycles(inst)
      /\ From(AdvanceOf, s, 1) = PlannedAdvance(inst, "program") - 1
  BY <1>5, ModeTable DEF Plain
<1>8. QED
  BY <1>3, <1>4, <1>6, <1>7, ShortFresh DEF s

-----------------------------------------------------------------------------
(* Instructions that use the stack or a vector, and branches.              *)

\* Ops that may occur anywhere in an instruction of this kind
Proper(inst, source) ==
    {op \in MicroOp :
        /\ Belongs(inst, source, op)
        /\ op.alu.op # "OffsetWithExtraCycle"
        /\ ~PushesLatch(op)
        /\ ~(op.local_latch = "Status" /\ op.bus.read)}

LEMMA ProperPlace ==
    ASSUME NEW inst, NEW source, NEW s, NEW i, s[i] \in Proper(inst, source)
    PROVE  /\ s[i] \in MicroOp /\ InPlace(inst, source, s, i)
           /\ s[i].alu.op # "OffsetWithExtraCycle"
BY DEF Proper, InPlace

LEMMA InertProper == ASSUME NEW inst, NEW source, NEW op \in Inert PROVE op \in Proper(inst, source)
<1>1. MovedOf[op] = 0
  BY DEF Inert
<1>2. Belongs(inst, source, op)
  BY <1>1 DEF Inert, Belongs, VectorAddresses
<1>3. QED
  BY <1>2 DEF Inert, Proper, PushesLatch

\* Ops that move SP, in an instruction that moves it in that direction
LEMMA PullProper ==
    ASSUME NEW inst, NEW source, ~(BytesPushed(inst) >= 0), NEW dest \in Targets
    PROVE  ReadOp("Sp", dest, TRUE) \in Proper(inst, source)
<1> DEFINE op == ReadOp("Sp", dest, TRUE)
<1>1. Shape(op, "Sp", TRUE, TRUE, dest, "None")
  BY Shapes DEF Targets, Latch
<1>2. MovedOf[op] = 1
  BY OpWeights DEF Targets, Latch
<1> HIDE DEF op
<1>3. Belongs(inst, source, op)
  BY <1>1, <1>2 DEF Shape, Belongs, Targets, Latch
<1>4. QED
  BY <1>1, <1>3 DEF op, Shape, Proper, PushesLatch, Targets

LEMMA PushBelongs ==
    ASSUME NEW inst, NEW source, BytesPushed(inst) \in {1, 2, 3}
    PROVE  /\ AluPush \in Proper(inst, source)
           /\ \A src \in {"PcHi", "PcLo"} : Belongs(inst, source, PushOp(src))
           /\ source = "program" => Belongs(inst, source, PushOp("BrkStatus"))
           /\ source \in {"irq", "nmi"} => Belongs(inst, source, PushOp("Status"))
           /\ \A src \in {"PcHi", "PcLo", "Status", "BrkStatus"} :
                 /\ PushOp(src) \in MicroOp /\ PushOp(src).alu.op = "DecSp"
                 /\ PushOp(src).local_latch = src /\ ~PushOp(src).bus.read
<1>1. ~(BytesPushed(inst) <= 0)
  OBVIOUS
<1>2. Shape(AluPush, "Sp", FALSE, FALSE, "None", "DecSp") /\ MovedOf[AluPush] = -1
  BY Shapes, OpWeights
<1>3. AluPush \in Proper(inst, source)
  BY <1>1, <1>2 DEF Shape, Proper, PushesLatch, Belongs
<1>4. ASSUME NEW src \in {"PcHi", "PcLo", "Status", "BrkStatus"}
      PROVE  Shape(PushOp(src), "Sp", FALSE, FALSE, src, "DecSp") /\ MovedOf[PushOp(src)] = -1
  BY Shapes, OpWeights DEF Latch
<1>5. ASSUME NEW src \in {"PcHi", "PcLo", "Status", "BrkStatus"},
             src = "BrkStatus" => source = "program",
             src = "Status" => source \in {"irq", "nmi"}
      PROVE  Belongs(inst, source, PushOp(src))
  <2> DEFINE op == PushOp(src)
  <2>1. /\ op.bus.addr = "Sp" /\ op.bus.read = FALSE /\ op.local_latch = src
        /\ op.alu.op = "DecSp"
    BY <1>4 DEF Shape
  <2>2. MovedOf[op] <= 0
    BY <1>4
  <2> HIDE DEF op
  <2>3. Belongs(inst, source, op)
    BY ONLY <1>1, <1>5, <2>1, <2>2 DEF Belongs
  <2>4. QED
    BY <2>3 DEF op
<1>6. QED
  BY <1>3, <1>4, <1>5 DEF Shape

\* The vector an entry reads
LEMMA VectorProper ==
    ASSUME NEW inst, NEW source, NEW dest \in {"PcLo", "PcHi"}
    PROVE  /\ source = "nmi" => \A v \in {"FFFA", "FFFB"} :
                                    ReadOp(v, dest, FALSE) \in Proper(inst, source)
           /\ source # "nmi" => \A v \in {"FFFE", "FFFF"} :
                                    ReadOp(v, dest, FALSE) \in Proper(inst, source)
<1>1. ASSUME NEW v \in {"FFFA", "FFFB", "FFFE", "FFFF"}
      PROVE  Shape(ReadOp(v, dest, FALSE), v, TRUE, FALSE, dest, "None")
             /\ MovedOf[ReadOp(v, dest, FALSE)] = 0
  BY Shapes, OpWeights DEF Latch, VectorAddresses
<1>2. ASSUME NEW v \in {"FFFA", "FFFB", "FFFE", "FFFF"},
             v \in {"FFFA", "FFFB"} <=> source = "nmi"
      PROVE  ReadOp(v, dest, FALSE) \in Proper(inst, source)
  <2> DEFINE op == ReadOp(v, dest, FALSE)
  <2>1. /\ op \in MicroOp /\ op.bus.addr = v /\ op.bus.read = TRUE /\ op.local_latch = dest
        /\ op.alu.op = "None" /\ MovedOf[op] = 0
    BY <1>1 DEF Shape
  <2> HIDE DEF op
  <2>2. Belongs(inst, source, op)
    BY <1>2, <2>1 DEF Belongs
  <2>3. op \in Proper(inst, source)
    BY <2>1, <2>2 DEF Proper, PushesLatch
  <2>4. QED
    BY <2>3 DEF op
<1>3. QED
  BY <1>2

\* The weights of a queue of three to six ops
LEMMA Weights3 ==
    ASSUME NEW a \in MicroOp,
           NEW b \in MicroOp,
           NEW c \in MicroOp
    PROVE  /\ From(AdvanceOf, << a, b, c >>, 1) =
                 AdvanceOf[a] + AdvanceOf[b] + AdvanceOf[c]
           /\ From(MovedOf, << a, b, c >>, 1) =
                 MovedOf[a] + MovedOf[b] + MovedOf[c]
           /\ From(WritesOf, << a, b, c >>, 1) =
                 WritesOf[a] + WritesOf[b] + WritesOf[c]
<1>1. From(AdvanceOf, << a, b, c >>, 1) =
        AdvanceOf[a] + AdvanceOf[b] + AdvanceOf[c]
  <2>1. AdvanceOf \in [MicroOp -> Int]
    BY WeightFacts
  <2>2. QED
    BY <2>1, FromTuple
<1>2. From(MovedOf, << a, b, c >>, 1) =
        MovedOf[a] + MovedOf[b] + MovedOf[c]
  <2>1. MovedOf \in [MicroOp -> Int]
    BY WeightFacts
  <2>2. QED
    BY <2>1, FromTuple
<1>3. From(WritesOf, << a, b, c >>, 1) =
        WritesOf[a] + WritesOf[b] + WritesOf[c]
  <2>1. WritesOf \in [MicroOp -> Int]
    BY WeightFacts
  <2>2. QED
    BY <2>1, FromTuple
<1>4. QED
  BY <1>1, <1>2, <1>3

LEMMA Weights4 ==
    ASSUME NEW a \in MicroOp,
           NEW b \in MicroOp,
           NEW c \in MicroOp,
           NEW d \in MicroOp
    PROVE  /\ From(AdvanceOf, << a, b, c, d >>, 1) =
                 AdvanceOf[a] + AdvanceOf[b] + AdvanceOf[c] + AdvanceOf[d]
           /\ From(MovedOf, << a, b, c, d >>, 1) =
                 MovedOf[a] + MovedOf[b] + MovedOf[c] + MovedOf[d]
           /\ From(WritesOf, << a, b, c, d >>, 1) =
                 WritesOf[a] + WritesOf[b] + WritesOf[c] + WritesOf[d]
<1>1. From(AdvanceOf, << a, b, c, d >>, 1) =
        AdvanceOf[a] + AdvanceOf[b] + AdvanceOf[c] + AdvanceOf[d]
  <2>1. AdvanceOf \in [MicroOp -> Int]
    BY WeightFacts
  <2>2. QED
    BY <2>1, FromTuple
<1>2. From(MovedOf, << a, b, c, d >>, 1) =
        MovedOf[a] + MovedOf[b] + MovedOf[c] + MovedOf[d]
  <2>1. MovedOf \in [MicroOp -> Int]
    BY WeightFacts
  <2>2. QED
    BY <2>1, FromTuple
<1>3. From(WritesOf, << a, b, c, d >>, 1) =
        WritesOf[a] + WritesOf[b] + WritesOf[c] + WritesOf[d]
  <2>1. WritesOf \in [MicroOp -> Int]
    BY WeightFacts
  <2>2. QED
    BY <2>1, FromTuple
<1>4. QED
  BY <1>1, <1>2, <1>3

LEMMA Weights5 ==
    ASSUME NEW a \in MicroOp,
           NEW b \in MicroOp,
           NEW c \in MicroOp,
           NEW d \in MicroOp,
           NEW e \in MicroOp
    PROVE  /\ From(AdvanceOf, << a, b, c, d, e >>, 1) =
                 AdvanceOf[a] + AdvanceOf[b] + AdvanceOf[c] + AdvanceOf[d] + AdvanceOf[e]
           /\ From(MovedOf, << a, b, c, d, e >>, 1) =
                 MovedOf[a] + MovedOf[b] + MovedOf[c] + MovedOf[d] + MovedOf[e]
           /\ From(WritesOf, << a, b, c, d, e >>, 1) =
                 WritesOf[a] + WritesOf[b] + WritesOf[c] + WritesOf[d] + WritesOf[e]
<1>1. From(AdvanceOf, << a, b, c, d, e >>, 1) =
        AdvanceOf[a] + AdvanceOf[b] + AdvanceOf[c] + AdvanceOf[d] + AdvanceOf[e]
  <2>1. AdvanceOf \in [MicroOp -> Int]
    BY WeightFacts
  <2>2. QED
    BY <2>1, FromTuple
<1>2. From(MovedOf, << a, b, c, d, e >>, 1) =
        MovedOf[a] + MovedOf[b] + MovedOf[c] + MovedOf[d] + MovedOf[e]
  <2>1. MovedOf \in [MicroOp -> Int]
    BY WeightFacts
  <2>2. QED
    BY <2>1, FromTuple
<1>3. From(WritesOf, << a, b, c, d, e >>, 1) =
        WritesOf[a] + WritesOf[b] + WritesOf[c] + WritesOf[d] + WritesOf[e]
  <2>1. WritesOf \in [MicroOp -> Int]
    BY WeightFacts
  <2>2. QED
    BY <2>1, FromTuple
<1>4. QED
  BY <1>1, <1>2, <1>3

LEMMA Weights6 ==
    ASSUME NEW a \in MicroOp,
           NEW b \in MicroOp,
           NEW c \in MicroOp,
           NEW d \in MicroOp,
           NEW e \in MicroOp,
           NEW f \in MicroOp
    PROVE  /\ From(AdvanceOf, << a, b, c, d, e, f >>, 1) =
                 AdvanceOf[a] + AdvanceOf[b] + AdvanceOf[c] + AdvanceOf[d] + AdvanceOf[e] + AdvanceOf[f]
           /\ From(MovedOf, << a, b, c, d, e, f >>, 1) =
                 MovedOf[a] + MovedOf[b] + MovedOf[c] + MovedOf[d] + MovedOf[e] + MovedOf[f]
           /\ From(WritesOf, << a, b, c, d, e, f >>, 1) =
                 WritesOf[a] + WritesOf[b] + WritesOf[c] + WritesOf[d] + WritesOf[e] + WritesOf[f]
<1>1. From(AdvanceOf, << a, b, c, d, e, f >>, 1) =
        AdvanceOf[a] + AdvanceOf[b] + AdvanceOf[c] + AdvanceOf[d] + AdvanceOf[e] + AdvanceOf[f]
  <2>1. AdvanceOf \in [MicroOp -> Int]
    BY WeightFacts
  <2>2. QED
    BY <2>1, FromTuple
<1>2. From(MovedOf, << a, b, c, d, e, f >>, 1) =
        MovedOf[a] + MovedOf[b] + MovedOf[c] + MovedOf[d] + MovedOf[e] + MovedOf[f]
  <2>1. MovedOf \in [MicroOp -> Int]
    BY WeightFacts
  <2>2. QED
    BY <2>1, FromTuple
<1>3. From(WritesOf, << a, b, c, d, e, f >>, 1) =
        WritesOf[a] + WritesOf[b] + WritesOf[c] + WritesOf[d] + WritesOf[e] + WritesOf[f]
  <2>1. WritesOf \in [MicroOp -> Int]
    BY WeightFacts
  <2>2. QED
    BY <2>1, FromTuple
<1>4. QED
  BY <1>1, <1>2, <1>3

\* The weight of the end of a queue
LEMMA TailWeights ==
    ASSUME NEW w \in [MicroOp -> Int], NEW a \in MicroOp, NEW b \in MicroOp, NEW c \in MicroOp,
           NEW d \in MicroOp, NEW e \in MicroOp, NEW f \in MicroOp
    PROVE  /\ From(w, << a, b, c, d, e, f >>, 2) = w[b] + w[c] + w[d] + w[e] + w[f]
           /\ From(w, << a, b, c, d, e, f >>, 3) = w[c] + w[d] + w[e] + w[f]
           /\ From(w, << a, b, c, d, e, f >>, 4) = w[d] + w[e] + w[f]
<1>1. w[b] \in Int /\ w[c] \in Int /\ w[d] \in Int /\ w[e] \in Int /\ w[f] \in Int
  OBVIOUS
<1>2. /\ From(w, << a, b, c, d, e, f >>, 2) = w[b] + w[c] + w[d] + w[e] + w[f]
      /\ From(w, << a, b, c, d, e, f >>, 3) = w[c] + w[d] + w[e] + w[f]
      /\ From(w, << a, b, c, d, e, f >>, 4) = w[d] + w[e] + w[f]
  BY <1>1 DEF From, At
<1>3. QED
  BY <1>2

LEMMA JsrTail ==
    ASSUME NEW a \in MicroOp, NEW b \in MicroOp, NEW c \in MicroOp, NEW d \in MicroOp,
           NEW e \in MicroOp
    PROVE  /\ From(AdvanceOf, << a, b, c, d, e >>, 3) = AdvanceOf[c] + AdvanceOf[d] + AdvanceOf[e]
           /\ From(AdvanceOf, << a, b, c, d, e >>, 4) = AdvanceOf[d] + AdvanceOf[e]
           /\ From(MovedOf, << a, b, c, d, e >>, 3) = MovedOf[c] + MovedOf[d] + MovedOf[e]
           /\ From(MovedOf, << a, b, c, d, e >>, 4) = MovedOf[d] + MovedOf[e]
<1>1. ASSUME NEW w \in [MicroOp -> Int]
      PROVE  /\ From(w, << a, b, c, d, e >>, 3) = w[c] + w[d] + w[e]
             /\ From(w, << a, b, c, d, e >>, 4) = w[d] + w[e]
  <2>1. w[c] \in Int /\ w[d] \in Int /\ w[e] \in Int
    OBVIOUS
  <2>2. QED
    BY <2>1 DEF From, At
<1>2. QED
  BY <1>1, WeightFacts

\* Emitters that push in parts
LEMMA Joined ==
    ASSUME NEW S, NEW a \in S, NEW b \in S, NEW c \in S, NEW d \in S, NEW e \in S
    PROVE  /\ (<< a, b, c >> \o << >>) \o << d >> = << a, b, c, d >>
           /\ (<< a, b, c >> \o << d >>) \o << e >> = << a, b, c, d, e >>
<1> DEFINE s == << a, b, c >>
           q == << a, b, c, d >>
           r == << a, b, c, d, e >>
<1>1. /\ s \in Seq(S) /\ Len(s) = 3 /\ q \in Seq(S) /\ Len(q) = 4 /\ r \in Seq(S) /\ Len(r) = 5
      /\ q[1] = s[1] /\ q[2] = s[2] /\ q[3] = s[3] /\ q[4] = d
      /\ r[1] = q[1] /\ r[2] = q[2] /\ r[3] = q[3] /\ r[4] = q[4] /\ r[5] = e
  OBVIOUS
<1> HIDE DEF s, q, r
<1>2. ASSUME NEW t \in Seq(S), NEW u \in Seq(S), NEW x \in S, Len(u) = Len(t) + 1,
             \A i \in 1..Len(t) : u[i] = t[i], u[Len(t) + 1] = x
      PROVE  t \o << x >> = u
  <2>1. /\ Append(t, x) \in Seq(S) /\ Len(Append(t, x)) = Len(t) + 1
        /\ \A i \in 1..Len(t) : Append(t, x)[i] = t[i]
        /\ Append(t, x)[Len(t) + 1] = x
    BY AppendProperties
  <2>2. Len(t) \in Nat
    BY LenProperties
  <2>3. \A i \in 1..Len(u) : u[i] = Append(t, x)[i]
    BY <1>2, <2>1, <2>2
  <2>4. u = Append(t, x)
    BY <1>2, <2>1, <2>3, SeqEqual
  <2>5. QED
    BY <2>4, AppendIsConcat
<1>3. s \o << d >> = q /\ q \o << e >> = r
  <2>0. s \in Seq(S) /\ q \in Seq(S) /\ r \in Seq(S)
    BY <1>1
  <2>1. \A i \in 1..Len(s) : q[i] = s[i]
    BY <1>1
  <2>2. \A i \in 1..Len(q) : r[i] = q[i]
    BY <1>1
  <2>3. s \o << d >> = q
    <3>1. Len(q) = Len(s) + 1 /\ q[Len(s) + 1] = d
      BY <1>1
    <3>2. QED
      BY ONLY <1>2, <2>0, <2>1, <3>1, d \in S
  <2>4. q \o << e >> = r
    <3>1. Len(r) = Len(q) + 1 /\ r[Len(q) + 1] = e
      BY <1>1
    <3>2. QED
      BY ONLY <1>2, <2>0, <2>2, <3>1, e \in S
  <2>5. QED
    BY <2>3, <2>4
<1>4. s \o << >> = s
  BY <1>1, ConcatEmptySeq
<1>5. QED
  BY <1>3, <1>4 DEF s, q, r

\* A queue without a page crossing is what its instruction needs, if it is in order, has
\* the weights and the length of the instruction.
LEMMA QueueFresh ==
    ASSUME NEW inst, NEW source, Kind(inst) # "Jam", inst.address_mode.cycles # 1,
           NEW s, s \in Seq(MicroOp), Size(s) \in 1..6,
           \A i \in 1..Len(s) : InPlace(inst, source, s, i) /\ s[i].alu.op # "OffsetWithExtraCycle",
           From(AdvanceOf, s, 1) = PlannedAdvance(inst, source) - FetchCycle(source),
           From(MovedOf, s, 1) = -BytesPushed(inst),
           From(WritesOf, s, 1) = WriteCycles(inst),
           Size(s) + FetchCycle(source) = CyclesOf(inst, source, FALSE, FALSE)
    PROVE  Fresh(inst, source, s)
<1>1. Size(s) <= 7 /\ Size(s) # 0
  OBVIOUS
<1>2. Len(s) <= 7 /\ Len(s) + FetchCycle(source) = CyclesOf(inst, source, FALSE, FALSE)
  BY <1>1 DEF Size
<1>3. s # << >>
  BY <1>1, EmptySeq DEF Size
<1>4. Pending(s, "OffsetWithExtraCycle") = FALSE
  BY DEF Pending
<1>5. AllInPlace(inst, source, s)
  BY DEF AllInPlace
<1>6. QED
  BY <1>2, <1>3, <1>4, <1>5 DEF Fresh

LEMMA StackFresh ==
    ASSUME NEW inst, Plain(inst, "Stack"), inst.memory_action # "ReadModifyWrite"
    PROVE  Fresh(inst, "program", EmitStack(inst.memory_action))
<1> DEFINE a == ReadOp("Pc", "None", FALSE)
           b == ReadOp("Sp", "None", TRUE)
           c == ReadOp("Sp", "Op0", FALSE)
<1>1. /\ a \in Inert /\ AdvanceOf[a] = 0 /\ MovedOf[a] = 0 /\ WritesOf[a] = 0
      /\ c \in Inert /\ AdvanceOf[c] = 0 /\ MovedOf[c] = 0 /\ WritesOf[c] = 0
      /\ AdvanceOf[b] = 0 /\ MovedOf[b] = 1 /\ WritesOf[b] = 0
      /\ AdvanceOf[AluPush] = 0 /\ MovedOf[AluPush] = -1 /\ WritesOf[AluPush] = 1
  BY InertOps, OpWeights DEF Targets, Latch
<1>2. /\ BytesPushed(inst) = ByAction(inst, -1, 1, 0)
      /\ WriteCycles(inst) = ByAction(inst, 0, 1, 0)
      /\ PlannedAdvance(inst, "program") = 1
  BY ModeTable DEF Plain
<1>3. FetchCycle("program") = 1 /\ Kind(inst) # "Jam" /\ inst.address_mode.cycles # 1
  BY DEF FetchCycle, Plain
<1>4. /\ 1 + 1 = 2 /\ 2 + 1 = 3 /\ 3 + 1 = 4 /\ 2 \in 1..6 /\ 3 \in 1..6
  OBVIOUS
<1>5. CASE inst.memory_action = "Read"
  <2> DEFINE s == << a, b, c >>
  <2>1. BytesPushed(inst) = -1 /\ WriteCycles(inst) = 0
        /\ CyclesOf(inst, "program", FALSE, FALSE) = 4
    BY <1>2, <1>5 DEF ByAction, Plain, Kind, CyclesOf
  <2>2. b \in Proper(inst, "program")
    <3>1. ~(BytesPushed(inst) >= 0) /\ "None" \in Targets
      BY <2>1 DEF Targets, Latch
    <3>2. QED
      BY <3>1, PullProper
  <2>3. EmitStack(inst.memory_action) = s
    BY <1>5 DEF EmitStack
  <2> HIDE DEF a, b, c
  <2>4. a \in MicroOp /\ b \in MicroOp /\ c \in MicroOp
    BY <1>1, <2>2 DEF Inert, Proper
  <2>5. s \in Seq(MicroOp) /\ Len(s) = 3 /\ s[1] = a /\ s[2] = b /\ s[3] = c
    BY <2>4
  <2>6. /\ From(AdvanceOf, s, 1) = AdvanceOf[a] + AdvanceOf[b] + AdvanceOf[c]
        /\ From(MovedOf, s, 1) = MovedOf[a] + MovedOf[b] + MovedOf[c]
        /\ From(WritesOf, s, 1) = WritesOf[a] + WritesOf[b] + WritesOf[c]
    BY <2>4, Weights3
  <2> HIDE DEF s
  <2>7. ASSUME NEW i \in 1..Len(s)
        PROVE  InPlace(inst, "program", s, i) /\ s[i].alu.op # "OffsetWithExtraCycle"
    <3>1. i \in {1, 2, 3}
      BY <2>5
    <3>2. s[i] \in Proper(inst, "program")
      BY <1>1, <2>2, <2>5, <3>1, InertProper
    <3>3. QED
      BY <3>2, ProperPlace
  <2>8. Size(s) = 3
    BY <2>5 DEF Size
  <2>9. Size(s) \in 1..6 /\ Size(s) + FetchCycle("program") = CyclesOf(inst, "program", FALSE, FALSE)
    BY ONLY <1>3, <1>4, <2>1, <2>8, Zenon
  <2>10. /\ From(AdvanceOf, s, 1) = PlannedAdvance(inst, "program") - FetchCycle("program")
         /\ From(MovedOf, s, 1) = -BytesPushed(inst) /\ From(WritesOf, s, 1) = WriteCycles(inst)
    BY ONLY <1>1, <1>2, <1>3, <2>1, <2>6
  <2>11. Fresh(inst, "program", s)
    BY <1>3, <2>5, <2>7, <2>9, <2>10, QueueFresh
  <2>12. QED
    BY <2>3, <2>11
<1>6. CASE inst.memory_action = "Write"
  <2> DEFINE s == << a, AluPush >>
  <2>1. BytesPushed(inst) = 1 /\ WriteCycles(inst) = 1
        /\ CyclesOf(inst, "program", FALSE, FALSE) = 3
    BY <1>2, <1>6 DEF ByAction, Plain, Kind, CyclesOf
  <2>2. AluPush \in Proper(inst, "program")
    BY <2>1, PushBelongs
  <2>3. EmitStack(inst.memory_action) = s
    BY <1>6 DEF EmitStack
  <2> HIDE DEF a, b, c
  <2>4. a \in MicroOp /\ AluPush \in MicroOp
    BY <1>1, <2>2 DEF Inert, Proper
  <2>5. s \in Seq(MicroOp) /\ Len(s) = 2 /\ s[1] = a /\ s[2] = AluPush
    BY <2>4
  <2>6. /\ From(AdvanceOf, s, 1) = AdvanceOf[a] + AdvanceOf[AluPush]
        /\ From(MovedOf, s, 1) = MovedOf[a] + MovedOf[AluPush]
        /\ From(WritesOf, s, 1) = WritesOf[a] + WritesOf[AluPush]
    BY <2>4, FromTuple, WeightFacts
  <2> HIDE DEF s
  <2>7. ASSUME NEW i \in 1..Len(s)
        PROVE  InPlace(inst, "program", s, i) /\ s[i].alu.op # "OffsetWithExtraCycle"
    <3>1. i \in {1, 2}
      BY <2>5
    <3>2. s[i] \in Proper(inst, "program")
      BY <1>1, <2>2, <2>5, <3>1, InertProper
    <3>3. QED
      BY <3>2, ProperPlace
  <2>8. Size(s) = 2
    BY <2>5 DEF Size
  <2>9. Size(s) \in 1..6 /\ Size(s) + FetchCycle("program") = CyclesOf(inst, "program", FALSE, FALSE)
    BY ONLY <1>3, <1>4, <2>1, <2>8, Zenon
  <2>10. /\ From(AdvanceOf, s, 1) = PlannedAdvance(inst, "program") - FetchCycle("program")
         /\ From(MovedOf, s, 1) = -BytesPushed(inst) /\ From(WritesOf, s, 1) = WriteCycles(inst)
    BY ONLY <1>1, <1>2, <1>3, <2>1, <2>6
  <2>11. Fresh(inst, "program", s)
    BY <1>3, <2>5, <2>7, <2>9, <2>10, QueueFresh
  <2>12. QED
    BY <2>3, <2>11
<1>7. QED
  BY <1>5, <1>6 DEF Plain, MemoryAction

LEMMA PushPlace ==
    ASSUME NEW inst, NEW source, BytesPushed(inst) \in {1, 2, 3}, NEW s, NEW i,
           Kind(inst) \in {"Brk", "ToSubroutine"},
           NEW src \in {"PcHi", "PcLo", "Status", "BrkStatus"}, s[i] = PushOp(src),
           src = "BrkStatus" => source = "program", src = "Status" => source \in {"irq", "nmi"},
           From(AdvanceOf, s, i) = 0,
           From(MovedOf, s, i) = Depth(src) - BytesPushed(inst)
    PROVE  InPlace(inst, source, s, i) /\ s[i].alu.op # "OffsetWithExtraCycle"
<1>1. Belongs(inst, source, PushOp(src))
  BY PushBelongs
<1>2. /\ s[i].alu.op = "DecSp" /\ s[i].local_latch = src /\ ~s[i].bus.read
      /\ Belongs(inst, source, s[i])
  BY <1>1, PushBelongs
<1>3. QED
  BY <1>2 DEF InPlace

LEMMA ToSubroutineFresh ==
    ASSUME NEW inst, Plain(inst, "ToSubroutine")
    PROVE  Fresh(inst, "program", EmitJsr)
<1> DEFINE a == ReadOp("Pc", "EaLo", TRUE)
           b == ReadOp("Sp", "None", FALSE)
           c == PushOp("PcHi")
           d == PushOp("PcLo")
           e == ReadPcThen(FALSE, "EaHi", "SwapEaPc")
<1>1. /\ AdvanceOf[a] = 1 /\ MovedOf[a] = 0 /\ WritesOf[a] = 0
      /\ AdvanceOf[b] = 0 /\ MovedOf[b] = 0 /\ WritesOf[b] = 0
      /\ AdvanceOf[c] = 0 /\ MovedOf[c] = -1 /\ WritesOf[c] = 1
      /\ AdvanceOf[d] = 0 /\ MovedOf[d] = -1 /\ WritesOf[d] = 1
      /\ AdvanceOf[e] = 0 /\ MovedOf[e] = 0 /\ WritesOf[e] = 0
  BY OpWeights DEF Latch, Weightless
<1>2. EmitJsr = << a, b, c, d, e >>
  BY DEF EmitJsr
<1>3. /\ BytesPushed(inst) = 2 /\ WriteCycles(inst) = 2
      /\ PlannedAdvance(inst, "program") = 2
  BY ModeTable DEF Plain
<1>4. a \in Inert /\ b \in Inert /\ e \in Inert
  BY InertOps DEF Targets, Latch
<1>5. c \in MicroOp /\ d \in MicroOp
  BY Shapes DEF Shape, Latch
<1>6. /\ c = PushOp("PcHi")
      /\ d = PushOp("PcLo")
  OBVIOUS
<1> HIDE DEF a, b, c, d, e
<1>7. a \in MicroOp /\ b \in MicroOp /\ c \in MicroOp /\ d \in MicroOp /\ e \in MicroOp
  BY <1>4, <1>5 DEF Inert
<1> DEFINE s == << a, b, c, d, e >>
<1>8. s \in Seq(MicroOp) /\ Len(s) = 5 /\ s[1] = a /\ s[2] = b /\ s[3] = c /\ s[4] = d /\ s[5] = e
  BY <1>7
<1>9. /\ From(AdvanceOf, s, 1) = AdvanceOf[a] + AdvanceOf[b] + AdvanceOf[c] + AdvanceOf[d] + AdvanceOf[e]
      /\ From(MovedOf, s, 1) = MovedOf[a] + MovedOf[b] + MovedOf[c] + MovedOf[d] + MovedOf[e]
      /\ From(WritesOf, s, 1) = WritesOf[a] + WritesOf[b] + WritesOf[c] + WritesOf[d] + WritesOf[e]
  BY <1>7, Weights5
<1>10. /\ From(AdvanceOf, s, 3) = AdvanceOf[c] + AdvanceOf[d] + AdvanceOf[e]
      /\ From(AdvanceOf, s, 4) = AdvanceOf[d] + AdvanceOf[e]
      /\ From(MovedOf, s, 3) = MovedOf[c] + MovedOf[d] + MovedOf[e]
      /\ From(MovedOf, s, 4) = MovedOf[d] + MovedOf[e]
  BY <1>7, JsrTail
<1> HIDE DEF s
<1>11. ASSUME NEW i \in 1..Len(s)
      PROVE  InPlace(inst, "program", s, i) /\ s[i].alu.op # "OffsetWithExtraCycle"
  <2>1. i \in {1, 2, 3, 4, 5}
    BY <1>8
  <2>2. CASE i \in {1, 2, 5}
    <3>1. s[i] \in Proper(inst, "program")
      BY <2>2, <1>8, <1>4, InertProper
    <3>2. QED
      BY <3>1, ProperPlace
  <2>3. CASE i = 3
    <3>1. s[i] = PushOp("PcHi")
      BY <2>3, <1>8, <1>6
    <3>2. From(AdvanceOf, s, i) = 0 /\ From(MovedOf, s, i) = Depth("PcHi") - BytesPushed(inst)
      BY ONLY <2>3, <1>1, <1>3, <1>10 DEF Depth
    <3>3. BytesPushed(inst) \in {1, 2, 3} /\ Kind(inst) \in {"Brk", "ToSubroutine"}
      BY <1>3 DEF Plain
    <3>4. QED
      BY <3>1, <3>2, <3>3, PushPlace
  <2>4. CASE i = 4
    <3>1. s[i] = PushOp("PcLo")
      BY <2>4, <1>8, <1>6
    <3>2. From(AdvanceOf, s, i) = 0 /\ From(MovedOf, s, i) = Depth("PcLo") - BytesPushed(inst)
      BY ONLY <2>4, <1>1, <1>3, <1>10 DEF Depth
    <3>3. BytesPushed(inst) \in {1, 2, 3} /\ Kind(inst) \in {"Brk", "ToSubroutine"}
      BY <1>3 DEF Plain
    <3>4. QED
      BY <3>1, <3>2, <3>3, PushPlace
  <2>5. QED
    BY <2>1, <2>2, <2>3, <2>4
<1>12. Size(s) \in 1..6 /\ Size(s) + FetchCycle("program") = CyclesOf(inst, "program", FALSE, FALSE)
  <2>1. Size(s) = 5 /\ FetchCycle("program") = 1
    BY <1>8 DEF Size, FetchCycle
  <2>2. CyclesOf(inst, "program", FALSE, FALSE) = 6
    BY DEF Plain, Kind, CyclesOf, Extra
  <2>3. 5 \in 1..6 /\ 5 + 1 = 6
    OBVIOUS
  <2>4. QED
    BY ONLY <2>1, <2>2, <2>3, Zenon
<1>13. /\ From(AdvanceOf, s, 1) = PlannedAdvance(inst, "program") - FetchCycle("program")
       /\ From(MovedOf, s, 1) = -BytesPushed(inst) /\ From(WritesOf, s, 1) = WriteCycles(inst)
  BY ONLY <1>1, <1>3, <1>9 DEF FetchCycle
<1>14. Kind(inst) # "Jam" /\ inst.address_mode.cycles # 1
  BY DEF Plain
<1>15. Fresh(inst, "program", s)
  BY <1>8, <1>11, <1>12, <1>13, <1>14, QueueFresh
<1>16. QED
  BY <1>2, <1>15 DEF s

LEMMA FromSubroutineFresh ==
    ASSUME NEW inst, Plain(inst, "FromSubroutine")
    PROVE  Fresh(inst, "program", EmitRts)
<1> DEFINE a == DummyRead("Pc")
           b == ReadOp("Sp", "None", TRUE)
           c == ReadOp("Sp", "PcLo", TRUE)
           d == ReadOp("Sp", "PcHi", FALSE)
           e == ReadOp("Pc", "None", TRUE)
<1>1. /\ AdvanceOf[a] = 0 /\ MovedOf[a] = 0 /\ WritesOf[a] = 0
      /\ AdvanceOf[b] = 0 /\ MovedOf[b] = 1 /\ WritesOf[b] = 0
      /\ AdvanceOf[c] = 0 /\ MovedOf[c] = 1 /\ WritesOf[c] = 0
      /\ AdvanceOf[d] = 0 /\ MovedOf[d] = 0 /\ WritesOf[d] = 0
      /\ AdvanceOf[e] = 1 /\ MovedOf[e] = 0 /\ WritesOf[e] = 0
  BY OpWeights DEF Latch, Weightless
<1>2. EmitRts = << a, b, c, d, e >>
  BY DEF EmitRts
<1>3. /\ BytesPushed(inst) = -2 /\ WriteCycles(inst) = 0
      /\ PlannedAdvance(inst, "program") = 2
  BY ModeTable DEF Plain
<1>4. a \in Inert /\ d \in Inert /\ e \in Inert
  BY InertOps DEF Targets, Latch
<1>5. b \in Proper(inst, "program") /\ c \in Proper(inst, "program")
  <2>1. ~(BytesPushed(inst) >= 0)
    BY <1>3
  <2>2. QED
    BY <2>1, PullProper DEF Targets, Latch
<1> HIDE DEF a, b, c, d, e
<1>6. a \in MicroOp /\ b \in MicroOp /\ c \in MicroOp /\ d \in MicroOp /\ e \in MicroOp
  BY <1>4, <1>5 DEF Inert, Proper
<1> DEFINE s == << a, b, c, d, e >>
<1>7. s \in Seq(MicroOp) /\ Len(s) = 5 /\ s[1] = a /\ s[2] = b /\ s[3] = c /\ s[4] = d /\ s[5] = e
  BY <1>6
<1>8. /\ From(AdvanceOf, s, 1) = AdvanceOf[a] + AdvanceOf[b] + AdvanceOf[c] + AdvanceOf[d] + AdvanceOf[e]
      /\ From(MovedOf, s, 1) = MovedOf[a] + MovedOf[b] + MovedOf[c] + MovedOf[d] + MovedOf[e]
      /\ From(WritesOf, s, 1) = WritesOf[a] + WritesOf[b] + WritesOf[c] + WritesOf[d] + WritesOf[e]
  BY <1>6, Weights5
<1> HIDE DEF s
<1>9. ASSUME NEW i \in 1..Len(s)
      PROVE  InPlace(inst, "program", s, i) /\ s[i].alu.op # "OffsetWithExtraCycle"
  <2>1. i \in {1, 2, 3, 4, 5}
    BY <1>7
  <2>2. CASE i \in {1, 2, 3, 4, 5}
    <3>1. s[i] \in Proper(inst, "program")
      BY <2>2, <1>7, <1>4, <1>5, InertProper
    <3>2. QED
      BY <3>1, ProperPlace
  <2>3. QED
    BY <2>1, <2>2
<1>10. Size(s) \in 1..6 /\ Size(s) + FetchCycle("program") = CyclesOf(inst, "program", FALSE, FALSE)
  <2>1. Size(s) = 5 /\ FetchCycle("program") = 1
    BY <1>7 DEF Size, FetchCycle
  <2>2. CyclesOf(inst, "program", FALSE, FALSE) = 6
    BY DEF Plain, Kind, CyclesOf, Extra
  <2>3. 5 \in 1..6 /\ 5 + 1 = 6
    OBVIOUS
  <2>4. QED
    BY ONLY <2>1, <2>2, <2>3, Zenon
<1>11. /\ From(AdvanceOf, s, 1) = PlannedAdvance(inst, "program") - FetchCycle("program")
       /\ From(MovedOf, s, 1) = -BytesPushed(inst) /\ From(WritesOf, s, 1) = WriteCycles(inst)
  BY ONLY <1>1, <1>3, <1>8 DEF FetchCycle
<1>12. Kind(inst) # "Jam" /\ inst.address_mode.cycles # 1
  BY DEF Plain
<1>13. Fresh(inst, "program", s)
  BY <1>7, <1>9, <1>10, <1>11, <1>12, QueueFresh
<1>14. QED
  BY <1>2, <1>13 DEF s

LEMMA FromInterruptFresh ==
    ASSUME NEW inst, Plain(inst, "FromInterrupt")
    PROVE  Fresh(inst, "program", EmitRti)
<1> DEFINE a == ReadOp("Pc", "None", FALSE)
           b == ReadOp("Sp", "None", TRUE)
           c == ReadOp("Sp", "Status", TRUE)
           d == ReadOp("Sp", "PcLo", TRUE)
           e == ReadOp("Sp", "PcHi", FALSE)
<1>1. /\ AdvanceOf[a] = 0 /\ MovedOf[a] = 0 /\ WritesOf[a] = 0
      /\ AdvanceOf[b] = 0 /\ MovedOf[b] = 1 /\ WritesOf[b] = 0
      /\ AdvanceOf[c] = 0 /\ MovedOf[c] = 1 /\ WritesOf[c] = 0
      /\ AdvanceOf[d] = 0 /\ MovedOf[d] = 1 /\ WritesOf[d] = 0
      /\ AdvanceOf[e] = 0 /\ MovedOf[e] = 0 /\ WritesOf[e] = 0
  BY ZenonT(40), OpWeights DEF Latch, Weightless
<1>2. EmitRti = << a, b, c, d, e >>
  BY DEF EmitRti
<1>3. /\ BytesPushed(inst) = -3 /\ WriteCycles(inst) = 0
      /\ PlannedAdvance(inst, "program") = 1
  BY ModeTable DEF Plain
<1>4. a \in Inert /\ e \in Inert
  BY InertOps DEF Targets, Latch
<1>5. b \in Proper(inst, "program") /\ d \in Proper(inst, "program")
  <2>1. ~(BytesPushed(inst) >= 0)
    BY <1>3
  <2>2. QED
    BY <2>1, PullProper DEF Targets, Latch
<1>6. /\ c \in MicroOp /\ Belongs(inst, "program", c)
      /\ c.bus.read = TRUE /\ c.local_latch = "Status" /\ c.alu.op = "None"
  <2>1. Shape(c, "Sp", TRUE, TRUE, "Status", "None")
    BY Shapes DEF Latch
  <2>2. ~(BytesPushed(inst) >= 0)
    BY <1>3
  <2> HIDE DEF c
  <2>3. Belongs(inst, "program", c)
    BY <1>1, <2>1, <2>2 DEF Shape, Belongs, Plain
  <2>4. QED
    BY <2>1, <2>3 DEF Shape
<1> HIDE DEF a, b, c, d, e
<1>7. a \in MicroOp /\ b \in MicroOp /\ c \in MicroOp /\ d \in MicroOp /\ e \in MicroOp
  BY <1>4, <1>5, <1>6 DEF Inert, Proper
<1> DEFINE s == << a, b, c, d, e >>
<1>8. s \in Seq(MicroOp) /\ Len(s) = 5 /\ s[1] = a /\ s[2] = b /\ s[3] = c /\ s[4] = d /\ s[5] = e
  BY <1>7
<1>9. /\ From(AdvanceOf, s, 1) = AdvanceOf[a] + AdvanceOf[b] + AdvanceOf[c] + AdvanceOf[d] + AdvanceOf[e]
      /\ From(MovedOf, s, 1) = MovedOf[a] + MovedOf[b] + MovedOf[c] + MovedOf[d] + MovedOf[e]
      /\ From(WritesOf, s, 1) = WritesOf[a] + WritesOf[b] + WritesOf[c] + WritesOf[d] + WritesOf[e]
  BY <1>7, Weights5
<1> HIDE DEF s
<1>10. ASSUME NEW i \in 1..Len(s)
      PROVE  InPlace(inst, "program", s, i) /\ s[i].alu.op # "OffsetWithExtraCycle"
  <2>1. i \in {1, 2, 3, 4, 5}
    BY <1>8
  <2>2. CASE i \in {1, 2, 4, 5}
    <3>1. s[i] \in Proper(inst, "program")
      BY <2>2, <1>8, <1>4, <1>5, InertProper
    <3>2. QED
      BY <3>1, ProperPlace
  <2>3. CASE i = 3
    <3>1. s[i] = c /\ i < Len(s)
      BY <2>3, <1>8
    <3>2. QED
      BY <3>1, <1>6 DEF InPlace, PushesLatch
  <2>4. QED
    BY <2>1, <2>2, <2>3
<1>11. Size(s) \in 1..6 /\ Size(s) + FetchCycle("program") = CyclesOf(inst, "program", FALSE, FALSE)
  <2>1. Size(s) = 5 /\ FetchCycle("program") = 1
    BY <1>8 DEF Size, FetchCycle
  <2>2. CyclesOf(inst, "program", FALSE, FALSE) = 6
    BY DEF Plain, Kind, CyclesOf, Extra
  <2>3. 5 \in 1..6 /\ 5 + 1 = 6
    OBVIOUS
  <2>4. QED
    BY ONLY <2>1, <2>2, <2>3, Zenon
<1>12. /\ From(AdvanceOf, s, 1) = PlannedAdvance(inst, "program") - FetchCycle("program")
       /\ From(MovedOf, s, 1) = -BytesPushed(inst) /\ From(WritesOf, s, 1) = WriteCycles(inst)
  BY ONLY <1>1, <1>3, <1>9 DEF FetchCycle
<1>13. Kind(inst) # "Jam" /\ inst.address_mode.cycles # 1
  BY DEF Plain
<1>14. Fresh(inst, "program", s)
  BY <1>8, <1>10, <1>11, <1>12, <1>13, QueueFresh
<1>15. QED
  BY <1>2, <1>14 DEF s

LEMMA JmpIndirectNmosFresh ==
    ASSUME NEW inst, Plain(inst, "JmpIndirect"),
           F.Micro # "Micro65C02"
    PROVE  Fresh(inst, "program", EmitJmpInd(F))
<1> DEFINE a == ReadOp("Pc", "PtrLo", TRUE)
           b == ReadOp("Pc", "PtrHi", FALSE)
           c == ReadPtr1("PcLo")
           d == ReadOp("Ptr", "PcHi", FALSE)
<1>1. /\ AdvanceOf[a] = 1 /\ MovedOf[a] = 0 /\ WritesOf[a] = 0
      /\ AdvanceOf[b] = 0 /\ MovedOf[b] = 0 /\ WritesOf[b] = 0
      /\ AdvanceOf[c] = 0 /\ MovedOf[c] = 0 /\ WritesOf[c] = 0
      /\ AdvanceOf[d] = 0 /\ MovedOf[d] = 0 /\ WritesOf[d] = 0
  BY OpWeights DEF Latch, Weightless
<1>2. EmitJmpInd(F) = (<< a, b, c >> \o << >>) \o << d >>
  BY DEF EmitJmpInd
<1>3. /\ BytesPushed(inst) = 0 /\ WriteCycles(inst) = 0
      /\ PlannedAdvance(inst, "program") = 2
  BY ModeTable DEF Plain
<1>4. a \in Inert /\ b \in Inert /\ c \in Inert /\ d \in Inert
  BY InertOps DEF Targets, Latch
<1> HIDE DEF a, b, c, d
<1>5. a \in MicroOp /\ b \in MicroOp /\ c \in MicroOp /\ d \in MicroOp
  BY <1>4 DEF Inert
<1> DEFINE s == << a, b, c, d >>
<1>6. s \in Seq(MicroOp) /\ Len(s) = 4 /\ s[1] = a /\ s[2] = b /\ s[3] = c /\ s[4] = d
  BY <1>5
<1>7. /\ From(AdvanceOf, s, 1) = AdvanceOf[a] + AdvanceOf[b] + AdvanceOf[c] + AdvanceOf[d]
      /\ From(MovedOf, s, 1) = MovedOf[a] + MovedOf[b] + MovedOf[c] + MovedOf[d]
      /\ From(WritesOf, s, 1) = WritesOf[a] + WritesOf[b] + WritesOf[c] + WritesOf[d]
  BY <1>5, Weights4
<1> HIDE DEF s
<1>8. ASSUME NEW i \in 1..Len(s)
      PROVE  InPlace(inst, "program", s, i) /\ s[i].alu.op # "OffsetWithExtraCycle"
  <2>1. i \in {1, 2, 3, 4}
    BY <1>6
  <2>2. CASE i \in {1, 2, 3, 4}
    <3>1. s[i] \in Proper(inst, "program")
      BY <2>2, <1>6, <1>4, InertProper
    <3>2. QED
      BY <3>1, ProperPlace
  <2>3. QED
    BY <2>1, <2>2
<1>9. Size(s) \in 1..6 /\ Size(s) + FetchCycle("program") = CyclesOf(inst, "program", FALSE, FALSE)
  <2>1. Size(s) = 4 /\ FetchCycle("program") = 1
    BY <1>6 DEF Size, FetchCycle
  <2>2. CyclesOf(inst, "program", FALSE, FALSE) = 5
    BY FlavorAssumption DEF Plain, Kind, CyclesOf, Extra
  <2>3. 4 \in 1..6 /\ 4 + 1 = 5
    OBVIOUS
  <2>4. QED
    BY ONLY <2>1, <2>2, <2>3, Zenon
<1>10. /\ From(AdvanceOf, s, 1) = PlannedAdvance(inst, "program") - FetchCycle("program")
       /\ From(MovedOf, s, 1) = -BytesPushed(inst) /\ From(WritesOf, s, 1) = WriteCycles(inst)
  BY ONLY <1>1, <1>3, <1>7 DEF FetchCycle
<1>11. Kind(inst) # "Jam" /\ inst.address_mode.cycles # 1
  BY DEF Plain
<1>12. Fresh(inst, "program", s)
  BY <1>6, <1>8, <1>9, <1>10, <1>11, QueueFresh
<1>13. EmitJmpInd(F) = s
  BY <1>2, <1>5, Joined DEF s
<1>14. QED
  BY <1>12, <1>13

LEMMA JmpIndirectCmosFresh ==
    ASSUME NEW inst, Plain(inst, "JmpIndirect"),
           F.Micro = "Micro65C02"
    PROVE  Fresh(inst, "program", EmitJmpInd(F))
<1> DEFINE a == ReadOp("Pc", "PtrLo", TRUE)
           b == ReadOp("Pc", "PtrHi", FALSE)
           c == ReadPtr1("PcLo")
           d == ReadInvPtr2("PcHi")
           e == ReadOp("Ptr", "PcHi", FALSE)
<1>1. /\ AdvanceOf[a] = 1 /\ MovedOf[a] = 0 /\ WritesOf[a] = 0
      /\ AdvanceOf[b] = 0 /\ MovedOf[b] = 0 /\ WritesOf[b] = 0
      /\ AdvanceOf[c] = 0 /\ MovedOf[c] = 0 /\ WritesOf[c] = 0
      /\ AdvanceOf[d] = 0 /\ MovedOf[d] = 0 /\ WritesOf[d] = 0
      /\ AdvanceOf[e] = 0 /\ MovedOf[e] = 0 /\ WritesOf[e] = 0
  BY OpWeights DEF Latch, Weightless
<1>2. EmitJmpInd(F) = (<< a, b, c >> \o << d >>) \o << e >>
  BY DEF EmitJmpInd
<1>3. /\ BytesPushed(inst) = 0 /\ WriteCycles(inst) = 0
      /\ PlannedAdvance(inst, "program") = 2
  BY ModeTable DEF Plain
<1>4. a \in Inert /\ b \in Inert /\ c \in Inert /\ e \in Inert
  BY InertOps DEF Targets, Latch
<1>5. d \in Proper(inst, "program")
  <2>1. Shape(d, "Ptr", TRUE, FALSE, "PcHi", "FixPtr")
    BY Shapes DEF Latch
  <2> HIDE DEF d
  <2>2. Belongs(inst, "program", d)
    BY <1>1, <2>1 DEF Shape, Belongs, Plain
  <2>3. QED
    BY <2>1, <2>2 DEF Shape, Proper, PushesLatch
<1> HIDE DEF a, b, c, d, e
<1>6. a \in MicroOp /\ b \in MicroOp /\ c \in MicroOp /\ d \in MicroOp /\ e \in MicroOp
  BY <1>4, <1>5 DEF Inert, Proper
<1> DEFINE s == << a, b, c, d, e >>
<1>7. s \in Seq(MicroOp) /\ Len(s) = 5 /\ s[1] = a /\ s[2] = b /\ s[3] = c /\ s[4] = d /\ s[5] = e
  BY <1>6
<1>8. /\ From(AdvanceOf, s, 1) = AdvanceOf[a] + AdvanceOf[b] + AdvanceOf[c] + AdvanceOf[d] + AdvanceOf[e]
      /\ From(MovedOf, s, 1) = MovedOf[a] + MovedOf[b] + MovedOf[c] + MovedOf[d] + MovedOf[e]
      /\ From(WritesOf, s, 1) = WritesOf[a] + WritesOf[b] + WritesOf[c] + WritesOf[d] + WritesOf[e]
  BY <1>6, Weights5
<1> HIDE DEF s
<1>9. ASSUME NEW i \in 1..Len(s)
      PROVE  InPlace(inst, "program", s, i) /\ s[i].alu.op # "OffsetWithExtraCycle"
  <2>1. i \in {1, 2, 3, 4, 5}
    BY <1>7
  <2>2. CASE i \in {1, 2, 3, 4, 5}
    <3>1. s[i] \in Proper(inst, "program")
      BY <2>2, <1>7, <1>4, <1>5, InertProper
    <3>2. QED
      BY <3>1, ProperPlace
  <2>3. QED
    BY <2>1, <2>2
<1>10. Size(s) \in 1..6 /\ Size(s) + FetchCycle("program") = CyclesOf(inst, "program", FALSE, FALSE)
  <2>1. Size(s) = 5 /\ FetchCycle("program") = 1
    BY <1>7 DEF Size, FetchCycle
  <2>2. CyclesOf(inst, "program", FALSE, FALSE) = 6
    BY FlavorAssumption DEF Plain, Kind, CyclesOf, Extra
  <2>3. 5 \in 1..6 /\ 5 + 1 = 6
    OBVIOUS
  <2>4. QED
    BY ONLY <2>1, <2>2, <2>3, Zenon
<1>11. /\ From(AdvanceOf, s, 1) = PlannedAdvance(inst, "program") - FetchCycle("program")
       /\ From(MovedOf, s, 1) = -BytesPushed(inst) /\ From(WritesOf, s, 1) = WriteCycles(inst)
  BY ONLY <1>1, <1>3, <1>8 DEF FetchCycle
<1>12. Kind(inst) # "Jam" /\ inst.address_mode.cycles # 1
  BY DEF Plain
<1>13. Fresh(inst, "program", s)
  BY <1>7, <1>9, <1>10, <1>11, <1>12, QueueFresh
<1>14. EmitJmpInd(F) = s
  <2>1. (<< a, b, c >> \o << d >>) \o << e >> = << a, b, c, d, e >>
    BY <1>6, Joined
  <2>2. QED
    BY <1>2, <2>1 DEF s
<1>15. QED
  BY <1>13, <1>14

LEMMA RelativeFresh ==
    ASSUME NEW inst, Plain(inst, "Relative")
    PROVE  Fresh(inst, "program", EmitBranchRel)
<1> DEFINE a == ReadPcThen(TRUE, "SignedOffset8", "Branch")
<1>1. /\ AdvanceOf[a] = 1 /\ MovedOf[a] = 0 /\ WritesOf[a] = 0
  BY OpWeights DEF Latch, Weightless
<1>2. EmitBranchRel = << a >>
  BY DEF EmitBranchRel
<1>3. /\ BytesPushed(inst) = 0 /\ WriteCycles(inst) = 0
      /\ PlannedAdvance(inst, "program") = 2
  BY ModeTable DEF Plain
<1>4. a \in Proper(inst, "program")
  <2>1. Shape(a, "Pc", TRUE, TRUE, "SignedOffset8", "Branch")
    BY Shapes DEF Latch
  <2> HIDE DEF a
  <2>2. Belongs(inst, "program", a)
    BY <1>1, <2>1 DEF Shape, Belongs, Plain
  <2>3. QED
    BY <2>1, <2>2 DEF Shape, Proper, PushesLatch
<1> HIDE DEF a
<1>5. a \in MicroOp
  BY <1>4 DEF Proper
<1> DEFINE s == << a >>
<1>6. s \in Seq(MicroOp) /\ Len(s) = 1 /\ s[1] = a
  BY <1>5
<1>7. /\ From(AdvanceOf, s, 1) = AdvanceOf[a]
      /\ From(MovedOf, s, 1) = MovedOf[a]
      /\ From(WritesOf, s, 1) = WritesOf[a]
  BY <1>5, FromTuple, WeightFacts
<1> HIDE DEF s
<1>8. ASSUME NEW i \in 1..Len(s)
      PROVE  InPlace(inst, "program", s, i) /\ s[i].alu.op # "OffsetWithExtraCycle"
  <2>1. i \in {1}
    BY <1>6
  <2>2. CASE i \in {1}
    <3>1. s[i] \in Proper(inst, "program")
      BY <2>2, <1>6, <1>4, InertProper
    <3>2. QED
      BY <3>1, ProperPlace
  <2>3. QED
    BY <2>1, <2>2
<1>9. Size(s) \in 1..6 /\ Size(s) + FetchCycle("program") = CyclesOf(inst, "program", FALSE, FALSE)
  <2>1. Size(s) = 1 /\ FetchCycle("program") = 1
    BY <1>6 DEF Size, FetchCycle
  <2>2. CyclesOf(inst, "program", FALSE, FALSE) = 2
    BY DEF Plain, Kind, CyclesOf, Extra
  <2>3. 1 \in 1..6 /\ 1 + 1 = 2
    OBVIOUS
  <2>4. QED
    BY ONLY <2>1, <2>2, <2>3, Zenon
<1>10. /\ From(AdvanceOf, s, 1) = PlannedAdvance(inst, "program") - FetchCycle("program")
       /\ From(MovedOf, s, 1) = -BytesPushed(inst) /\ From(WritesOf, s, 1) = WriteCycles(inst)
  BY ONLY <1>1, <1>3, <1>7 DEF FetchCycle
<1>11. Kind(inst) # "Jam" /\ inst.address_mode.cycles # 1
  BY DEF Plain
<1>12. Fresh(inst, "program", s)
  BY <1>6, <1>8, <1>9, <1>10, <1>11, QueueFresh
<1>13. QED
  BY <1>2, <1>12 DEF s

LEMMA DpRelativeFresh ==
    ASSUME NEW inst, Plain(inst, "DpRelative")
    PROVE  Fresh(inst, "program", EmitBranchDpRel)
<1> DEFINE a == ReadOp("Pc", "EaLo", TRUE)
           b == ReadOp("Ea", "Op0", FALSE)
           c == ReadOp("Ea", "Op0", FALSE)
           d == ReadPcThen(TRUE, "SignedOffset8", "Branch")
<1>1. /\ AdvanceOf[a] = 1 /\ MovedOf[a] = 0 /\ WritesOf[a] = 0
      /\ AdvanceOf[b] = 0 /\ MovedOf[b] = 0 /\ WritesOf[b] = 0
      /\ AdvanceOf[c] = 0 /\ MovedOf[c] = 0 /\ WritesOf[c] = 0
      /\ AdvanceOf[d] = 1 /\ MovedOf[d] = 0 /\ WritesOf[d] = 0
  BY OpWeights DEF Latch, Weightless
<1>2. EmitBranchDpRel = << a, b, c, d >>
  BY DEF EmitBranchDpRel
<1>3. /\ BytesPushed(inst) = 0 /\ WriteCycles(inst) = 0
      /\ PlannedAdvance(inst, "program") = 3
  BY ModeTable DEF Plain
<1>4. a \in Inert /\ b \in Inert /\ c \in Inert
  BY InertOps DEF Targets, Latch
<1>5. d \in Proper(inst, "program")
  <2>1. Shape(d, "Pc", TRUE, TRUE, "SignedOffset8", "Branch")
    BY Shapes DEF Latch
  <2> HIDE DEF d
  <2>2. Belongs(inst, "program", d)
    BY <1>1, <2>1 DEF Shape, Belongs, Plain
  <2>3. QED
    BY <2>1, <2>2 DEF Shape, Proper, PushesLatch
<1> HIDE DEF a, b, c, d
<1>6. a \in MicroOp /\ b \in MicroOp /\ c \in MicroOp /\ d \in MicroOp
  BY <1>4, <1>5 DEF Inert, Proper
<1> DEFINE s == << a, b, c, d >>
<1>7. s \in Seq(MicroOp) /\ Len(s) = 4 /\ s[1] = a /\ s[2] = b /\ s[3] = c /\ s[4] = d
  BY <1>6
<1>8. /\ From(AdvanceOf, s, 1) = AdvanceOf[a] + AdvanceOf[b] + AdvanceOf[c] + AdvanceOf[d]
      /\ From(MovedOf, s, 1) = MovedOf[a] + MovedOf[b] + MovedOf[c] + MovedOf[d]
      /\ From(WritesOf, s, 1) = WritesOf[a] + WritesOf[b] + WritesOf[c] + WritesOf[d]
  BY <1>6, Weights4
<1> HIDE DEF s
<1>9. ASSUME NEW i \in 1..Len(s)
      PROVE  InPlace(inst, "program", s, i) /\ s[i].alu.op # "OffsetWithExtraCycle"
  <2>1. i \in {1, 2, 3, 4}
    BY <1>7
  <2>2. CASE i \in {1, 2, 3, 4}
    <3>1. s[i] \in Proper(inst, "program")
      BY <2>2, <1>7, <1>4, <1>5, InertProper
    <3>2. QED
      BY <3>1, ProperPlace
  <2>3. QED
    BY <2>1, <2>2
<1>10. Size(s) \in 1..6 /\ Size(s) + FetchCycle("program") = CyclesOf(inst, "program", FALSE, FALSE)
  <2>1. Size(s) = 4 /\ FetchCycle("program") = 1
    BY <1>7 DEF Size, FetchCycle
  <2>2. CyclesOf(inst, "program", FALSE, FALSE) = 5
    BY DEF Plain, Kind, CyclesOf, Extra
  <2>3. 4 \in 1..6 /\ 4 + 1 = 5
    OBVIOUS
  <2>4. QED
    BY ONLY <2>1, <2>2, <2>3, Zenon
<1>11. /\ From(AdvanceOf, s, 1) = PlannedAdvance(inst, "program") - FetchCycle("program")
       /\ From(MovedOf, s, 1) = -BytesPushed(inst) /\ From(WritesOf, s, 1) = WriteCycles(inst)
  BY ONLY <1>1, <1>3, <1>8 DEF FetchCycle
<1>12. Kind(inst) # "Jam" /\ inst.address_mode.cycles # 1
  BY DEF Plain
<1>13. Fresh(inst, "program", s)
  BY <1>7, <1>9, <1>10, <1>11, <1>12, QueueFresh
<1>14. QED
  BY <1>2, <1>13 DEF s

\* BRK and the hardware entries: the signature byte is skipped by the program's BRK only,
\* and the return address and the status are pushed in the order they are pulled.
LEMMA EntryFresh ==
    ASSUME NEW inst, Plain(inst, "Brk"), NEW source \in {"program", "irq", "nmi"},
           NEW a \in Inert, AdvanceOf[a] = FetchCycle(source), WritesOf[a] = 0,
           NEW src \in {"Status", "BrkStatus"},
           src = "BrkStatus" => source = "program", src = "Status" => source \in {"irq", "nmi"},
           NEW v \in Proper(inst, source), Weightless(v),
           NEW w \in Proper(inst, source), Weightless(w)
    PROVE  Fresh(inst, source, << a, PushOp("PcHi"), PushOp("PcLo"), PushOp(src), v, w >>)
<1> DEFINE b == PushOp("PcHi")
           c == PushOp("PcLo")
           d == PushOp(src)
<1>1. /\ MovedOf[a] = 0
      /\ AdvanceOf[b] = 0 /\ MovedOf[b] = -1 /\ WritesOf[b] = 1
      /\ AdvanceOf[c] = 0 /\ MovedOf[c] = -1 /\ WritesOf[c] = 1
      /\ AdvanceOf[d] = 0 /\ MovedOf[d] = -1 /\ WritesOf[d] = 1
      /\ AdvanceOf[v] = 0 /\ MovedOf[v] = 0 /\ WritesOf[v] = 0
      /\ AdvanceOf[w] = 0 /\ MovedOf[w] = 0 /\ WritesOf[w] = 0
  BY OpWeights DEF Latch, Weightless, Inert
<1>2. b = PushOp("PcHi") /\ c = PushOp("PcLo") /\ d = PushOp(src)
  OBVIOUS
<1>3. b \in MicroOp /\ c \in MicroOp /\ d \in MicroOp
  BY Shapes DEF Shape, Latch
<1> HIDE DEF b, c, d
<1>4. a \in MicroOp /\ v \in MicroOp /\ w \in MicroOp
  BY DEF Inert, Proper
<1>5. FetchCycle(source) \in Int /\ AdvanceOf[a] = FetchCycle(source) /\ WritesOf[a] = 0
  BY DEF FetchCycle
<1>6. BytesPushed(inst) = 3 /\ WriteCycles(inst) = 3
      /\ PlannedAdvance(inst, source) - FetchCycle(source) = FetchCycle(source)
  <2>1. BytesPushed(inst) = 3 /\ WriteCycles(inst) = 3 /\ PlannedAdvance(inst, "program") = 2
    BY ModeTable DEF Plain
  <2>2. CASE source = "program"
    BY <2>1, <2>2 DEF FetchCycle
  <2>3. CASE source # "program"
    BY <2>1, <2>3 DEF FetchCycle, PlannedAdvance
  <2>4. QED
    BY <2>2, <2>3
<1> DEFINE s == << a, b, c, d, v, w >>
<1>7. /\ s \in Seq(MicroOp) /\ Len(s) = 6 /\ s[1] = a /\ s[2] = b /\ s[3] = c
      /\ s[4] = d /\ s[5] = v /\ s[6] = w
  BY <1>3, <1>4
<1>8. /\ From(AdvanceOf, s, 1) = AdvanceOf[a] + AdvanceOf[b] + AdvanceOf[c] + AdvanceOf[d]
                                 + AdvanceOf[v] + AdvanceOf[w]
      /\ From(MovedOf, s, 1) = MovedOf[a] + MovedOf[b] + MovedOf[c] + MovedOf[d]
                               + MovedOf[v] + MovedOf[w]
      /\ From(WritesOf, s, 1) = WritesOf[a] + WritesOf[b] + WritesOf[c] + WritesOf[d]
                                + WritesOf[v] + WritesOf[w]
  BY SMTT(40), <1>3, <1>4, Weights6
<1>9. \A x \in Weights :
         /\ From(x, s, 2) = x[b] + x[c] + x[d] + x[v] + x[w]
         /\ From(x, s, 3) = x[c] + x[d] + x[v] + x[w]
         /\ From(x, s, 4) = x[d] + x[v] + x[w]
  <2>1. \A x \in Weights : x \in [MicroOp -> Int]
    BY WeightTypes
  <2>2. QED
    BY <1>3, <1>4, <2>1, TailWeights, SMTT(20)
<1>10. /\ From(AdvanceOf, s, 2) = 0 /\ From(MovedOf, s, 2) = -3
       /\ From(AdvanceOf, s, 3) = 0 /\ From(MovedOf, s, 3) = -2
       /\ From(AdvanceOf, s, 4) = 0 /\ From(MovedOf, s, 4) = -1
  <2> HIDE DEF s
  <2>1. /\ From(AdvanceOf, s, 2) = AdvanceOf[b] + AdvanceOf[c] + AdvanceOf[d] + AdvanceOf[v] + AdvanceOf[w]
        /\ From(AdvanceOf, s, 3) = AdvanceOf[c] + AdvanceOf[d] + AdvanceOf[v] + AdvanceOf[w]
        /\ From(AdvanceOf, s, 4) = AdvanceOf[d] + AdvanceOf[v] + AdvanceOf[w]
        /\ From(MovedOf, s, 2) = MovedOf[b] + MovedOf[c] + MovedOf[d] + MovedOf[v] + MovedOf[w]
        /\ From(MovedOf, s, 3) = MovedOf[c] + MovedOf[d] + MovedOf[v] + MovedOf[w]
        /\ From(MovedOf, s, 4) = MovedOf[d] + MovedOf[v] + MovedOf[w]
    BY <1>9 DEF Weights
  <2>2. QED
    BY ONLY <1>1, <2>1
<1> HIDE DEF s
<1>11. ASSUME NEW i \in 1..Len(s)
       PROVE  InPlace(inst, source, s, i) /\ s[i].alu.op # "OffsetWithExtraCycle"
  <2>1. i \in {1, 2, 3, 4, 5, 6}
    BY <1>7
  <2>2. BytesPushed(inst) \in {1, 2, 3} /\ Kind(inst) \in {"Brk", "ToSubroutine"}
    BY <1>6 DEF Plain
  <2>3. CASE i \in {1, 5, 6}
    <3>1. s[i] \in Proper(inst, source)
      BY <2>3, <1>7, InertProper
    <3>2. QED
      BY <3>1, ProperPlace
  <2>4. CASE i = 2
    <3>1. s[i] = PushOp("PcHi")
      BY <2>4, <1>2, <1>7
    <3>2. From(AdvanceOf, s, i) = 0 /\ From(MovedOf, s, i) = Depth("PcHi") - BytesPushed(inst)
      BY ONLY <2>4, <1>6, <1>10 DEF Depth
    <3>3. QED
      BY <2>2, <3>1, <3>2, PushPlace
  <2>5. CASE i = 3
    <3>1. s[i] = PushOp("PcLo")
      BY <2>5, <1>2, <1>7
    <3>2. From(AdvanceOf, s, i) = 0 /\ From(MovedOf, s, i) = Depth("PcLo") - BytesPushed(inst)
      BY ONLY <2>5, <1>6, <1>10 DEF Depth
    <3>3. QED
      BY <2>2, <3>1, <3>2, PushPlace
  <2>6. CASE i = 4
    <3>1. s[i] = PushOp(src)
      BY <2>6, <1>2, <1>7
    <3>2. Depth(src) = 2
      BY DEF Depth
    <3>3. From(AdvanceOf, s, i) = 0 /\ From(MovedOf, s, i) = Depth(src) - BytesPushed(inst)
      BY ONLY <2>6, <1>6, <1>10, <3>2
    <3>4. QED
      BY <2>2, <3>1, <3>3, PushPlace
  <2>7. QED
    BY <2>1, <2>3, <2>4, <2>5, <2>6
<1>12. Size(s) \in 1..6 /\ Size(s) + FetchCycle(source) = CyclesOf(inst, source, FALSE, FALSE)
  <2>1. Size(s) = 6
    BY <1>7 DEF Size
  <2>2. 6 \in 1..6 /\ 6 + 1 = 7 /\ 6 + 0 = 6
    OBVIOUS
  <2>3. CASE source = "program"
    <3>1. CyclesOf(inst, source, FALSE, FALSE) = 7 /\ FetchCycle(source) = 1
      BY <2>3 DEF Plain, Kind, CyclesOf, FetchCycle
    <3>2. QED
      BY ONLY <2>1, <2>2, <3>1, Zenon
  <2>4. CASE source # "program"
    <3>1. CyclesOf(inst, source, FALSE, FALSE) = 6 /\ FetchCycle(source) = 0
      BY <2>4 DEF CyclesOf, FetchCycle
    <3>2. QED
      BY ONLY <2>1, <2>2, <3>1, Zenon
  <2>5. QED
    BY <2>3, <2>4
<1>13. /\ From(AdvanceOf, s, 1) = PlannedAdvance(inst, source) - FetchCycle(source)
       /\ From(MovedOf, s, 1) = -BytesPushed(inst) /\ From(WritesOf, s, 1) = WriteCycles(inst)
  BY ONLY <1>1, <1>5, <1>6, <1>8
<1>14. Kind(inst) # "Jam" /\ inst.address_mode.cycles # 1
  BY DEF Plain
<1>15. Fresh(inst, source, s)
  BY <1>7, <1>11, <1>12, <1>13, <1>14, QueueFresh
<1>16. QED
  BY <1>2, <1>15 DEF s

LEMMA BrkFresh ==
    ASSUME NEW inst, Plain(inst, "Brk")
    PROVE  /\ Fresh(inst, "program", EmitInt("Brk"))
           /\ Fresh(inst, "irq", EmitInt("Irq"))
           /\ Fresh(inst, "nmi", EmitInt("Nmi"))
<1>1. /\ EmitInt("Brk") = << ReadOp("Pc", "None", TRUE), PushOp("PcHi"), PushOp("PcLo"),
                             PushOp("BrkStatus"), ReadOp("FFFE", "PcLo", FALSE),
                             ReadOp("FFFF", "PcHi", FALSE) >>
      /\ EmitInt("Irq") = << ReadOp("Pc", "None", FALSE), PushOp("PcHi"), PushOp("PcLo"),
                             PushOp("Status"), ReadOp("FFFE", "PcLo", FALSE),
                             ReadOp("FFFF", "PcHi", FALSE) >>
      /\ EmitInt("Nmi") = << ReadOp("Pc", "None", FALSE), PushOp("PcHi"), PushOp("PcLo"),
                             PushOp("Status"), ReadOp("FFFA", "PcLo", FALSE),
                             ReadOp("FFFB", "PcHi", FALSE) >>
  <2>1. ("Brk" = "Brk") = TRUE /\ ("Irq" = "Brk") = FALSE /\ ("Nmi" = "Brk") = FALSE
    OBVIOUS
  <2>2. QED
    BY <2>1 DEF EmitInt
<1> DEFINE t == ReadOp("Pc", "None", TRUE)
           f == ReadOp("Pc", "None", FALSE)
           l == ReadOp("FFFE", "PcLo", FALSE)
           h == ReadOp("FFFF", "PcHi", FALSE)
           nl == ReadOp("FFFA", "PcLo", FALSE)
           nh == ReadOp("FFFB", "PcHi", FALSE)
<1>2. /\ t \in Inert /\ AdvanceOf[t] = 1 /\ WritesOf[t] = 0
      /\ f \in Inert /\ AdvanceOf[f] = 0 /\ WritesOf[f] = 0
  BY InertReads DEF Targets, Latch
<1>3. Weightless(l) /\ Weightless(h) /\ Weightless(nl) /\ Weightless(nh)
  BY ZenonT(40), OpWeights DEF Weightless, Latch, VectorAddresses
<1>4. /\ \A source \in {"program", "irq"} :
            l \in Proper(inst, source) /\ h \in Proper(inst, source)
      /\ nl \in Proper(inst, "nmi") /\ nh \in Proper(inst, "nmi")
  BY VectorProper
<1>5. FetchCycle("program") = 1 /\ FetchCycle("irq") = 0 /\ FetchCycle("nmi") = 0
  BY DEF FetchCycle
<1> HIDE DEF t, f, l, h, nl, nh
<1>6. Fresh(inst, "program", << t, PushOp("PcHi"), PushOp("PcLo"), PushOp("BrkStatus"), l, h >>)
  BY <1>2, <1>3, <1>4, <1>5, EntryFresh
<1>7. Fresh(inst, "irq", << f, PushOp("PcHi"), PushOp("PcLo"), PushOp("Status"), l, h >>)
  BY <1>2, <1>3, <1>4, <1>5, EntryFresh
<1>8. Fresh(inst, "nmi", << f, PushOp("PcHi"), PushOp("PcLo"), PushOp("Status"), nl, nh >>)
  BY <1>2, <1>3, <1>4, <1>5, EntryFresh
<1>9. QED
  BY <1>1, <1>6, <1>7, <1>8 DEF t, f, l, h, nl, nh

LEMMA JamFresh ==
    ASSUME NEW inst, Plain(inst, "Jam") PROVE Fresh(inst, "program", EmitJam)
<1> DEFINE a == ReadOp("Pc", "None", FALSE)
           b == ReadOp("FFFF", "None", FALSE)
           c == ReadOp("FFFE", "None", FALSE)
           e == Op(Cycle("FFFF", FALSE, FALSE, TRUE), FALSE, "None", Alu("Jam"))
           f == DummyRead("None")
<1>1. /\ AdvanceOf[a] = 0 /\ MovedOf[a] = 0 /\ WritesOf[a] = 0
      /\ AdvanceOf[b] = 0 /\ MovedOf[b] = 0 /\ WritesOf[b] = 0
      /\ AdvanceOf[c] = 0 /\ MovedOf[c] = 0 /\ WritesOf[c] = 0
      /\ AdvanceOf[f] = 0 /\ MovedOf[f] = 0 /\ WritesOf[f] = 0
  BY OpWeights DEF Latch, Weightless, VectorAddresses
<1>2. /\ Shape(a, "Pc", TRUE, FALSE, "None", "None")
      /\ Shape(b, "FFFF", TRUE, FALSE, "None", "None")
      /\ Shape(c, "FFFE", TRUE, FALSE, "None", "None")
      /\ Shape(f, "None", TRUE, FALSE, "None", "None")
  BY Shapes DEF Latch, VectorAddresses
<1>3. Shape(e, "FFFF", TRUE, FALSE, "None", "Jam") /\ Weightless(e)
  <2>1. Shape(e, "FFFF", TRUE, FALSE, "None", "Jam")
    BY Shapes
  <2>2. Weightless(e)
    BY OpWeights
  <2>3. QED
    BY <2>1, <2>2
<1>4. EmitJam = << a, b, c, c, e, f >>
  BY DEF EmitJam
<1> HIDE DEF a, b, c, e, f
<1>5. ASSUME NEW x, Weightless(x), NEW addr \in {"Pc", "FFFE", "FFFF", "None"},
             NEW alu \in {"None", "Jam"}, Shape(x, addr, TRUE, FALSE, "None", alu)
      PROVE  x \in Proper(inst, "program")
  <2>1. Kind(inst) = "Jam"
    BY DEF Plain
  <2>2. Belongs(inst, "program", x)
    BY <1>5, <2>1 DEF Shape, Belongs, Weightless
  <2>3. QED
    BY <1>5, <2>2 DEF Shape, Proper, PushesLatch
<1>6. /\ a \in Proper(inst, "program") /\ b \in Proper(inst, "program")
      /\ c \in Proper(inst, "program") /\ e \in Proper(inst, "program")
      /\ f \in Proper(inst, "program")
  BY <1>1, <1>2, <1>3, <1>5 DEF Weightless
<1>7. a \in MicroOp /\ b \in MicroOp /\ c \in MicroOp /\ e \in MicroOp /\ f \in MicroOp
  BY <1>6 DEF Proper
<1> DEFINE s == << a, b, c, c, e, f >>
<1>8. /\ s \in Seq(MicroOp) /\ Len(s) = 6 /\ s[1] = a /\ s[2] = b /\ s[3] = c
      /\ s[4] = c /\ s[5] = e /\ s[6] = f
  BY <1>7
<1>9. /\ From(AdvanceOf, s, 1) = AdvanceOf[a] + AdvanceOf[b] + AdvanceOf[c] + AdvanceOf[c]
                                 + AdvanceOf[e] + AdvanceOf[f]
      /\ From(MovedOf, s, 1) = MovedOf[a] + MovedOf[b] + MovedOf[c] + MovedOf[c]
                               + MovedOf[e] + MovedOf[f]
      /\ From(WritesOf, s, 1) = WritesOf[a] + WritesOf[b] + WritesOf[c] + WritesOf[c]
                                + WritesOf[e] + WritesOf[f]
  BY <1>7, Weights6
<1> HIDE DEF s
<1>10. BytesPushed(inst) = 0 /\ WriteCycles(inst) = 0 /\ PlannedAdvance(inst, "program") = 1
  BY ModeTable DEF Plain
<1>11. /\ From(AdvanceOf, s, 1) = PlannedAdvance(inst, "program") - FetchCycle("program")
       /\ From(MovedOf, s, 1) = -BytesPushed(inst) /\ From(WritesOf, s, 1) = WriteCycles(inst)
  BY ONLY <1>1, <1>3, <1>9, <1>10 DEF FetchCycle, Weightless
<1>12. ASSUME NEW i \in 1..Len(s) PROVE InPlace(inst, "program", s, i)
  <2>1. i \in {1, 2, 3, 4, 5, 6}
    BY <1>8
  <2>2. s[i] \in Proper(inst, "program")
    BY <1>6, <1>8, <2>1
  <2>3. QED
    BY <2>2, ProperPlace
<1>13. JamEnds(s)
  <2>1. Len(s) - 1 = 5 /\ Len(s) >= 2
    BY <1>8
  <2>2. s[5].alu.op = "Jam"
    BY <1>3, <1>8 DEF Shape
  <2>3. QED
    BY ONLY <2>1, <2>2 DEF JamEnds
<1>14. s # << >> /\ Len(s) <= 7
  BY <1>8
<1>15. Kind(inst) = "Jam" /\ inst.address_mode.cycles # 1
  BY DEF Plain
<1>16. Fresh(inst, "program", s)
  BY <1>8, <1>11, <1>12, <1>13, <1>14, <1>15 DEF Fresh, AllInPlace
<1>17. QED
  BY <1>4, <1>16 DEF s

\* A no-op of n cycles reads n - 1 bytes and steps over its operands.
LEMMA CmosNopFresh ==
    ASSUME NEW inst, Kind(inst) = "CmosNop", inst.memory_action \in MemoryAction,
           << inst.address_mode.bytes, inst.address_mode.cycles >> \in NopShapes
    PROVE  Fresh(inst, "program",
                 EmitCmosNop(inst.address_mode.bytes, inst.address_mode.cycles))
<1> DEFINE bytes == inst.address_mode.bytes
           cycles == inst.address_mode.cycles
           t == ReadOp("Pc", "None", TRUE)
           f == ReadOp("Pc", "None", FALSE)
<1>1. /\ t \in Inert /\ AdvanceOf[t] = 1 /\ WritesOf[t] = 0
      /\ f \in Inert /\ AdvanceOf[f] = 0 /\ WritesOf[f] = 0
  BY InertReads DEF Targets, Latch
<1>2. /\ BytesPushed(inst) = 0 /\ WriteCycles(inst) = 0
      /\ PlannedAdvance(inst, "program") = bytes
      /\ CyclesOf(inst, "program", FALSE, FALSE) = cycles
  BY ModeTable DEF CyclesOf, Kind
<1>3. \/ bytes = 3 /\ cycles = 3
      \/ bytes = 1 /\ cycles = 1
      \/ bytes = 2 /\ cycles = 2
      \/ bytes = 3 /\ cycles = 4
      \/ bytes = 3 /\ cycles = 8
  BY DEF NopShapes
<1> HIDE DEF bytes, cycles
<1>4. ASSUME NEW s \in Seq(Inert), Size(s) + 1 = cycles, Size(s) \in 0..7,
             From(AdvanceOf, s, 1) = bytes - 1, From(WritesOf, s, 1) = 0
      PROVE  Fresh(inst, "program", s)
  <2>1. Len(s) <= 7 /\ Len(s) + 1 = CyclesOf(inst, "program", FALSE, FALSE)
    <3>1. Size(s) <= 7
      BY <1>4
    <3>2. Size(s) + 1 = CyclesOf(inst, "program", FALSE, FALSE)
      BY <1>2, <1>4, Zenon
    <3>3. QED
      BY ONLY <3>1, <3>2 DEF Size
  <2>2. s = << >> <=> cycles = 1
    <3>1. s = << >> <=> Size(s) = 0
      BY EmptySeq DEF Size
    <3>2. Size(s) = 0 <=> cycles = 1
      BY ONLY <1>4
    <3>3. QED
      BY <3>1, <3>2
  <2>3. /\ Kind(inst) # "Jam" /\ From(AdvanceOf, s, 1) = PlannedAdvance(inst, "program") - 1
        /\ From(WritesOf, s, 1) = WriteCycles(inst)
    BY <1>2, <1>4
  <2>4. QED
    BY <1>2, <2>1, <2>2, <2>3, InertFresh DEF cycles
<1>5. CASE bytes = 3 /\ cycles = 3
  <2> DEFINE s == << t, t >>
  <2>1. EmitCmosNop(bytes, cycles) = s
    BY <1>5 DEF EmitCmosNop
  <2> HIDE DEF t, f
  <2>2. s \in Seq(Inert) /\ Len(s) = 2 /\ From(AdvanceOf, s, 1) = 2 /\ From(WritesOf, s, 1) = 0
    BY <1>1, TwoOps
  <2> HIDE DEF s
  <2>3. Size(s) + 1 = cycles /\ Size(s) \in 0..7 /\ From(AdvanceOf, s, 1) = bytes - 1
    <3>1. Size(s) = 2
      BY <2>2 DEF Size
    <3>2. 2 + 1 = 3 /\ 3 - 1 = 2 /\ 2 \in 0..7
      OBVIOUS
    <3>3. From(AdvanceOf, s, 1) = 2
      BY <2>2
    <3>4. QED
      BY ONLY <1>5, <3>1, <3>2, <3>3, Zenon
  <2>4. QED
    BY <1>4, <2>1, <2>2, <2>3 DEF bytes, cycles
<1>6. CASE ~(bytes = 3 /\ cycles = 3)
  <2> DEFINE n == cycles - 1
             s == [i \in 1..n |-> ReadOp("Pc", "None", i \in {1, 3})]
  <2>1. EmitCmosNop(bytes, cycles) = s
    BY <1>6 DEF EmitCmosNop
  <2>2. n \in {0, 1, 3, 7} /\ n + 1 = cycles
        /\ bytes - 1 = (IF n >= 1 THEN 1 ELSE 0) + (IF n >= 3 THEN 1 ELSE 0)
    <3>1. CASE bytes = 1 /\ cycles = 1
      BY <3>1
    <3>2. CASE bytes = 2 /\ cycles = 2
      BY <3>2
    <3>3. CASE bytes = 3 /\ cycles = 4
      BY <3>3
    <3>4. CASE bytes = 3 /\ cycles = 8
      BY <3>4
    <3>5. QED
      BY <1>3, <1>6, <3>1, <3>2, <3>3, <3>4
  <2> HIDE DEF n
  <2>3. ASSUME NEW i \in 1..n PROVE s[i] = IF i \in {1, 3} THEN t ELSE f
    <3>1. CASE i \in {1, 3}
      <4>1. (i \in {1, 3}) = TRUE
        BY <3>1
      <4>2. s[i] = ReadOp("Pc", "None", TRUE)
        BY <4>1
      <4>3. QED
        BY <3>1, <4>2
    <3>2. CASE i \notin {1, 3}
      <4>1. (i \in {1, 3}) = FALSE
        BY <3>2
      <4>2. s[i] = ReadOp("Pc", "None", FALSE)
        BY <4>1
      <4>3. QED
        BY <3>2, <4>2
    <3>3. QED
      BY <3>1, <3>2
  <2> HIDE DEF t, f
  <2>4. n \in Nat
    BY <2>2
  <2>5. s \in [1..n -> Inert]
    <3>1. \A i \in 1..n : s[i] \in Inert
      BY <1>1, <2>3
    <3>2. QED
      BY <3>1
  <2>6. s \in Seq(Inert) /\ Len(s) = n
    BY <2>4, <2>5, IsASeq
  <2>7. \A i \in 1..n : /\ AdvanceOf[s[i]] = IF i \in {1, 3} THEN 1 ELSE 0
                        /\ WritesOf[s[i]] = 0
    BY <1>1, <2>3
  <2> HIDE DEF s
  <2>8. \A i : At(WritesOf, s, i) = 0
    BY <2>6, <2>7 DEF At
  <2>9. From(WritesOf, s, 1) = 0
    BY <2>8 DEF From
  <2>10. /\ At(AdvanceOf, s, 1) = (IF n >= 1 THEN 1 ELSE 0)
         /\ At(AdvanceOf, s, 3) = (IF n >= 3 THEN 1 ELSE 0)
         /\ \A i \in {2, 4, 5, 6, 7} : At(AdvanceOf, s, i) = 0
    BY <2>4, <2>6, <2>7 DEF At
  <2>11. From(AdvanceOf, s, 1) = (IF n >= 1 THEN 1 ELSE 0) + (IF n >= 3 THEN 1 ELSE 0)
    BY <2>10 DEF From
  <2>12. Size(s) = n
    BY <2>6 DEF Size
  <2>13. Size(s) + 1 = cycles /\ Size(s) \in 0..7 /\ From(AdvanceOf, s, 1) = bytes - 1
    <3>1. n \in 0..7 /\ n + 1 = cycles
      BY <2>2
    <3>2. Size(s) + 1 = cycles /\ Size(s) \in 0..7
      <4>1. Size(s) + 1 = cycles
        BY <2>12, <3>1, Zenon
      <4>2. Size(s) \in 0..7
        BY <2>12, <3>1, Zenon
      <4>3. QED
        BY <4>1, <4>2
    <3>3. From(AdvanceOf, s, 1) = bytes - 1
      BY ONLY <2>2, <2>11
    <3>4. QED
      BY <3>2, <3>3
  <2>14. QED
    BY <1>4, <2>1, <2>6, <2>9, <2>13 DEF bytes, cycles
<1>7. QED
  BY <1>5, <1>6

LEMMA ModeFresh ==
    ASSUME NEW inst, inst.address_mode \in AddressMode, inst.memory_action \in MemoryAction,
           Emittable(F, inst.address_mode, inst.memory_action),
           inst.address_mode.kind = "CmosNop" =>
              << inst.address_mode.bytes, inst.address_mode.cycles >> \in NopShapes,
           inst.address_mode.kind # "CmosNop" => inst.address_mode.cycles = 0
    PROVE  Fresh(inst, "program", EmitUcycs(F, inst.address_mode, inst.memory_action))
<1> DEFINE kind == inst.address_mode.kind
<1>2. kind \in ModeKinds8 /\ inst.address_mode.offset \in OffsetType
  BY DEF AddressMode, Emittable
<1>3. kind # "CmosNop" => Plain(inst, kind)
  BY <1>2 DEF Plain, Kind
<1> DEFINE s == EmitUcycs(F, inst.address_mode, inst.memory_action)
<1>4. /\ kind = "Implied" => s = EmitImplied
      /\ kind = "Immediate" => s = EmitImmediate
      /\ kind = "DirectPage" => s = EmitDp(F, inst.memory_action, inst.address_mode.offset)
      /\ kind = "Absolute" => s = EmitAbsolute(F, inst.memory_action, inst.address_mode.offset)
      /\ kind = "DpIndirect" => s = EmitDpInd(F, inst.memory_action, inst.address_mode.offset)
      /\ kind = "Stack" => s = EmitStack(inst.memory_action)
      /\ kind = "JmpAbsolute" => s = EmitJmpAbs
      /\ kind = "JmpIndirect" => s = EmitJmpInd(F)
      /\ kind = "JmpAbsoluteX" => s = EmitJmpAbsX
      /\ kind = "ToSubroutine" => s = EmitJsr
      /\ kind = "FromSubroutine" => s = EmitRts
      /\ kind = "Brk" => s = EmitInt("Brk")
      /\ kind = "FromInterrupt" => s = EmitRti
      /\ kind = "DpRelative" => s = EmitBranchDpRel
      /\ kind = "Relative" => s = EmitBranchRel
      /\ kind = "Jam" => s = EmitJam
      /\ kind = "CmosNop" =>
            s = EmitCmosNop(inst.address_mode.bytes, inst.address_mode.cycles)
  BY DEF EmitUcycs
<1> SUFFICES Fresh(inst, "program", s)
  OBVIOUS
<1> HIDE DEF s
<1>5. CASE kind = "Implied"
  <2>1. Plain(inst, "Implied")
    BY <1>3, <1>5
  <2>2. QED
    BY <1>4, <1>5, <2>1, ImpliedFresh
<1>6. CASE kind = "Immediate"
  <2>1. Plain(inst, "Immediate")
    BY <1>3, <1>6
  <2>2. QED
    BY <1>4, <1>6, <2>1, ImmediateFresh
<1>7. CASE kind = "DirectPage"
  <2>1. Plain(inst, "DirectPage")
    BY <1>3, <1>7
  <2>2. QED
    BY <1>4, <1>7, <2>1, DpFresh
<1>8. CASE kind = "Absolute"
  <2>1. Plain(inst, "Absolute")
    BY <1>3, <1>8
  <2>2. QED
    BY <1>4, <1>8, <2>1, AbsoluteFresh
<1>9. CASE kind = "DpIndirect"
  <2>1. Plain(inst, "DpIndirect")
    BY <1>3, <1>9
  <2>2. QED
    BY <1>4, <1>9, <2>1, DpIndirectFresh
<1>10. CASE kind = "Stack"
  <2>1. Plain(inst, "Stack")
    BY <1>3, <1>10
  <2>2. inst.memory_action # "ReadModifyWrite"
    BY <1>10 DEF Emittable
  <2>3. QED
    BY <1>4, <1>10, <2>1, <2>2, StackFresh
<1>11. CASE kind = "JmpAbsolute"
  <2>1. Plain(inst, "JmpAbsolute")
    BY <1>3, <1>11
  <2>2. QED
    BY <1>4, <1>11, <2>1, JmpAbsoluteFresh
<1>12. CASE kind = "JmpIndirect"
  <2>1. Plain(inst, "JmpIndirect")
    BY <1>3, <1>12
  <2>2. QED
    BY <1>4, <1>12, <2>1, JmpIndirectNmosFresh, JmpIndirectCmosFresh
<1>13. CASE kind = "JmpAbsoluteX"
  <2>1. Plain(inst, "JmpAbsoluteX")
    BY <1>3, <1>13
  <2>2. QED
    BY <1>4, <1>13, <2>1, JmpAbsoluteXFresh
<1>14. CASE kind = "ToSubroutine"
  <2>1. Plain(inst, "ToSubroutine")
    BY <1>3, <1>14
  <2>2. QED
    BY <1>4, <1>14, <2>1, ToSubroutineFresh
<1>15. CASE kind = "FromSubroutine"
  <2>1. Plain(inst, "FromSubroutine")
    BY <1>3, <1>15
  <2>2. QED
    BY <1>4, <1>15, <2>1, FromSubroutineFresh
<1>16. CASE kind = "Brk"
  <2>1. Plain(inst, "Brk")
    BY <1>3, <1>16
  <2>2. QED
    BY <1>4, <1>16, <2>1, BrkFresh
<1>17. CASE kind = "FromInterrupt"
  <2>1. Plain(inst, "FromInterrupt")
    BY <1>3, <1>17
  <2>2. QED
    BY <1>4, <1>17, <2>1, FromInterruptFresh
<1>18. CASE kind = "DpRelative"
  <2>1. Plain(inst, "DpRelative")
    BY <1>3, <1>18
  <2>2. QED
    BY <1>4, <1>18, <2>1, DpRelativeFresh
<1>19. CASE kind = "Relative"
  <2>1. Plain(inst, "Relative")
    BY <1>3, <1>19
  <2>2. QED
    BY <1>4, <1>19, <2>1, RelativeFresh
<1>20. CASE kind = "Jam"
  <2>1. Plain(inst, "Jam")
    BY <1>3, <1>20
  <2>2. QED
    BY <1>4, <1>20, <2>1, JamFresh
<1>21. CASE kind = "CmosNop"
  <2>1. Kind(inst) = "CmosNop"
    BY <1>21 DEF Kind
  <2>2. QED
    BY <1>4, <1>21, <2>1, CmosNopFresh
<1>22. QED
  BY <1>2, <1>5, <1>6, <1>7, <1>8, <1>9, <1>10, <1>11, <1>12, <1>13,
     <1>14, <1>15, <1>16, <1>17, <1>18, <1>19, <1>20, <1>21 DEF ModeKinds8

\* Whatever the table decodes to, the emitter pushes what the instruction amounts to.
LEMMA EmitFresh ==
    ASSUME NEW opcode \in Opcode, NEW inst, inst = Decode[opcode]
    PROVE  Fresh(inst, "program", EmitUcycs(F, inst.address_mode, inst.memory_action))
<1>1. inst \in Instruction
  BY DecodeAssumption
<1>2. ControlFacts(F, opcode, inst)
  BY TableAssumption
<1>3. inst.address_mode.kind # "CmosNop" => inst.address_mode.cycles = 0
  BY <1>2 DEF ControlFacts
<1>4. /\ inst.address_mode \in AddressMode /\ inst.memory_action \in MemoryAction
      /\ Emittable(F, inst.address_mode, inst.memory_action)
      /\ inst.address_mode.kind = "CmosNop" =>
            << inst.address_mode.bytes, inst.address_mode.cycles >> \in NopShapes
  BY <1>1, DecodeAssumption DEF Instruction
<1>5. QED
  BY <1>3, <1>4, ModeFresh
=============================================================================
