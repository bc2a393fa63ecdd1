------------------------------- MODULE System -------------------------------
(***************************************************************************)
(* The core on a SimpleBus, running a program: every byte comes from the   *)
(* memory and goes back to it.  The host drives the lines between any two  *)
(* steps: a device holds IRQ until the program writes to its port, NMI and *)
(* RDY come and go, and the host may reset the core.                       *)
(***************************************************************************)
EXTENDS Datapath, SimpleBus

CONSTANTS
    Program,       \* address -> byte, with the vectors
    LoopStart,     \* the address its loop comes back to
    IrqPort,       \* a write to this address makes the device release IRQ
    HostMoves,     \* what this host does, of "irq", "nmi", "rdy" and "reset"
    MaxEvents      \* bound: the interrupts and resets the host asks for in one behaviour

ASSUME ProgramAssumption ==
    /\ DOMAIN Program \subseteq Address /\ {65532, 65533} \subseteq DOMAIN Program
    /\ \A addr \in DOMAIN Program : Program[addr] \in Byte
ASSUME BusLinesAssumption == Lines = [irq : BOOLEAN, nmi : BOOLEAN, rdy : BOOLEAN]
ASSUME SystemAssumption == IrqPort \in Address /\ SIZE = 65536 /\ MaxEvents \in Nat

VARIABLES
    frames,  \* history: the core at the calls and interrupts under way, innermost last
    asked    \* history: the interrupts and resets asked for

systemVars == << allVars, busVars, frames, asked >>

\* Cpu6502::new() and reset() on a loaded bus
SystemInit ==
    /\ Init
    /\ ram = Program /\ lines = NoLines
    /\ core = Scratch([a |-> 0, x |-> 0, y |-> 0, s |-> 253, flags |-> {"I", "U"},
                       pc |-> Word(Program[65532], Program[65533]), ea |-> 0, ptr |-> 0,
                       op0 |-> 0, signed_offset8 |-> 0, data |-> 0, targets |-> << >>])
    /\ access = NoAccess
    /\ entry = core
    /\ log = << >>
    /\ frames = << >>
    /\ asked = 0

Memory == [latch \in Latch \cup {"Opcode"} |-> [addr \in Int |-> {Fetch(addr)}]]

-----------------------------------------------------------------------------
(* The frames.  A frame is the core a return should restore: for a call,   *)
(* the one after the JSR; for an interrupt, the one it interrupted.        *)

kind == current_inst.address_mode.kind
Finishes == ~IsEmpty(ucycs) /\ IsEmpty(ucycs') /\ current_inst' = current_inst
Interrupts == AtBoundary /\ run'.source \in {"irq", "nmi"} /\ run'.cycles = 1
Calls == Finishes /\ kind = "ToSubroutine"
Returns == Finishes /\ kind \in {"FromSubroutine", "FromInterrupt"}

Frame(c, call) == [call |-> call] @@ c
Frames ==
    frames' = CASE Interrupts -> Append(frames, Frame(core, FALSE))
                [] Calls -> Append(frames, Frame([core' EXCEPT !.pc = (entry.pc + 3) % 65536,
                                                               !.s = entry.s], TRUE))
                [] Returns /\ frames # << >> -> Front(frames)
                [] OTHER -> frames

-----------------------------------------------------------------------------

\* step(): the cycle that writes goes ahead whatever RDY is.
CpuStep ==
    /\ StepData(lines, Memory)
    /\ IF WritePending
       THEN /\ Store(access'.addr, access'.data)
            /\ lines' = IF access'.addr = IrqPort THEN [lines EXCEPT !.irq = FALSE] ELSE lines
       ELSE UNCHANGED busVars
    /\ Frames
    /\ UNCHANGED asked

Host(new) == SetLines(new) /\ UNCHANGED << allVars, frames >>
RaiseIrq ==
    /\ "irq" \in HostMoves /\ ~lines.irq /\ asked < MaxEvents
    /\ Host([lines EXCEPT !.irq = TRUE]) /\ asked' = asked + 1
RaiseNmi ==
    /\ "nmi" \in HostMoves /\ ~lines.nmi /\ asked < MaxEvents
    /\ Host([lines EXCEPT !.nmi = TRUE]) /\ asked' = asked + 1
LowerNmi == lines.nmi /\ Host([lines EXCEPT !.nmi = FALSE]) /\ UNCHANGED asked
PullRdy ==
    "rdy" \in HostMoves /\ lines.rdy /\ Host([lines EXCEPT !.rdy = FALSE]) /\ UNCHANGED asked
ReleaseRdy == ~lines.rdy /\ Host([lines EXCEPT !.rdy = TRUE]) /\ UNCHANGED asked

HostReset ==
    /\ "reset" \in HostMoves /\ asked < MaxEvents /\ asked' = asked + 1
    /\ ResetData(Memory)
    /\ frames' = << >>
    /\ UNCHANGED busVars

HostStep == RaiseIrq \/ RaiseNmi \/ LowerNmi \/ PullRdy \/ ReleaseRdy

SystemNext == CpuStep \/ HostStep \/ HostReset
SystemSpec == SystemInit /\ [][SystemNext]_systemVars

\* A host that steps the core with RDY high again and again.  With RDY high CpuStep always
\* changes allVars, and but for the resets, of which there are finitely many, only it does:
\* the last conjunct is SF_systemVars(CpuStep /\ lines.rdy), without the ENABLED that is
\* slow to evaluate.
FairSystem ==
    /\ SystemSpec
    /\ WF_systemVars(ReleaseRdy)
    /\ []<>lines.rdy => []<><<lines.rdy>>_allVars

-----------------------------------------------------------------------------

\* Calls and interrupts nest: RTS comes back behind its JSR and RTI to the interrupted
\* instruction, with the stack pointer of then, however many interrupts came in between
\* and wherever RDY stalled; RTI also brings back the flags, and, if the handlers save
\* them, A, X and Y are what they were.
ReturnsToCaller ==
    [][Returns /\ kind \in {"FromSubroutine", "FromInterrupt"} /\ frames # << >> =>
          LET frame == Last(frames)
          IN  /\ core'.pc = frame.pc
              /\ core'.s = frame.s
              /\ kind = "FromInterrupt" =>
                    \A r \in {"a", "x", "y", "flags"} : core'[r] = frame[r]]_systemVars

\* What a call or an interrupt pushed is on the stack, below the frames around it, until
\* its return, whatever is called, pushed and interrupted meanwhile; the status an
\* interrupt pushes has B clear, by which a handler tells it from a BRK.
StackKeepsFrames ==
    \A i \in 1..Len(frames) :
        LET frame == frames[i]
            entering == i = Len(frames) /\ run.source # "program" /\ ~IsEmpty(ucycs)
            pushed == IF frame.call THEN (frame.pc - 1) % 65536 ELSE frame.pc
        IN  ~entering =>
            /\ Fetch(256 + frame.s) = High(pushed)
            /\ Fetch(256 + ((frame.s - 1) % 256)) = Low(pushed)
            /\ frame.call \/ Fetch(256 + ((frame.s - 2) % 256)) =
                                 StatusByte((frame.flags \cup {"U"}) \ {"B"})
            /\ i > 1 => frame.s < frames[i - 1].s

\* The device's interrupt is acknowledged, although the program may clear I for the length
\* of an SEI only (the poll after SEI still uses the I it replaced), NMI comes in between
\* and RDY stalls.
IrqServed == lines.irq ~> ~lines.irq

\* The program comes round its loop again and again.
LoopGoesRound == []<>(AtBoundary /\ core.pc = LoopStart /\ frames = << >>)
=============================================================================
