------------------------------ MODULE MCSystem ------------------------------
(***************************************************************************)
(* A program with a call, a branch, the masking of IRQ, read-modify-write  *)
(* and decimal mode; handlers that save A and change the flags.  Its first *)
(* part is loaded round the top of the memory: the bytes of the vectors,   *)
(* which are set after it, two traps, and the loop, which clears I between *)
(* CLI and SEI only.                                                       *)
(***************************************************************************)
EXTENDS System, OpcodeTables

Around ==
    << 0, 0, 0, 0, 0, 0,
       128, 0, 128, 254,       \* BRA and BRA to itself: not reached
       88, 120,                \* loop: CLI, SEI
       32, 16, 2,              \* JSR sub
       128, 249 >>             \* BRA loop
Subroutine ==                  \* SED, LDA #1, ADC $40, CLD, STA $40, LSR $40, RTS
    << 248, 169, 1, 101, 64, 216, 133, 64, 70, 64, 96 >>
IrqHandler ==                  \* PHA, LDA #0, STA port, PLA, RTI
    << 72, 169, 0, 141, 0, 208, 104, 64 >>
NmiHandler == << 248, 64 >>    \* SED, RTI

LoadedProgram ==
    Loaded(Loaded(Loaded(Loaded(Zeroed, 65530, Around), 528, Subroutine), 544, IrqHandler),
           560, NmiHandler)
TestProgram == WithVector(WithVector(WithVector(LoadedProgram, 6, 48, 2), 4, 4, 0), 2, 32, 2)

ProgramOpcodes ==
    {0, 128, 88, 120, 32, 248, 169, 101, 216, 133, 70, 96, 72, 141, 104, 64}
DecodeTable == LET rows == TableRows(F.OPCODE_TABLE) IN [o \in Opcode |-> DecodeOpcode(rows, o)]
AllLines == [irq : BOOLEAN, nmi : BOOLEAN, rdy : BOOLEAN]
WholeHost == {"irq", "nmi", "rdy", "reset"}
==============================================================================
