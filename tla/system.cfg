SPECIFICATION FairSystem
CONSTANTS
    F <- WDC65C02
    Digits = 2
    Opcode <- ProgramOpcodes
    Decode <- DecodeTable
    Lines <- AllLines
    SIZE = 65536
    Program <- TestProgram
    LoopStart = 4
    IrqPort = 53248
    HostMoves <- WholeHost
    MaxEvents = 2
INVARIANT StackKeepsFrames
PROPERTIES ReturnsToCaller IrqServed LoopGoesRound
