---------------------------- MODULE MCAccumulator ----------------------------
EXTENDS Accumulator
AllBytes == 0..255
AllSemantics == {"None", "Nmos6502", "Cmos65C02", "Wdc65C816"}
=============================================================================
