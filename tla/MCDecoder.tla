------------------------------ MODULE MCDecoder ------------------------------
(* Every flavor of src/cpu6502/flavor.rs, every opcode.                     *)
EXTENDS Decoder
AllFlavors == {NMOS6502, NES, WDC65C02, Synertek65C02, Rockwell65C02}
=============================================================================
