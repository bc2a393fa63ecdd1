------------------------------ MODULE MCControl ------------------------------
(***************************************************************************)
(* CpuControl on the opcode tables.  Two opcodes of one class go through   *)
(* the same control: they have the same addressing mode and action, agree  *)
(* on the opcode bytes execute_next tests, and neither is told apart by    *)
(* its mnemonic.  One opcode of each class stands for all 256.             *)
(***************************************************************************)
EXTENDS CpuControl, OpcodeTables

AllLines == [irq : BOOLEAN, nmi : BOOLEAN, rdy : BOOLEAN]

ControlMnemonic(m) ==
    CASE m \in {"Adc", "Sbc"} -> IF F.DECIMAL = "Cmos65C02" THEN "Adc or Sbc" ELSE "any"
      [] m \in {"Cli", "Sei", "Plp", "Cld", "Sed", "Brk", "Bra"} -> m
      [] OTHER -> "any"

ControlClass(i, o) ==
    << i.address_mode, i.memory_action, ControlMnemonic(i.mnemonic),
       i.memory_action = "ReadModifyWrite" /\ o \in {222, 254},
       i.address_mode.kind = "JmpIndirect" /\ o = 124,
       i.address_mode.kind \in {"Relative", "DpRelative"} /\ o % 16 = 15 >>

\* Every opcode with its class and what it decodes to
Classified ==
    LET rows == TableRows(F.OPCODE_TABLE)
        entry(o) == LET i == DecodeOpcode(rows, o) IN << ControlClass(i, o), o, i >>
    IN  {entry(o) : o \in Opcodes}

\* One entry of each class
Chosen ==
    LET classified == Classified
    IN  {CHOOSE x \in classified : x[1] = c : c \in {y[1] : y \in classified}}

Representatives == {x[2] : x \in Chosen}
DecodeTable == [o \in Representatives |-> (CHOOSE x \in Chosen : x[2] = o)[3]]
=============================================================================
