---------------------------- MODULE MCSingleStep ----------------------------
(***************************************************************************)
(* SingleStep on the opcode tables, for two kinds of cases.  Those for the *)
(* addresses take one opcode of each addressing mode and action, and the   *)
(* undocumented stores, with bytes and registers at the ends of pages and  *)
(* of memory; those for the effects, all in page 2, take all opcodes, with *)
(* one address and data at the ends of the digits.                         *)
(***************************************************************************)
EXTENDS SingleStep, OpcodeTables

DecodeTable == LET rows == TableRows(F.OPCODE_TABLE) IN [o \in Opcode |-> DecodeOpcode(rows, o)]

AddressClass(i, o) ==
    << i.address_mode, i.memory_action,
       IF i.address_mode.kind = "Stack" \/ i.mnemonic \in Unstable \cup {"Inc", "Txs"}
       THEN i.mnemonic ELSE "any",
       o % 16 = 15 /\ i.address_mode.kind = "DpRelative", o = 124 >>
AddressingOpcodes ==
    LET rows == TableRows(F.OPCODE_TABLE)
        classified == {<< AddressClass(DecodeOpcode(rows, o), o), o >> : o \in Opcodes}
    IN  {(CHOOSE x \in classified : x[1] = c)[2] : c \in {x[1] : x \in classified}}
AllOpcodes == Opcodes
TestLines == {QuietLines}

At(a, x, y, s, pc, flags) ==
    [a |-> a, x |-> x, y |-> y, s |-> s, pc |-> pc, flags |-> flags \cup {"U"}, ea |-> 127,
     ptr |-> 0, op0 |-> 0, signed_offset8 |-> 0, data |-> 0, targets |-> << >>]

\* Index registers and stack pointer at the ends of a page; instructions in page 0, over
\* the middle of memory and over its end.
AddressEntries ==
    {At(193, i[1], i[2], i[3], pc, {"C"}) :
        i \in {<< 0, 255, 0 >>, << 255, 1, 1 >>, << 255, 0, 255 >>, << 1, 128, 254 >>},
        pc \in {0, 254, 32765, 65533, 65534, 65535}}

EffectEntries ==
    {At(r[1], r[2], r[3], r[4], 512, flags) :
        r \in {<< 0, 1, 255, 127 >>, << 255, 0, 128, 0 >>, << 127, 255, 0, 129 >>,
               << 153, 128, 1, 254 >>, << 128, 15, 127, 255 >>},
        flags \in {{}, {"C"}, {"D"}, {"C", "D", "I"}, {"N", "V", "Z", "I"},
                   {"N", "V", "Z", "C", "I", "D"}}}
AllEntries == AddressEntries \cup EffectEntries

RecordedBytes(start, latch) ==
    LET addresses == start.pc # 512
    IN  CASE latch = "Opcode" -> IF addresses THEN AddressingOpcodes ELSE AllOpcodes
          [] latch \in {"Op0", "Status"} ->
                IF addresses THEN {200} ELSE {0, 1, 16, 127, 128, 154, 254, 255}
          [] OTHER -> IF addresses THEN {0, 1, 127, 128, 254, 255} ELSE {16}
=============================================================================
