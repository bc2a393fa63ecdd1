---------------------------- MODULE OpcodeTables ----------------------------
(***************************************************************************)
(* The four opcode tables of the 8-bit cores and their decoder             *)
(* (src/isa/table.rs).  A row is an entry of the define_opcodes! table:    *)
(* a mnemonic, an addressing mode, an opcode and the tables it is filtered *)
(* to.  Entries for the Wdc816 table alone, which no Flavor selects, are   *)
(* left out.                                                               *)
(***************************************************************************)
EXTENDS Microcode, FiniteSets

All == {"Nmos", "Synertek", "Rockwell", "Wdc65c02"}
Cmos == All \ {"Nmos"}

Imp == PlainMode("Implied")
Imm == PlainMode("Immediate")
Stk == PlainMode("Stack")
Dp == PlainMode("DirectPage")
DpX == OffsetMode("DirectPage", "X")
DpY == OffsetMode("DirectPage", "Y")
Abs == PlainMode("Absolute")
AbsX == OffsetMode("Absolute", "X")
AbsY == OffsetMode("Absolute", "Y")
Ind == PlainMode("DpIndirect")
IndX == OffsetMode("DpIndirect", "X")
IndY == OffsetMode("DpIndirect", "Y")
JmpAbs == PlainMode("JmpAbsolute")
JmpInd == PlainMode("JmpIndirect")
JmpAbsX == PlainMode("JmpAbsoluteX")
ToSub == PlainMode("ToSubroutine")
FromSub == PlainMode("FromSubroutine")
FromInt == PlainMode("FromInterrupt")
Rel == PlainMode("Relative")
DpRel == PlainMode("DpRelative")
JamMode == PlainMode("Jam")
BrkMode == PlainMode("Brk")

EntryRow(mnemonic, mode, opcode, tables) ==
    [mnemonic |-> mnemonic, mode |-> mode, opcode |-> opcode, tables |-> tables]
\* One mnemonic in several modes, one mnemonic on several opcodes of a mode, and
\* several mnemonics with one opcode each.
Row(mnemonic, tables, es) == {EntryRow(mnemonic, e[1], e[2], tables) : e \in es}
Repeat(mnemonic, tables, mode, ops) == {EntryRow(mnemonic, mode, o, tables) : o \in ops}
Each(mode, tables, es) == {EntryRow(e[1], mode, e[2], tables) : e \in es}

-----------------------------------------------------------------------------
\* Loads and stores.
LoadStoreRows == UNION {
    Row("Lda", All, {<<Imm, \hA9>>, <<Dp, \hA5>>, <<DpX, \hB5>>, <<Abs, \hAD>>,
        <<AbsX, \hBD>>, <<AbsY, \hB9>>, <<IndX, \hA1>>, <<IndY, \hB1>>}),
    Row("Ldx", All, {<<Imm, \hA2>>, <<Dp, \hA6>>, <<DpY, \hB6>>, <<Abs, \hAE>>,
        <<AbsY, \hBE>>}),
    Row("Ldy", All, {<<Imm, \hA0>>, <<Dp, \hA4>>, <<DpX, \hB4>>, <<Abs, \hAC>>,
        <<AbsX, \hBC>>}),
    Row("Sta", All, {<<Dp, \h85>>, <<DpX, \h95>>, <<Abs, \h8D>>, <<AbsX, \h9D>>,
        <<AbsY, \h99>>, <<IndX, \h81>>, <<IndY, \h91>>}),
    Row("Stx", All, {<<Dp, \h86>>, <<DpY, \h96>>, <<Abs, \h8E>>}),
    Row("Sty", All, {<<Dp, \h84>>, <<DpX, \h94>>, <<Abs, \h8C>>}),
    Each(Ind, Cmos, {<<"Lda", \hB2>>, <<"Sta", \h92>>})}

\* Register transfers and the stack.
TransferStackRows == UNION {
    Each(Imp, All, {<<"Tax", \hAA>>, <<"Tay", \hA8>>, <<"Txa", \h8A>>, <<"Tya", \h98>>,
        <<"Tsx", \hBA>>, <<"Txs", \h9A>>}),
    Each(Stk, All, {<<"Pha", \h48>>, <<"Php", \h08>>, <<"Pla", \h68>>, <<"Plp", \h28>>})}

\* AND, EOR, ORA and BIT.
LogicRows == UNION {
    Row("And", All, {<<Imm, \h29>>, <<Dp, \h25>>, <<DpX, \h35>>, <<Abs, \h2D>>,
        <<AbsX, \h3D>>, <<AbsY, \h39>>, <<IndX, \h21>>, <<IndY, \h31>>}),
    Row("Eor", All, {<<Imm, \h49>>, <<Dp, \h45>>, <<DpX, \h55>>, <<Abs, \h4D>>,
        <<AbsX, \h5D>>, <<AbsY, \h59>>, <<IndX, \h41>>, <<IndY, \h51>>}),
    Row("Ora", All, {<<Imm, \h09>>, <<Dp, \h05>>, <<DpX, \h15>>, <<Abs, \h0D>>,
        <<AbsX, \h1D>>, <<AbsY, \h19>>, <<IndX, \h01>>, <<IndY, \h11>>}),
    Row("Bit", All, {<<Dp, \h24>>, <<Abs, \h2C>>}),
    Row("Bit", Cmos, {<<Imm, \h89>>, <<DpX, \h34>>, <<AbsX, \h3C>>}),
    Each(Ind, Cmos, {<<"And", \h32>>, <<"Eor", \h52>>, <<"Ora", \h12>>})}

\* ADC, SBC and the comparisons.
ArithmeticRows == UNION {
    Row("Adc", All, {<<Imm, \h69>>, <<Dp, \h65>>, <<DpX, \h75>>, <<Abs, \h6D>>,
        <<AbsX, \h7D>>, <<AbsY, \h79>>, <<IndX, \h61>>, <<IndY, \h71>>}),
    Row("Sbc", All, {<<Imm, \hE9>>, <<Dp, \hE5>>, <<DpX, \hF5>>, <<Abs, \hED>>,
        <<AbsX, \hFD>>, <<AbsY, \hF9>>, <<IndX, \hE1>>, <<IndY, \hF1>>}),
    Row("Cmp", All, {<<Imm, \hC9>>, <<Dp, \hC5>>, <<DpX, \hD5>>, <<Abs, \hCD>>,
        <<AbsX, \hDD>>, <<AbsY, \hD9>>, <<IndX, \hC1>>, <<IndY, \hD1>>}),
    Row("Cpx", All, {<<Imm, \hE0>>, <<Dp, \hE4>>, <<Abs, \hEC>>}),
    Row("Cpy", All, {<<Imm, \hC0>>, <<Dp, \hC4>>, <<Abs, \hCC>>}),
    Each(Ind, Cmos, {<<"Adc", \h72>>, <<"Sbc", \hF2>>, <<"Cmp", \hD2>>})}

\* Increments, decrements and shifts.
IncShiftRows == UNION {
    Row("Inc", All, {<<Dp, \hE6>>, <<DpX, \hF6>>, <<Abs, \hEE>>, <<AbsX, \hFE>>}),
    Row("Dec", All, {<<Dp, \hC6>>, <<DpX, \hD6>>, <<Abs, \hCE>>, <<AbsX, \hDE>>}),
    Row("Asl", All, {<<Imp, \h0A>>, <<Dp, \h06>>, <<DpX, \h16>>, <<Abs, \h0E>>,
        <<AbsX, \h1E>>}),
    Row("Lsr", All, {<<Imp, \h4A>>, <<Dp, \h46>>, <<DpX, \h56>>, <<Abs, \h4E>>,
        <<AbsX, \h5E>>}),
    Row("Rol", All, {<<Imp, \h2A>>, <<Dp, \h26>>, <<DpX, \h36>>, <<Abs, \h2E>>,
        <<AbsX, \h3E>>}),
    Row("Ror", All, {<<Imp, \h6A>>, <<Dp, \h66>>, <<DpX, \h76>>, <<Abs, \h6E>>,
        <<AbsX, \h7E>>}),
    Each(Imp, Cmos, {<<"Inc", \h1A>>, <<"Dec", \h3A>>}),
    Each(Imp, All, {<<"Inx", \hE8>>, <<"Iny", \hC8>>, <<"Dex", \hCA>>, <<"Dey", \h88>>})}

\* Jumps, branches, flag operations and interrupts.
ControlFlowRows == UNION {
    Row("Jmp", All, {<<JmpAbs, \h4C>>, <<JmpInd, \h6C>>}),
    Each(JmpAbsX, Cmos, {<<"Jmp", \h7C>>}),
    Each(ToSub, All, {<<"Jsr", \h20>>}),
    Each(FromSub, All, {<<"Rts", \h60>>}),
    Each(Rel, All, {<<"Bcc", \h90>>, <<"Bcs", \hB0>>, <<"Beq", \hF0>>, <<"Bmi", \h30>>,
        <<"Bne", \hD0>>, <<"Bpl", \h10>>, <<"Bvc", \h50>>, <<"Bvs", \h70>>}),
    Each(Imp, All, {<<"Clc", \h18>>, <<"Cld", \hD8>>, <<"Cli", \h58>>, <<"Clv", \hB8>>,
        <<"Sec", \h38>>, <<"Sed", \hF8>>, <<"Sei", \h78>>}),
    Each(BrkMode, All, {<<"Brk", \h00>>}),
    Each(FromInt, All, {<<"Rti", \h40>>})}

\* NOP, the NMOS no-ops with operands and the CMOS no-ops.
NopRows == UNION {
    Repeat("Nop", All, Imp, {\hEA}),
    Repeat("Nop", All, Dp, {\h44}),
    Repeat("Nop", All, DpX, {\h54, \hD4, \hF4}),
    Repeat("Nop", {"Nmos"}, Imp, {\h1A, \h3A, \h5A, \h7A, \hDA, \hFA}),
    Repeat("Nop", {"Nmos"}, Imm, {\h80, \h82, \h89, \hC2, \hE2}),
    Repeat("Nop", {"Nmos"}, Dp, {\h04, \h64}),
    Repeat("Nop", {"Nmos"}, DpX, {\h14, \h34, \h74}),
    Repeat("Nop", {"Nmos"}, Abs, {\h0C}),
    Repeat("Nop", {"Nmos"}, AbsX, {\h1C, \h3C, \h5C, \h7C, \hDC, \hFC}),
    Repeat("Nop", Cmos, NopMode(1, 1), {\h03, \h13, \h23, \h33, \h43, \h53, \h63, \h73, \h83,
        \h93, \hA3, \hB3, \hC3, \hD3, \hE3, \hF3, \h0B, \h1B, \h2B, \h3B, \h4B, \h5B, \h6B,
        \h7B, \h8B, \h9B, \hAB, \hBB, \hEB, \hFB}),
    Repeat("Nop", Cmos, NopMode(2, 2), {\h02, \h22, \h42, \h62, \h82, \hC2, \hE2}),
    Repeat("Nop", Cmos, NopMode(3, 4), {\hDC, \hFC}),
    Row("Nop", {"Synertek", "Rockwell"}, {<<NopMode(3, 4), \h5C>>, <<Imp, \hCB>>,
        <<DpX, \hDB>>}),
    Repeat("Nop", {"Synertek"}, Dp, {\h07, \h27, \h47, \h67, \h87, \hA7, \hC7, \hE7}),
    Repeat("Nop", {"Synertek"}, NopMode(3, 3), {\h0F, \h2F, \h4F, \h6F, \h8F, \hAF, \hCF,
        \hEF}),
    Repeat("Nop", {"Synertek"}, DpX, {\h17, \h37, \h57, \h77, \h97, \hB7, \hD7, \hF7}),
    Repeat("Nop", {"Synertek"}, NopMode(3, 4), {\h1F, \h3F, \h5F, \h7F, \h9F, \hBF, \hDF,
        \hFF}),
    Each(NopMode(3, 8), {"Wdc65c02"}, {<<"Nop", \h5C>>})}

\* NMOS illegal opcodes, ALR to LXA.
IllegalRows1 == UNION {
    Row("Anc", {"Nmos"}, {<<Imm, \h0B>>, <<Imm, \h2B>>}),
    Row("Dcp", {"Nmos"}, {<<Dp, \hC7>>, <<DpX, \hD7>>, <<Abs, \hCF>>, <<AbsX, \hDF>>,
        <<AbsY, \hDB>>, <<IndX, \hC3>>, <<IndY, \hD3>>}),
    Row("Isc", {"Nmos"}, {<<Dp, \hE7>>, <<DpX, \hF7>>, <<Abs, \hEF>>, <<AbsX, \hFF>>,
        <<AbsY, \hFB>>, <<IndX, \hE3>>, <<IndY, \hF3>>}),
    Row("Lax", {"Nmos"}, {<<Dp, \hA7>>, <<DpY, \hB7>>, <<Abs, \hAF>>, <<AbsY, \hBF>>,
        <<IndX, \hA3>>, <<IndY, \hB3>>}),
    Each(Imm, {"Nmos"}, {<<"Alr", \h4B>>, <<"Ane", \h8B>>, <<"Arr", \h6B>>, <<"Lxa", \hAB>>}),
    Each(AbsY, {"Nmos"}, {<<"Las", \hBB>>})}

\* NMOS illegal opcodes, RLA to JAM.
IllegalRows2 == UNION {
    Row("Rla", {"Nmos"}, {<<Dp, \h27>>, <<DpX, \h37>>, <<Abs, \h2F>>, <<AbsX, \h3F>>,
        <<AbsY, \h3B>>, <<IndX, \h23>>, <<IndY, \h33>>}),
    Row("Rra", {"Nmos"}, {<<Dp, \h67>>, <<DpX, \h77>>, <<Abs, \h6F>>, <<AbsX, \h7F>>,
        <<AbsY, \h7B>>, <<IndX, \h63>>, <<IndY, \h73>>}),
    Row("Sax", {"Nmos"}, {<<Dp, \h87>>, <<DpY, \h97>>, <<Abs, \h8F>>, <<IndX, \h83>>}),
    Row("Sha", {"Nmos"}, {<<AbsY, \h9F>>, <<IndY, \h93>>}),
    Row("Slo", {"Nmos"}, {<<Dp, \h07>>, <<DpX, \h17>>, <<Abs, \h0F>>, <<AbsX, \h1F>>,
        <<AbsY, \h1B>>, <<IndX, \h03>>, <<IndY, \h13>>}),
    Row("Sre", {"Nmos"}, {<<Dp, \h47>>, <<DpX, \h57>>, <<Abs, \h4F>>, <<AbsX, \h5F>>,
        <<AbsY, \h5B>>, <<IndX, \h43>>, <<IndY, \h53>>}),
    Repeat("Jam", {"Nmos"}, JamMode, {\h02, \h12, \h22, \h32, \h42, \h52, \h62, \h72, \h92,
        \hB2, \hD2, \hF2}),
    Each(Imm, {"Nmos"}, {<<"Sbx", \hCB>>, <<"Usbc", \hEB>>}),
    Each(AbsY, {"Nmos"}, {<<"Shx", \h9E>>, <<"Tas", \h9B>>}),
    Each(AbsX, {"Nmos"}, {<<"Shy", \h9C>>})}

\* Instructions the 65C02 added.
CmosRows == UNION {
    Row("Stz", Cmos, {<<Dp, \h64>>, <<DpX, \h74>>, <<Abs, \h9C>>, <<AbsX, \h9E>>}),
    Row("Trb", Cmos, {<<Dp, \h14>>, <<Abs, \h1C>>}),
    Row("Tsb", Cmos, {<<Dp, \h04>>, <<Abs, \h0C>>}),
    Each(Rel, Cmos, {<<"Bra", \h80>>}),
    Each(Stk, Cmos, {<<"Phx", \hDA>>, <<"Phy", \h5A>>, <<"Plx", \hFA>>, <<"Ply", \h7A>>}),
    Each(Imp, {"Wdc65c02"}, {<<"Stp", \hDB>>, <<"Wai", \hCB>>})}

\* Rockwell bit branches and bit operations.
BitRows == UNION {
    Each(DpRel, {"Rockwell", "Wdc65c02"}, {<<"Bbr0", \h0F>>, <<"Bbr1", \h1F>>,
        <<"Bbr2", \h2F>>, <<"Bbr3", \h3F>>, <<"Bbr4", \h4F>>, <<"Bbr5", \h5F>>,
        <<"Bbr6", \h6F>>, <<"Bbr7", \h7F>>, <<"Bbs0", \h8F>>, <<"Bbs1", \h9F>>,
        <<"Bbs2", \hAF>>, <<"Bbs3", \hBF>>, <<"Bbs4", \hCF>>, <<"Bbs5", \hDF>>,
        <<"Bbs6", \hEF>>, <<"Bbs7", \hFF>>}),
    Each(Dp, {"Rockwell", "Wdc65c02"}, {<<"Rmb0", \h07>>, <<"Rmb1", \h17>>, <<"Rmb2", \h27>>,
        <<"Rmb3", \h37>>, <<"Rmb4", \h47>>, <<"Rmb5", \h57>>, <<"Rmb6", \h67>>,
        <<"Rmb7", \h77>>, <<"Smb0", \h87>>, <<"Smb1", \h97>>, <<"Smb2", \hA7>>,
        <<"Smb3", \hB7>>, <<"Smb4", \hC7>>, <<"Smb5", \hD7>>, <<"Smb6", \hE7>>,
        <<"Smb7", \hF7>>})}

Rows ==
    LoadStoreRows \cup TransferStackRows \cup LogicRows \cup ArithmeticRows
    \cup IncShiftRows \cup ControlFlowRows \cup NopRows \cup IllegalRows1
    \cup IllegalRows2 \cup CmosRows \cup BitRows

-----------------------------------------------------------------------------
(* From a row to an Instruction.                                           *)

BitMnemonics(stem) == {stem \o n : n \in {"0", "1", "2", "3", "4", "5", "6", "7"}}

\* action_for_mnemonic
WriteMnemonics ==
    {"Sta", "Stx", "Sty", "Stz", "Pha", "Php", "Phx", "Phy", "Sax", "Sha", "Tas", "Shy", "Shx"}
ModifyMnemonics ==
    {"Asl", "Lsr", "Rol", "Ror", "Inc", "Dec", "Tsb", "Trb", "Slo", "Rla", "Sre", "Rra",
     "Dcp", "Isc"} \cup BitMnemonics("Rmb") \cup BitMnemonics("Smb")
ActionForMnemonic(mnemonic) ==
    CASE mnemonic \in WriteMnemonics -> "Write"
      [] mnemonic \in ModifyMnemonics -> "ReadModifyWrite"
      [] OTHER -> "Read"

Mnemonics == {r.mnemonic : r \in Rows}

MakeInstruction(mnemonic, mode) ==
    [mnemonic |-> mnemonic, address_mode |-> mode,
     memory_action |-> ActionForMnemonic(mnemonic)]

Opcodes == 0..255

\* Mutant: the filters of the entries are ignored.
TableRowsUnfiltered(table) == Rows

\* The table opcode_tables::<table> as the set of its rows
TableRows(table) == {r \in Rows : table \in r.tables}

\* OpcodeTable::decode.  Opcodes without an entry keep make_empty_table's value.
DecodeOpcode(rows, opcode) ==
    LET entries == {r \in rows : r.opcode = opcode}
    IN  IF entries = {}
        THEN MakeInstruction("Undefined", Imp)
        ELSE LET r == CHOOSE e \in entries : TRUE IN MakeInstruction(r.mnemonic, r.mode)
=============================================================================
