------------------------------- MODULE Decoder -------------------------------
(***************************************************************************)
(* What prepare_instruction decodes, for every flavor and every opcode,    *)
(* and the places that look at the opcode byte or the mnemonic again later:*)
(* execute_next (src/isa/op.rs) tests opcode bytes, and alu_prepare_store, *)
(* alu_modify and alu_branch (src/cpu6502/mod.rs) match on the mnemonic    *)
(* with a default arm that does nothing.  Nothing in the code keeps these  *)
(* in step with the tables.                                                *)
(***************************************************************************)
EXTENDS OpcodeTables

CONSTANT Flavors
ASSUME FlavorsAssumption == Flavors \subseteq FlavorType

VARIABLES
    F,               \* the flavor the core is instantiated with
    current_opcode,  \* the byte fetched last
    current_inst     \* what it was decoded to

vars == << F, current_opcode, current_inst >>

Prepared(opcode) == DecodeOpcode(TableRows(F.OPCODE_TABLE), opcode)

\* After the first opcode fetch, of any byte.
Init ==
    /\ F \in Flavors
    /\ current_opcode \in Opcodes
    /\ current_inst = Prepared(current_opcode)

PrepareInstruction(opcode) ==
    /\ current_opcode' = opcode
    /\ current_inst' = Prepared(opcode)
    /\ UNCHANGED F

Next == \E opcode \in Opcodes : PrepareInstruction(opcode)

Spec == Init /\ [][Next]_vars

-----------------------------------------------------------------------------
(* The opcode bytes and mnemonics other parts of the code rely on.         *)

LowNibble(opcode) == opcode % 16
HighNibble(opcode) == opcode \div 16

\* bit_index_rmb, bit_index_smb, branch_bit_info: -1 is None.
BitIndexRmb(opcode) ==
    IF LowNibble(opcode) = 7 /\ HighNibble(opcode) < 8 THEN HighNibble(opcode) ELSE -1
BitIndexSmb(opcode) ==
    IF LowNibble(opcode) = 7 /\ HighNibble(opcode) > 7 THEN HighNibble(opcode) - 8 ELSE -1
BranchBitInfo(opcode) ==
    IF LowNibble(opcode) # 15 THEN << -1, FALSE >>
    ELSE << HighNibble(opcode) % 8, HighNibble(opcode) \div 8 > 0 >>

\* The mnemonics with an arm of their own.
\* Mutant: PHY has no arm.
StoreArmsWithoutPhy ==
    {"Sta", "Pha", "Stx", "Phx", "Sty", "Stz", "Php", "Sax", "Sha", "Tas", "Shy", "Shx"}
StoreArms ==
    {"Sta", "Pha", "Stx", "Phx", "Sty", "Phy", "Stz", "Php", "Sax", "Sha", "Tas", "Shy", "Shx"}
ModifyArms ==
    {"Asl", "Lsr", "Rol", "Ror", "Inc", "Dec", "Tsb", "Trb", "Slo", "Rla", "Sre", "Rra",
     "Dcp", "Isc"}
BranchArms == {"Bcc", "Bcs", "Beq", "Bne", "Bmi", "Bpl", "Bvc", "Bvs", "Bra"}

\* is_incdec_abs_x, the `& 0x0F == 0x0F` of AluOp::Branch and the 0x7C of AluOp::FixPtr
\* Mutant: the test matches DEC abs instead of DEC abs,X.
IsIncDecAbsXOffByARow(opcode) == opcode \in {\hCE, \hFE}
IsIncDecAbsX(opcode) == opcode \in {\hDE, \hFE}
IsBitBranch(opcode) == LowNibble(opcode) = 15

-----------------------------------------------------------------------------

\* decode() reads a table with an unchecked index on the ground that "each opcode
\* table contains entries for all 256 opcodes" (table.rs): every opcode has exactly
\* one entry, so none decodes to Undefined and none overwrites another.
OneEntryPerOpcode ==
    Cardinality({r \in TableRows(F.OPCODE_TABLE) : r.opcode = current_opcode}) = 1

\* No opcode of an 8-bit table reaches a todo!(), an unreachable!() or the
\* debug_assert of emit_stack, and the interrupt entry of start_interrupt, which
\* decodes opcode 0, gets a BRK.
NoMissingEmitter ==
    /\ Emittable(F, current_inst.address_mode, current_inst.memory_action)
    /\ DecodeOpcode(TableRows(F.OPCODE_TABLE), 0) = MakeInstruction("Brk", BrkMode)
    /\ current_inst.address_mode.kind = "CmosNop" =>
          << current_inst.address_mode.bytes, current_inst.address_mode.cycles >> \in NopShapes

\* The store, modify and branch arms cover what the tables can decode: no
\* instruction falls into a default arm that silently does nothing, and the bit
\* number an opcode byte gives is the one in its mnemonic.
NoSilentDefaultArm ==
    LET m == current_inst.mnemonic
        digit(n) == << "0", "1", "2", "3", "4", "5", "6", "7" >>[n + 1]
    IN  /\ current_inst.memory_action = "Write" => m \in StoreArms
        /\ current_inst.memory_action = "ReadModifyWrite" /\ m \notin ModifyArms =>
              \/ /\ BitIndexRmb(current_opcode) # -1
                 /\ m = "Rmb" \o digit(BitIndexRmb(current_opcode))
              \/ /\ BitIndexSmb(current_opcode) # -1
                 /\ m = "Smb" \o digit(BitIndexSmb(current_opcode))
        /\ current_inst.address_mode.kind = "Relative" => m \in BranchArms
        /\ current_inst.address_mode.kind = "DpRelative" =>
              LET info == BranchBitInfo(current_opcode)
              IN  m = (IF info[2] THEN "Bbs" ELSE "Bbr") \o digit(info[1])

\* The opcode bytes tested in execute_next are the instructions they are meant for:
\* 0xDE and 0xFE are exactly DEC and INC abs,X among the read-modify-writes that
\* index an absolute address, and a branch opcode ends in 0xF exactly when it is a
\* bit branch.  The other facts of the tables that the control relies on are ControlFacts; the
\* facts about what an instruction changes and computes are StackFacts, ColumnFacts and
\* MatrixFacts.
OpcodeBytesMeanWhatTheyTest ==
    LET mode == current_inst.address_mode
    IN  /\ mode = AbsX /\ current_inst.memory_action = "ReadModifyWrite" =>
              (IsIncDecAbsX(current_opcode) <=> current_inst.mnemonic \in {"Inc", "Dec"})
        /\ mode.kind \in {"Relative", "DpRelative"} =>
              (IsBitBranch(current_opcode) <=> mode.kind = "DpRelative")
        /\ ControlFacts(F, current_opcode, current_inst)
        /\ StackFacts(current_inst)
        /\ ColumnFacts(current_opcode, current_inst)
        /\ MatrixFacts(F, current_opcode, current_inst)
=============================================================================
