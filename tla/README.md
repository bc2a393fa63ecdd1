# A TLA+ model of rs65x

rs65x is a cycle-stepped emulator of the 8-bit members of the 65x family: the NMOS 6502, the
NES 2A03/2A07 and the Synertek, Rockwell and WDC 65C02. A host owns a bus and calls `step()`
once per clock cycle; every call does exactly one bus access, or none when RDY stalls it.
This directory models the machine that decides *what that access is*: the opcode tables, the
microcode, the micro-op queue, the control of `step()` with its interrupts, wait states and
resets, the registers, latches and arithmetic, and the two buses it runs on. Paths below are relative to the crate (`src/src/...` in `PROJECT.json` is `src/...` here).

## Inventory

| Component | State | Operations | Interacts with | What makes it correct |
|---|---|---|---|---|
| Micro-op queue, `isa/microop.rs` `UcycQueue` | array of 14 ops, `head`, `len` (u8) | `push`, `pop`, `front`, `insert`, `dec_head`, `clear` | filled by the emitters and by taken branches, emptied by `execute_next`, looked at by `next_cycle_read` | the unchecked accesses stay inside the array; no op of an earlier instruction is ever executed |
| Microcode, `isa/microop.rs`, `isa/mod.rs`, `cpu6502/flavor.rs` | none | `emit_*`, `emit_ucycs` | called on every opcode fetch and interrupt entry | each addressing mode gets the bus cycles of the real chip; no `todo!()` is reachable |
| Opcode tables, `isa/table.rs` | five static tables of 256 | `decode` (unchecked index) | `prepare_instruction`, `start_interrupt` | total, unambiguous, and consistent with the opcode bytes and mnemonics tested elsewhere |
| Control of `Cpu6502`, `cpu6502/mod.rs`, `isa/op.rs` | queue, `current_inst`, `current_opcode`, I and D of `p`, `old_i`, `extra_adc_sbc_cycle`, `prev_nmi`, `pending_nmi` | `new`, `step`, `reset` | one bus call per step, `sample_lines` before it | cycle counts, interrupt rules, RDY rules, every instruction's effects exactly once |
| Data path of `Cpu6502` | `a x y s p pc`, latches EA, PTR, Op0, data latch | `execute_next`, `finish_read`, `finish_implied`, `alu_*` | the bus gets its addresses and data | operands, jumps and stack at the addresses the manual says, at the ends of pages and memory too; results and flags, and nothing else changed |
| ALU, `alu.rs` | none | `adc`, `sbc`, shifts, `tsb`, `trb` | `finish_read`, `finish_implied`, `alu_modify` | binary and BCD arithmetic per flavor, also on operands that are not BCD |
| `FastMapBus`, `bus/fastmap.rs` | page table of raw pointers, open-bus value, lines | map/unmap, `read`, `write` | implements `Bus`; points into slices of the host | every address hits the cell mapped there last; ROM is not written; open reads repeat the last byte; no pointer outlives its slice |
| `SimpleBus`, `bus/simple.rs` | 64 KiB array, lines | `load`, vectors, `read`, `write` | implements `Bus` | addresses wrap; what is loaded reads back |
| Test harness, `tests/` | archive or directory | `open`, `load`, the runners | drives the core cycle by cycle | one source per suite, no fallback after an error |

There are no threads (the test run looks for files that others may change). What makes the code hard is the *order of calls*: three asynchronous lines
sampled at every cycle, a host that may reset between any two cycles, and an instruction spread over
up to nine calls whose state lives in a queue that is consumed, cut short, extended and wound back
while it runs. `PROJECT.json` lists the hazards at their lines.

## Modules

    UcycFifo ─extends─ UcycTape ◄── CpuControl ──► Microcode ◄── OpcodeTables ◄── Decoder
       ▲                              │     ▲           ▲
       │ implements        implements │     │           │
    UcycQueue                         ▼     │           │
                           InterruptModel   │     Instructions ──► Alu ──► Bytes
                                            │           ▲           ▲
                                            └─ Datapath ┘      Accumulator
                                               ▲      ▲
                                     SingleStep        System ──► SimpleBus

    FastMapBus ─implements─► AddressSpace           TestData

An arrow is EXTENDS unless it says otherwise; each MC module extends the module it checks, and
OpcodeTables.

* **UcycTape**: operators. The queue as its callers see it, a tape `[done, todo]`: what was executed
  since the last clear, and what is to be executed. Executed ops still occupy slots, and `dec_head` and
  `insert` reach back to the last of them.
* **UcycQueue**: the array with `head` and `len` (`buf`, `head`, `len`), one action per method; the
  guards are the methods' `debug_assert`s and, for `dec_head`, that the subtraction does not underflow.
  It implements **UcycFifo**, the tape with the same operations.
* **Microcode**: latches, micro-ops, the flavors' associated constants and every emitter, each the
  sequence it pushes. A micro-op is its bus cycle, `inc_src`, `local_latch` and ALU operation, as in the
  code. `Latch::Constant(c)` is the vector address c, the only constants used. `SetPc`'s argument is a
  value the model does not compute and is 0.
* **OpcodeTables**: all rows of the four 8-bit tables with their filters, `action_for_mnemonic`, and the
  decoder. Rows of the Wdc816 table alone are left out: no flavor selects it.
* **Decoder**: the state is what `prepare_instruction` last decoded, for any flavor and opcode. Its
  invariants relate the tables to the places that look at opcode bytes and mnemonics again.
* **CpuControl**: the core. One action per path through `step()`:

  | Action | Path |
  |---|---|
  | `Stall` | RDY low and the next cycle is a read: only the NMI latch is updated |
  | `FirstFetch` | no current instruction: fetch and prepare |
  | `Execute` | pop and execute one micro-op; if the queue is empty afterwards, apply the instruction's effects |
  | `DecimalCycle` | boundary: the extra cycle of a CMOS decimal ADC or SBC |
  | `ServiceNmi`, `ServiceIrq` | boundary: start an interrupt entry, whose first micro-op runs in the same step |
  | `FetchNext` | boundary: fetch and prepare the next opcode |
  | `Reset` | `reset()`, between any two steps |

  Each variable is a field of `Cpu6502` (`ucycs`, `current_inst`, ...); `bus` is the last bus call and
  `run` is a history variable, read by properties only: who started the current instruction, its cycles,
  PC increments, net SP change, writes, and how often its effects were applied.
  Data is abstract here: an operand, a register or a memory byte does not exist. What control depends on is
  chosen freely instead: whether an index or branch crosses a page, whether a branch is taken, the I and D
  flags PLP and RTI pull, and the next opcode. So the model has every control path the code has for
  *some* data. The two crossings `FixPtr` and `OffsetWithExtraCycle` test are both called `crossed`.
* **InterruptModel**: the interrupt rules at the grain of instructions, without micro-ops: when the NMI
  latch and I change, which mask the poll at the end of an instruction uses, what is run next.
* **Bytes**, **Alu**: words are numbers, their bits sets of positions; the status register is the set of its
  flags. `Alu` is `alu.rs`, one operator per function, for both operand widths (`Digits` hexadecimal digits):
  value, flags and the mask of the flags replaced. The loops over the two or four digits are written out.
* **Accumulator**: an accumulator under ADC, SBC and the flag instructions, with the reference definitions:
  integers, signed and unsigned, decimal numbers, and the chips' published whole-byte formulas for operands that are not decimal.
* **Instructions**: `finish_read`, `finish_implied`, `alu_prepare_store`, `alu_modify` and `alu_branch`, as
  functions from registers to registers. A group of `match` arms is one disjunct.
* **Datapath**: CpuControl with its data. Each action is CpuControl's, conjoined with what it does to `core`
  (the registers and the latches of `MicroExecutor`) and `access` (the access on the bus). `ExecuteData` follows
  `execute_next` in its order: prepare the byte to store, offset the low byte (`BeforeAccess`), access,
  write or read a latch, increment (`AfterAccess`), operate (`AluEffect`), apply the instruction's effects if the
  queue is empty (`Retire`). It *computes* what CpuControl chooses (`Crosses`, `Taken`, `Pulled`), so every behaviour
  of Datapath is one of CpuControl by construction. `entry` and `log` are history: the core when the instruction
  started, and its accesses. Addresses are numbers; the u32 $FFFFFFFF, which `pc.wrapping_sub(1)` makes, is -1.
  The bus is a parameter: `answer[latch][address]`, the bytes a read may get.
* **SingleStep**: one instruction from any registers, as `run_opcode` of the single-step tests runs it, on a bus that answers
  with any byte of a small set. Its properties say what the instruction should have done, in terms of the
  programming manual: from its bytes, the registers at its start and what its accesses transferred, never
  from micro-ops or latches.
* **SimpleBus**: the array with wrapping addresses, and the host's lines. `load` and the vectors are functions on the array, which
  `MCSystem` makes its memory with.
* **System**: the core on a SimpleBus with a program in it. The host raises and lowers lines and resets between any two steps, and
  a device holds IRQ until the program writes to its port (`CpuStep` lowers it). `frames` is history: the core at each call
  and interrupt under way.
* **AddressSpace**: what a memory map promises, address by address; an address beyond the top is one modulo the size. Each call is recorded in `call`, with the
  address its caller passed, in both specifications: a step of the bus must be the step of the map at that address. `View` reads the table
  page by page in their order, not through `page_index`. **FastMapBus**: the page table with its masks, modes
  and raw pointers. The host's slices, their contents and whether they still exist are variables, as are debug assertions a constant;
  an access through a pointer that is no longer valid may read or hit anything.
* **TestData**: `TestData::open_in` and `load` and `run_suite` around them, one file-system call per step, while
  the files change. `steady` is history: the places that have not changed since the run began.
* **MC...**: values for the constants, and the programs System runs (`MCSystem`).
* **UcycQueue_proofs**, **FastMapBus_proofs**, **TestData_proofs**, **Accumulator_proofs**: the theorems about one module each. Those about the core build on each
  other: **CpuControl_proofs** (types, queue, what the emitters push), **CpuHistory_proofs** (what an
  instruction amounts to, its timing, interrupts), **Datapath_proofs** (types of the registers, System on its bus), then **SingleStep_proofs** (what
  instructions compute and change).

## Model-checking runs

| Run | Question | Result |
|---|---|---|
| `decoder` | 5 flavors × 256 opcodes: one table row per opcode, an emitter for each, an arm for each store, modify and branch mnemonic, opcode bytes mean what they test, and the table facts the proofs assume (`ControlFacts`, `StackFacts`, `ColumnFacts`, `MatrixFacts`) | holds |
| `ucyc_queue` | any order of queue calls, 4 slots, 2 ops: bounds, and refinement of UcycFifo | holds |
| `nmos_control` | every interleaving of instructions, IRQ, NMI, RDY and resets on the NMOS 6502: queue safety, footprint, return addresses, NMI, nesting, RDY, JAM | holds |
| `wdc_contract` | exact cycle counts and refinement of InterruptModel on the WDC 65C02, for a host that resets cleanly; a latched NMI is taken and an instruction ends, for a fair one | holds |
| `reset_old_i` | "mask IRQ" (`mod.rs:91`): no IRQ with I set, for a host that resets at any time | violated |
| `reset_extra_cycle` | "CMOS adds another cycle on ADC and SBC" (`mod.rs:378`), for a host that resets at any time | violated |
| `alu` | ADC and SBC in four semantics: integers in binary mode, decimal numbers in decimal mode, the chips' formulas on any bytes | holds |
| `nmos_step` | one instruction of the NMOS 6502: operand, jump and branch addresses and the stack at the ends of pages and of memory; the undocumented stores; the undocumented opcodes are compositions of documented ones; the register's I and D are CpuControl's | holds |
| `wdc_step` | one instruction of the WDC 65C02: addresses, also of the bit branches, no invalid reads; what a read-modify-write writes back, what A becomes, what must not change | holds |
| `system` | core, bus and program: every return restores its own caller, and the stack keeps every frame, under IRQ, NMI, RDY and resets at any cycle; a device whose IRQ is enabled only between CLI and SEI is served; the program comes round its loop | holds |
| `fast_map` | FastMapBus implements AddressSpace, access by access, at addresses beyond the top too; mapped pages stay valid | holds |
| `test_data` | one source for all opcodes of a run; the first place that is there decides whether it passes, also when a later place would do better | holds |

Each property is checked on the flavor on which more can go wrong with it: JAM, the undocumented opcodes and the page bug of JMP are NMOS; the decimal
cycle, the bit branches and the reads that replace invalid ones are CMOS. The theorems below hold for every flavor.

**Findings.** `reset()` clears neither `old_i` nor `extra_adc_sbc_cycle`. A reset in the one cycle between
the end of a CLI, SEI or PLP and its poll makes the first poll of the reset program use the stale mask: an
IRQ is taken with I set. A reset right after the extra cycle of a decimal ADC or SBC cancels the extra cycle
of an ADC or SBC that is the first instruction after it. `CleanSpec` is the specification with a host that
does not reset in these cycles (`CleanReset`), and there both rules hold (the first as part of `InterruptContract`): the two omissions are
the only ways to break them.

**Seen while modelling**, and in the model as the code has it, but without a run of their own:

* The extra decimal cycle reads data with `vda = false, vpa = true`, which the documentation of `Bus` keeps for instruction
  fetches (`bus/mod.rs:38`).
* Indexed addresses are not taken modulo $10000: LDA $FFFF,X reads $100FE, which a FastMapBus<16, _> with debug assertions refuses
  (`bus/fastmap.rs:196`). A CMOS store indexed over the end of memory makes its dummy read at $FFFFFFFF (`op.rs:157`). JMP ($FFFF) on CMOS
  overflows the u16 pointer (`op.rs:278`), a panic where overflows are checked. `AddressesExact` and `NoInvalidRead` show that a bus that takes addresses
  modulo $10000, as both buses do in release builds, and an addition that wraps, give the right operand and target in all three cases.
* The length check of `map_ram_page_idx` ("`slice` is bounds-checked to exactly one page", `bus/fastmap.rs:100`) is made by debug builds only.

**Bounds.** The control runs have no bound on the length of a behaviour: all variables are finite. Program:
any opcode may follow any other. `MCControl` takes one opcode of each *class*: opcodes with the same
addressing mode and memory action, that agree on the opcode bytes `execute_next` tests and are not told apart
by a mnemonic CpuControl looks at. CpuControl reads nothing else of an opcode, so a class has one
behaviour. `Lines` is all eight values of irq, nmi, rdy, chosen anew in each step. `MaxCycles = 9` only stops the
cycle count of a JAM: no other instruction takes more than eight, so `run.cycles` is exact wherever a
property reads it. NMOS6502 and WDC65C02 stand for the five flavors: NES differs from NMOS6502 in
`DECIMAL`, which control reads only to look for `Cmos65C02`, and the Synertek and Rockwell tables give classes the WDC
table has, but for Synertek's three-byte three-cycle no-op. `ucyc_queue` uses 4 slots: enough for a queue partly executed,
wound back, refilled and full; the theorems cover every length.

`alu` covers all pairs of bytes; the model has 16-bit operands, too, but no core uses them. The step runs have two kinds of cases. Those
for the addresses take one opcode of each addressing mode, action and stack operation, all address bytes and index registers at
the ends of a page, and instructions in page 0, over the middle of memory and over its end. Those for the effects take all 256 opcodes,
with operands and registers at the ends of digits and signs, six settings of the flags, and one address. NMOS6502 and WDC65C02 stand for the flavors here,
too; the Ricoh's arithmetic is in `alu`.
In `system` the program is a short loop that calls, modifies memory, does decimal arithmetic and is interrupted by handlers that push; `MaxEvents = 2` bounds the
interrupts and resets of one behaviour, not its length: one can come in the handler of the other. Its first part is
loaded round the top of the memory. `fast_map` has two pages of two bytes, two slices
and addresses up to twice the top: aliases, mirrors and a slice mapped twice. In `test_data`, `MaxChanges = 2` files change:
one place can appear and the next vanish.

**Fairness.** `FairSpec` assumes weak fairness of a step with RDY high, and that the resets end. The hosts in
`tests/tests/func.rs` justify it: they reset once and then call `step()` in a loop, with
`Lines::none()`, whose `rdy` is true. A host that holds RDY low for ever stops the core, as on the real
chip; that is why the fairness is of steps with RDY high and not of all steps. Nothing is assumed of irq and nmi. `FairSystem` says the same of System, with a host that releases RDY again
(WF), and steps the core while RDY is high again and again whenever RDY is high again and again; `MaxEvents` ends its resets. The device
keeps IRQ until it is written to, and the bound on NMIs matters: without it, a host could keep the program in
its NMI handler.

**Timing.** `ExpectedCycles` is written from the 6502's published instruction timing, not from the
emitters. Interrupt entries take 6 calls here, one fewer than the seven cycles of the chip: the boundary
step that would discard the fetched opcode is already the first micro-op of the entry. WAI and STP decode to
implied no-ops, as in the code (the repository lists their behaviour as a TODO).

## Theorems

The theorems of the core are proved for every flavor record (`FlavorAssumption`), every set of lines, and every opcode table whose entries
are emittable (`DecodeAssumption`) and agree with the mnemonics and opcode bytes tested outside the table (`TableAssumption`: BRK alone has BRK's addressing mode,
CLI and SEI are implied, PLP pulls, the opcodes tested for INC and DEC absolute,X are those, and so on; the list is `ControlFacts` in Microcode; `StackFacts`, `ColumnFacts` and `MatrixFacts`, which the theorems of SingleStep_proofs need, add that RTI and the four pushes are what their addressing modes say, which row of the opcode matrix ORA, AND and the others of column 1 are in, and that each read-modify-write and each undocumented opcode of column 3 is the one of its row). The `decoder` run checks these facts of each of the
256 entries of each of the five flavors, so the theorems hold of all five. The queue's hold for every array length up to 255. The
assumptions are evaluated by TLC in the runs.

* `QueueIndices`, `QueueImplementsFifo` (UcycQueue_proofs). Type and index invariant together are inductive;
  the refinement maps each method to the tape operation of the same name. The work is in lemmas about
  `Stored(buf, from, to)`: what one write or one index step does to the two halves of the tape.
* `StateTypes`, `QueueStaysSafe` (CpuControl_proofs). The types alone are not inductive: a pop or a
  rewind keeps the queue short only if the queue was an emission of one instruction partly executed.
  The invariant `IInv` therefore says that the tape is `TapeOK`: at most 7 slots, of which the pending ones
  *fit*: each op is executable, a branch op is the last one, and a JAM op never is. `EmitWell` shows it of every emitter
  once, `AfterAluOK` that executing an op keeps it. `SourceInv` ties `run.source` to the
  instruction: an entry runs BRK, saves no old I and ends with I set.
* `NmiEdgesKept`, `IrqNeverNests`, `JamNeedsReset`, `RdyStallsReadsOnly` (CpuControl_proofs). Action
  properties, one lemma over the disjuncts of `Next` each. Nesting follows from `SourceInv` (at the end
  of an entry I is set and old_i is none); the JAM from `RewindOK` (rewinding after a pop that was not the last
  gives the same tape back).

* `PointersStayValid`, `TableImplementsMap` (FastMapBus_proofs), for every page size, number of pages, set of slices and
  set of addresses, of hosts that pass whole pages (`WholePages`: what the debug assertion of `map_ram_page_idx` checks and a
  release build relies on). The table says nothing of who owns a slice, so `MappedPagesExist` is not inductive: `AccountInv`
  relates each mapped page to the host's account, which goes by first addresses. That the two agree is
  arithmetic (`Division`, `OffsetSurvives`, `AddressParts`: the mask, the shift and the offset of one address name one page and
  one cell of it). The refinement reads the table through `View`; `ViewReplaced` says that replacing one page replaces one block. The address of a step is in `call`,
  so the masks of an access have to agree with `Place`, the address modulo the size: `OffsetSurvives` and `CellOf`.

* `TypesKept`, `FootprintIsExact`, `ReturnAddressesAreExact`, `EntriesKeepTheirSource` (CpuHistory_proofs): `TypeOK` with the bounds on `run`, and
  the three action properties of `nmos_control` about what an instruction amounts to. The argument is one of conservation. Each micro-op has a
  *weight* for each of three things: how far it advances PC, how it moves SP, whether it writes. `HistoryInv` says that what the
  instruction under way has done plus the weight of what is left in its queue is what the instruction amounts to (`Conserved`); that
  its effects were applied once if the queue is empty and not before, or, for the one-cycle no-op, which has no ops, not at all (`RetiredOnce`); that its cycles so far and those left
  add up, given the crossings and branches so far (`OnTime`); and where in the queue the ops stand that decide how it goes on, and what is
  left behind each (`AllInPlace`: a push of PC has no PC increment behind it, and just the pushes and pulls behind it that the return address needs). The lemmas at the end of CpuControl_proofs show once, of each emitter
  and flavor, what it pushes weighs; a step moves weight from the queue to the history.
* `TimingIsExact`, `IrqIsMasked`, `CoreKeepsContract` (CpuHistory_proofs), for the hosts of `CleanSpec`, those that do not reset in the two cycles the findings
  are about. `CleanInv` is what those two resets break: `old_i` and `extra_adc_sbc_cycle` are set at a boundary only, and then belong to the
  instruction that has just ended. With `OnTime` it gives the cycle counts. The refinement of InterruptModel is proved action by action: a step inside an instruction maps to a sample of the NMI line,
  the one that ends it to the change of I, a boundary step to the poll with the mask `old_i` or I.
* `AluBinary`, `AluDecimal`, `AluOfTheChips` (Accumulator_proofs): the arithmetic of `alu.rs` for all operands, the first two for both word widths, the last for the bytes
  the published formulas are about. A word is the sum of its digits, and a digit loop is a composition of turns: the lemmas say what one turn makes of two
  digits and a carry, and the theorems put the turns together. The 65C02 corrects the binary difference
  afterwards instead; that comes to the same because the lower digits of the binary subtraction borrow exactly when the loop's do (`LoopBorrow`). The formulas work on
  halves: what carries from the low half into the high one, and what V and N see of it, is compared with the loop's second turn.
* `CasesHaveOneSource`, `TheFirstPlaceDecides` (TestData_proofs): `OneSource` needs that nothing is loaded, and no place chosen, while the places are being tried.
  How a run ends says nothing of how it got there, so `FirstPlaceDecides` is not inductive: `DecideInv` follows the place that decides, whose files and those before it
  nobody has touched (`FirstThere`), through the run (`Decided`): the search has not passed it; then it is the place chosen, its suite is the one open (`ChosenSuite`: the first root that has one), and all
  opcodes so far had cases in it. A change of any other file leaves what holds of it alone (`SameFile`). The one assumption is that the opcodes are a sequence (`RunAssumption`).
* `DatapathTypesKept` (Datapath_proofs): `DatapathTypeOK` of SingleStep for every flavor, table, start and bytes read. An 8-bit register never keeps a
  carry: `ReadKeeps` and its siblings go through the arms of the instructions, `ByteSteps`, `ByteDifference` and the bit lemmas through the ALU. The hard part is the effective address,
  a u32 to which indexed modes add without a mask. It stays below $10100 because an op that adds an index (`Indexes`), one that steps to the next byte (`Increments`) and
  one that puts the address together (`Builds`) come in one order in every queue (`InOrder`), and an index is added once. `DataInv` says
  so: the queue is `Ready` for the latches as they are, every `SetPc` has its target, and the I and D of the status register are CpuControl's `p`.
* `FootprintKept` (SingleStep_proofs): `Footprint` of SingleStep, for the same constants. `MayChange`, the manual's column of what an
  instruction changes, is written down apart from the code; the proof takes the code's way through every instruction and shows that nothing outside of it moves. `Within(c, d, may)` says that two cores differ
  in `may` only. `ReadWithin`, `ImpliedWithin`, `ModifyWithin` and `StoreWithin` show it of the four matches of `step()` and of the op that writes,
  arm by arm; `FootInv` carries it from the fetch to the boundary. What is not an effect are the moves of SP and the pulls: that an op moves SP only where the
  instruction pushes or pulls (`FrontStack`) comes from `HistoryInv`, that a pull into the status belongs to PLP or RTI from `StackFacts`. A pull keeps U set and B clear only
  because they were so: hence `StatusAssumption` on the start, and `EntryProper`.
* `AccumulatorColumnKept` (SingleStep_proofs): `AccumulatorColumn` of SingleStep, for the same constants. A queue of such an instruction is `Led`: ops that leave A
  alone, then the one access that latches the operand, stores A or fetches the immediate (`LastOp`). An indexed read is done one op early when its index does not carry, with the operand
  latched by the op that added the index (`ColumnQueue`). `ColInv` says that A is the old one while the queue lasts and that A and the flags are `Answered` when it is empty; that
  the effects answer to the byte is `ColumnEffect`, that the matrix row and the mnemonic agree `ColumnFacts`.
* `WritesBackKept` (SingleStep_proofs): `WritesBack` of SingleStep, for the same constants. The instructions it is about, and those of the next theorem, have a queue that
  is `Shaped`: what `finish_action` pushes stands at its end, the read of the operand, the modification with its dummy access, and the write; whatever
  stands before it leaves the registers alone and reads. `MatrixInv` follows the last three ops (`Modifying`): how many accesses were writes so far, which of them
  have the operand, and that the core is what `ModifyEffect` makes of the start and that operand. That this is what the manual's arithmetic says is
  a lemma about bytes: `BitsSplit` takes a byte apart at any of its bits, and `RowValue` and `ModifiedValue` go through the rows of the matrix, RMB and SMB.
* `UndocumentedCombineKept` (SingleStep_proofs): `UndocumentedCombine` of SingleStep, for the same constants. From `MatrixInv`, too: the operand meets the registers of the start, so
  that it is left to compare effects. The column-3 opcodes write in one match arm what two arms do in turn (`RowsAgree`): the second of the two sees the carry and the byte of the first,
  and DCP and ISC need not set the Z and N of the count, because the comparison or subtraction sets both again (`Overridden`). The immediates end in one read whose effect is taken at the boundary (`ReadFrom`).
* `SystemTypesKept`, `SystemIsControlled` (Datapath_proofs), for every program, set of host moves and number of events: the same of the core on its bus, whose memory goes on holding bytes; and
  **SystemSpec implements CpuControl's Spec**. What the registers and the memory compute - crossings, branches, pulled flags - are outcomes
  CpuControl allows, so each theorem about Spec (the queue, footprints, return addresses, entries, NMI, nesting, RDY) is one about the core running any program.

The assumptions of the theorems of Datapath_proofs and SingleStep_proofs say what the environment is: the start registers have the registers' widths (`EntriesAssumption`) and
a status as `new()`, PLP and RTI leave it (`StatusAssumption`), a core that corrects decimals the 65C02's way has the 65C02's microcode, as all of `flavor.rs` (`DecimalAssumption`), `StackFacts`, `ColumnFacts` and `MatrixFacts` hold of the table (`StackAssumption`, `ColumnAssumption`, `MatrixAssumption`), reads and
the program are bytes (`RecordedAssumption`, `ProgramAssumption`), and the lines are the runner's quiet ones
(`QuietAssumption`) or any (`BusLinesAssumption`).

**What stays with TLC.** The liveness properties (`NmiServed`, `InstructionsEnd`, `IrqServed`, `LoopGoesRound`): fairness and ENABLED are out of the prover's reach.
Decoder, whose five tables are finite and checked completely; they are also why `ControlFacts`, `StackFacts`, `ColumnFacts` and `MatrixFacts` are assumptions, not lemmas. `AddressesExact`, `StackExact`, `NoInvalidRead` and
`UnstableStoreExact` of SingleStep: they compare the address of every access of an instruction with the manual's, addressing mode by addressing mode, and all but `NoInvalidRead` select the writes
from the log with `SelectSeq`, which is recursive. `StackKeepsFrames` and
`ReturnsToCaller`, which depend on the program: one that moves SP, or writes to the stack, breaks them.

## Plan

1. Done: the queue, microcode, tables, control and interrupts, with the theorems above.
2. Done: registers, latches and addresses (Datapath, Instructions, SingleStep), the ALU, both buses, their composition (System) and the
   choice of the test data.
3. Proofs. Done: the queue, control, timing and contract, the ALU, `FastMapBus`, `TestData`, the types and the footprint of the data path, the accumulator's column, the read-modify-writes and the undocumented combinations, and System as an implementation of CpuControl.
   To do: `NoInvalidRead` of SingleStep, by an invariant on queues like `Shaped`.
4. Synertek, Rockwell and NES as flavors of the SingleStep runs.

## Not modelled

Logging, formatting and mnemonic names; the 65816 parts (the Wdc816 table, the emitters' default arms, banks: no core uses them);
WAI and STP beyond what the code does with them (nothing); latches no 8-bit emitter uses (`add_offset` and `write_latch` have arms for them);
the values of the `abort_` and `be` lines, which no core reads; the parsing of the test cases, and their comparison with recorded states, which
SingleStep's properties take the place of.
