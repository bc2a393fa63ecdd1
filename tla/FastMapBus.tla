----------------------------- MODULE FastMapBus -----------------------------
(***************************************************************************)
(* FastMapBus (src/bus/fastmap.rs): a table of pages, each a raw pointer   *)
(* into a slice of the host.  The slices, and whether they still exist,    *)
(* are the host's state: once a call to map_* has returned, nothing ties   *)
(* the bus to them.  Sizes are powers of two in the code, which masks and  *)
(* shifts; here they are any sizes, and it takes moduli and divides.       *)
(***************************************************************************)
EXTENDS Integers, TLC

CONSTANTS
    PAGE_SIZE, num_pages,
    DebugAssertions,  \* whether the build has them
    Addrs,            \* the addresses the callers pass: u32
    Slices, Lengths,  \* the host's slices, and how long they may be
    Byte,
    LineNames         \* the lines modelled

ASSUME PageAssumption == PAGE_SIZE \in Nat \ {0} /\ num_pages \in Nat \ {0}
ASSUME HostAssumption ==
    /\ Addrs \subseteq Nat /\ 0 \in Byte /\ Lengths \subseteq Nat
    /\ DebugAssertions \in BOOLEAN

VARIABLES
    pages,    \* page index -> [kind, ptr]
    open,     \* OpenBus: the byte last driven
    lines,    \* the lines that are high
    memory,   \* host: the bytes of its slices
    alive,    \* host: the slices that still exist
    placed,   \* host: what it mapped, by the first address of the page
    call      \* history: the call last made, with the address as its caller passed it

fastVars == << pages, open, lines, memory, alive, placed, call >>

ADDRESSES == PAGE_SIZE * num_pages   \* 1 << ADDR_BITS
InRange(addr) == addr < ADDRESSES
\* Mutant: an address beyond the top is kept from overrunning the table by a clamp.
page_index_clamped(addr) ==
    IF addr < ADDRESSES THEN addr \div PAGE_SIZE ELSE num_pages - 1
page_index(addr) == (addr % ADDRESSES) \div PAGE_SIZE
off(addr) == addr % PAGE_SIZE

Indices == 0..(num_pages - 1)
OpenPage == [kind |-> "Open", ptr |-> "null"]
PageAt(addr) == pages[page_index(addr)]
Mapped(page) == page.kind \in {"Ram", "Rom"}
NoneHigh == {"rdy", "be"} \cap LineNames   \* Lines::none()

\* new()
FastInit ==
    /\ pages = [i \in Indices |-> OpenPage]
    /\ open = 0
    /\ lines = NoneHigh
    /\ memory \in UNION {[Slices -> [0..(length - 1) -> Byte]] : length \in Lengths}
    /\ alive = Slices
    /\ placed = << >>
    /\ call = << "new" >>

-----------------------------------------------------------------------------
(* Mapping.  The length is asserted in debug builds only.                  *)

WholePage(slice) == DOMAIN memory[slice] = 0..(PAGE_SIZE - 1)
\* map_ram_page_idx and map_rom_page_idx
MapPageIdx(idx, kind, slice) ==
    /\ DebugAssertions => WholePage(slice)
    /\ pages' = [pages EXCEPT ![idx] = [kind |-> kind, ptr |-> slice]]

\* Mutant: the first page is unmapped, whichever was asked for.
MapOpenFirstPage(idx) == pages' = [pages EXCEPT ![0] = OpenPage]
MapOpenPageIdx(idx) == pages' = [pages EXCEPT ![idx] = OpenPage]

\* The host keeps account of what it mapped where; it maps slices that exist.
FirstOfPage(addr) == (addr % ADDRESSES) - ((addr % ADDRESSES) % PAGE_SIZE)
Account(addr, slice) ==
    /\ slice \in alive
    /\ placed' = [a \in DOMAIN placed \cup {FirstOfPage(addr)} |->
                     IF a = FirstOfPage(addr) THEN slice ELSE placed[a]]
    /\ UNCHANGED << open, lines, memory, alive >>
Strike(addr) ==
    /\ placed' = [a \in DOMAIN placed \ {FirstOfPage(addr)} |-> placed[a]]
    /\ UNCHANGED << open, lines, memory, alive >>

\* map_ram_page_at, map_rom_page_at and map_open_page_at; the calls by index are those
\* with the first address of a page.
MapPageAt(addr, kind, slice) ==
    /\ MapPageIdx(page_index(addr), kind, slice)
    /\ Account(addr, slice)
    /\ call' = << "map", addr, kind, slice >>
MapOpenPageAt(addr) ==
    /\ MapOpenPageIdx(page_index(addr))
    /\ Strike(addr)
    /\ call' = << "unmap", addr >>

-----------------------------------------------------------------------------
(* The core's accesses.  A failed assertion is a panic: there is no step.  *)

Answers(addr) == DebugAssertions => InRange(addr)
Valid(page, o) == page.ptr \in alive /\ o \in DOMAIN memory[page.ptr]

\* A read beyond the slice, or of one that is gone, may give any byte; a write there may
\* hit any byte of the host.
Read(addr) ==
    LET page == PageAt(addr)
    IN  /\ Answers(addr)
        /\ open' \in IF ~Mapped(page) THEN {open}
                     ELSE IF Valid(page, off(addr)) THEN {memory[page.ptr][off(addr)]} ELSE Byte
        /\ call' = << "read", addr >>
        /\ UNCHANGED << pages, lines, memory, alive, placed >>

Writable(page) == page.kind = "Ram"

Write(addr, data) ==
    LET page == PageAt(addr)
        hit(slice, o) == [memory EXCEPT ![slice][o] = data]
    IN  /\ Answers(addr)
        /\ memory' \in
              IF ~Writable(page) THEN {memory}
              ELSE IF Valid(page, off(addr)) THEN {hit(page.ptr, off(addr))}
              ELSE {memory} \cup UNION {{hit(s, o) : o \in DOMAIN memory[s]} : s \in Slices}
        /\ open' = data
        /\ call' = << "write", addr >>
        /\ UNCHANGED << pages, lines, alive, placed >>

-----------------------------------------------------------------------------
(* What else the host does.                                                *)

DriveOpenBus(value) ==
    /\ open' = value
    /\ call' = << "drive" >>
    /\ UNCHANGED << pages, lines, memory, alive, placed >>
\* set_lines; set_irq, set_nmi, set_abort, set_rdy and set_be change one line.
SetHostLines(new) == lines' = new /\ UNCHANGED << pages, open, memory, alive, placed, call >>
SetLine(name, v) == SetHostLines(IF v THEN lines \cup {name} ELSE lines \ {name})

Fill(slice) ==
    /\ slice \in alive
    /\ \E bytes \in [DOMAIN memory[slice] -> Byte] : memory' = [memory EXCEPT ![slice] = bytes]
    /\ call' = << "fill", slice >>
    /\ UNCHANGED << pages, open, lines, alive, placed >>
\* A host that keeps what it mapped, by its own account
Drop(slice) ==
    /\ slice \in alive
    /\ \A a \in DOMAIN placed : placed[a] # slice
    /\ alive' = alive \ {slice}
    /\ UNCHANGED << pages, open, lines, memory, placed, call >>

FastNext ==
    \/ \E addr \in Addrs, kind \in {"Ram", "Rom"}, slice \in Slices : MapPageAt(addr, kind, slice)
    \/ \E addr \in Addrs : MapOpenPageAt(addr)
    \/ \E addr \in Addrs : Read(addr)
    \/ \E addr \in Addrs, data \in Byte : Write(addr, data)
    \/ \E value \in Byte : DriveOpenBus(value)
    \/ \E name \in LineNames, v \in BOOLEAN : SetLine(name, v)
    \/ \E new \in SUBSET LineNames : SetHostLines(new)
    \/ \E slice \in Slices : Fill(slice) \/ Drop(slice)
FastSpec == FastInit /\ [][FastNext]_fastVars

-----------------------------------------------------------------------------

\* A mapped page is a slice the host still has, and the whole of it is one page, so that
\* the unchecked pointer of an access stays inside: for a host that drops a slice only
\* after it has unmapped or replaced every page it mapped it at, by any of the addresses
\* that name the page.
MappedPagesExist ==
    \A i \in Indices : Mapped(pages[i]) => pages[i].ptr \in alive /\ WholePage(pages[i].ptr)

\* The table of pages stands for the address space: its pages in their order, whichever of
\* them the bus takes an address to.
Cell(page, a) ==
    IF Mapped(page) THEN [kind |-> page.kind, slice |-> page.ptr, offset |-> a % PAGE_SIZE]
    ELSE [kind |-> "Open", slice |-> "none", offset |-> 0]
View == [a \in 0..(ADDRESSES - 1) |-> Cell(pages[a \div PAGE_SIZE], a)]
Space == INSTANCE AddressSpace WITH
    Size <- ADDRESSES, Block <- PAGE_SIZE, Addresses <- Addrs,
    Cells <- [Slices -> [0..(PAGE_SIZE - 1) -> Byte]], Bytes <- Byte,
    cells <- memory, driven <- open, view <- View

\* Whatever was mapped over, mirrored, mapped twice or mapped as ROM and RAM at once: an
\* access at an address reaches the cell that the mapping last made of that address put
\* there, beyond the top of the space the one at the address modulo its size, for the
\* address the caller of the mapping or the access passed; a write changes that cell if it is
\* RAM and nothing else, and an open read repeats the last byte moved.
ImplementsAddressSpace == Space!MapSpec
=============================================================================
