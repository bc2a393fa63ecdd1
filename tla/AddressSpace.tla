---------------------------- MODULE AddressSpace ----------------------------
(***************************************************************************)
(* What a memory map promises, without pages, masks or pointers: each      *)
(* address is a cell that can be written, one that cannot, or nobody's;    *)
(* an access beyond the top is one at the address modulo the size of the   *)
(* space; where nobody answers, the last byte moved is read again.  Each   *)
(* call is recorded, so that a step of the map is one at a known address.  *)
(***************************************************************************)
EXTENDS Integers

CONSTANTS
    Size,        \* the size of the address space
    Block,       \* how many addresses are mapped together
    Cells,       \* cells[slice][offset] names a byte of the host's memory
    Addresses,   \* the addresses the callers pass, also beyond the top
    Bytes

VARIABLES
    view,     \* address -> [kind, slice, offset]
    cells,    \* slice -> offset -> byte
    driven,   \* the byte last moved
    call      \* the call last made, with the address as its caller passed it

spaceVars == << view, cells, driven, call >>

Nobody == [kind |-> "Open", slice |-> "none", offset |-> 0]

MapInit ==
    /\ view = [a \in 0..(Size - 1) |-> Nobody]
    /\ cells \in Cells
    /\ driven = 0
    /\ call = << "new" >>

\* Where in the space an address is, and whether another place is mapped together with it
Place(addr) == addr % Size
SameBlock(addr, b) == b \div Block = Place(addr) \div Block

\* The block of an address gets the bytes of a slice, in order.
MapBlock(addr, kind, slice) ==
    /\ call' = << "map", addr, kind, slice >>
    /\ view' = [b \in DOMAIN view |->
                   IF SameBlock(addr, b)
                   THEN [kind |-> kind, slice |-> slice, offset |-> b % Block] ELSE view[b]]
    /\ UNCHANGED << cells, driven >>
UnmapBlock(addr) ==
    /\ call' = << "unmap", addr >>
    /\ view' = [b \in DOMAIN view |-> IF SameBlock(addr, b) THEN Nobody ELSE view[b]]
    /\ UNCHANGED << cells, driven >>

ReadAt(addr) ==
    /\ call' = << "read", addr >>
    /\ LET at == view[Place(addr)]
       IN  driven' = IF at = Nobody THEN driven ELSE cells[at.slice][at.offset]
    /\ UNCHANGED << view, cells >>
WriteAt(addr, byte) ==
    /\ call' = << "write", addr >>
    /\ LET at == view[Place(addr)]
       IN  cells' = IF at.kind = "Ram" THEN [cells EXCEPT ![at.slice][at.offset] = byte] ELSE cells
    /\ driven' = byte
    /\ UNCHANGED view

HostDrives(byte) == call' = << "drive" >> /\ driven' = byte /\ UNCHANGED << view, cells >>
\* The host fills a slice of its own.
HostFills(slice) ==
    /\ call' = << "fill", slice >>
    /\ \E new \in Cells : cells' = [cells EXCEPT ![slice] = new[slice]]
    /\ UNCHANGED << view, driven >>

MapNext ==
    \/ \E addr \in Addresses :
          \/ \E kind \in {"Ram", "Rom"}, slice \in DOMAIN cells : MapBlock(addr, kind, slice)
          \/ UnmapBlock(addr)
          \/ ReadAt(addr)
          \/ \E byte \in Bytes : WriteAt(addr, byte)
    \/ \E byte \in Bytes : HostDrives(byte)
    \/ \E slice \in DOMAIN cells : HostFills(slice)
MapSpec == MapInit /\ [][MapNext]_spaceVars
=============================================================================
