------------------------------ MODULE SimpleBus ------------------------------
(***************************************************************************)
(* SimpleBus (src/bus/simple.rs): one array of bytes, addresses taken      *)
(* modulo its size, and the lines as the host last set them.  The array    *)
(* starts out zeroed: `ram` has the bytes stored since, all others are 0.  *)
(***************************************************************************)
EXTENDS Integers, SequencesExt

CONSTANT SIZE   \* 0x10000; the array's top 6 bytes are the three vectors
ASSUME SizeAssumption == SIZE \in Nat /\ SIZE > 6

VARIABLES
    ram,
    lines   \* [irq, nmi, rdy]

busVars == << ram, lines >>

NoLines == [irq |-> FALSE, nmi |-> FALSE, rdy |-> TRUE]   \* Lines::none()

Fetch(addr) == IF addr % SIZE \in DOMAIN ram THEN ram[addr % SIZE] ELSE 0
Put(cells, at, byte) ==
    [cell \in {at} \cup DOMAIN cells |-> IF cell = at THEN byte ELSE cells[cell]]
Store(addr, byte) == ram' = Put(ram, addr % SIZE, byte)

Zeroed == << >>   \* new()

\* load(), which with_program() calls on a new bus: what it makes of the array
Loaded(cells, origin, bytes) ==
    FoldLeftDomain(LAMBDA acc, i : Put(acc, (origin + i - 1) % SIZE, bytes[i]), cells, bytes)

\* write_vector(), by set_nmi_vector, set_reset_vector and set_irq_vector: a word so many
\* bytes from the top
WithVector(cells, offset, lo, hi) ==
    Put(Put(cells, SIZE - offset + 1, hi), SIZE - offset, lo)

\* The host changes the lines through lines_mut().
SetLines(new) == lines' = new /\ UNCHANGED ram
=============================================================================
