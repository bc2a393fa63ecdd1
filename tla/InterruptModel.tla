--------------------------- MODULE InterruptModel ---------------------------
(***************************************************************************)
(* What the core promises about interrupts, at the grain of instructions   *)
(* and without micro-ops: when the NMI latch and the I flag change, which  *)
(* mask the poll at the end of an instruction uses, and what is run next.  *)
(* CpuControl is shown to implement it.                                    *)
(*                                                                         *)
(* The program is a sequence of instructions of four kinds: "delayed"      *)
(* (CLI, SEI, PLP: the poll still uses the I flag they replace), "return"  *)
(* (RTI: the poll uses the I flag it pulled), "break" (BRK) and "plain",   *)
(* which leaves I alone.  The entries "irq" and "nmi" are run like them.   *)
(***************************************************************************)
EXTENDS Naturals

VARIABLES
    phase,        \* "idle" after power-on or reset, "busy", or "done": at the poll
    kind,         \* what is being run
    i,            \* the I flag
    mask,         \* whether the poll masks IRQ
    prev_nmi,     \* the NMI line when last sampled
    pending_nmi   \* the NMI latch

ivars == << phase, kind, i, mask, prev_nmi, pending_nmi >>

Programs == {"plain", "delayed", "return", "break"}

IInit ==
    /\ phase = "idle" /\ kind = "plain"
    /\ i = TRUE /\ mask = TRUE
    /\ prev_nmi = FALSE /\ pending_nmi = FALSE

\* Every step samples the NMI line; `taken` says that it also takes the NMI.
Sample(nmi, taken) ==
    /\ prev_nmi' = nmi
    /\ pending_nmi' = ((pending_nmi \/ (nmi /\ ~prev_nmi)) /\ ~taken)

Latched(nmi) == pending_nmi \/ (nmi /\ ~prev_nmi)

\* Wait states and cycles at the boundary that come before the poll.
Wait == \E nmi \in BOOLEAN : Sample(nmi, FALSE) /\ UNCHANGED << phase, kind, i, mask >>

\* The next instruction starts; one-cycle no-ops are done at once.
Begin(k) ==
    /\ kind' = k
    /\ phase' \in (IF k = "plain" THEN {"busy", "done"} ELSE {"busy"})
    /\ UNCHANGED i
    /\ mask' = i

FirstInstruction ==
    /\ phase = "idle"
    /\ \E nmi \in BOOLEAN, k \in Programs : Sample(nmi, FALSE) /\ Begin(k)

\* A cycle in the middle; RTI pulls the status before its last cycle.
Work ==
    /\ phase = "busy"
    /\ \E nmi \in BOOLEAN : Sample(nmi, FALSE)
    /\ IF kind = "return" THEN i' \in BOOLEAN ELSE UNCHANGED i
    /\ mask' = i'
    /\ UNCHANGED << phase, kind >>

\* The last cycle: the instruction's effect on I, and the mask of the poll.
Finish ==
    /\ phase = "busy"
    /\ \E nmi \in BOOLEAN : Sample(nmi, FALSE)
    /\ phase' = "done"
    /\ CASE kind = "delayed" -> i' \in BOOLEAN /\ mask' = i
         [] kind \in {"break", "irq", "nmi"} -> i' = TRUE /\ mask' = TRUE
         [] OTHER -> i' = i /\ mask' = i
    /\ UNCHANGED kind

\* The poll: NMI before IRQ, IRQ unless masked, otherwise the next instruction.
PollNmi ==
    /\ phase = "done"
    /\ \E nmi \in BOOLEAN : Latched(nmi) /\ Sample(nmi, TRUE)
    /\ Begin("nmi")

PollIrq ==
    /\ phase = "done"
    /\ ~mask
    /\ \E nmi \in BOOLEAN : ~Latched(nmi) /\ Sample(nmi, FALSE)
    /\ Begin("irq")

PollNext ==
    /\ phase = "done"
    /\ \E nmi \in BOOLEAN : ~Latched(nmi) /\ Sample(nmi, FALSE)
    /\ \E k \in Programs : Begin(k)

\* reset() masks IRQ; the NMI latch survives it.
IReset ==
    /\ phase' = "idle" /\ kind' = "plain"
    /\ i' = TRUE /\ mask' = TRUE
    /\ UNCHANGED << prev_nmi, pending_nmi >>

INext ==
    \/ Wait \/ FirstInstruction \/ Work \/ Finish
    \/ PollNmi \/ PollIrq \/ PollNext \/ IReset

ISpec == IInit /\ [][INext]_ivars
=============================================================================
