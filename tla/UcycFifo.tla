------------------------------ MODULE UcycFifo ------------------------------
(***************************************************************************)
(* The micro-op queue as its callers see it: a tape (UcycTape) that they   *)
(* push to, pop from and wind back, with no array and no indices.          *)
(***************************************************************************)
EXTENDS UcycTape

CONSTANTS Op,        \* the micro-ops
          MAX_UCYC   \* how many a tape may hold, executed and pending

VARIABLE tape

FifoInit == tape = EmptyTape

FifoClear == tape' = EmptyTape
FifoPush(op) == Slots(tape) < MAX_UCYC /\ tape' = Push(tape, op)
FifoPop == ~IsEmpty(tape) /\ tape' = Pop(tape)
FifoInsert(op) == tape.done # << >> /\ tape' = Insert(tape, op)
FifoDecHead == tape.done # << >> /\ tape' = DecHead(tape)

FifoNext ==
    \/ FifoClear
    \/ \E op \in Op : FifoPush(op)
    \/ FifoPop
    \/ \E op \in Op : FifoInsert(op)
    \/ FifoDecHead

FifoSpec == FifoInit /\ [][FifoNext]_tape
=============================================================================
