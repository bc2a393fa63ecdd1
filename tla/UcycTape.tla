------------------------------ MODULE UcycTape ------------------------------
(***************************************************************************)
(* What UcycQueue (src/isa/microop.rs) is to its callers: a tape of        *)
(* micro-ops with a read position.  `done` holds the ops executed since    *)
(* the tape was last cleared, `todo` the ops still to be executed.  The    *)
(* array, its head and its length are in module UcycQueue, which is shown  *)
(* to implement these operators.                                           *)
(***************************************************************************)
EXTENDS Sequences, SequencesExt, Integers

Tape(Op) == [done : Seq(Op), todo : Seq(Op)]

\* clear(): both the executed and the pending ops are forgotten.
EmptyTape == [done |-> << >>, todo |-> << >>]

IsEmpty(tape) == tape.todo = << >>

\* The slots of the array in use: executed and pending ops both occupy one.
Slots(tape) == Len(tape.done) + Len(tape.todo)

PushAll(tape, ops) == [tape EXCEPT !.todo = @ \o ops]

Push(tape, op) == PushAll(tape, << op >>)

FrontOp(tape) == Head(tape.todo)

\* pop(): executing the last pending op clears the whole tape.
Pop(tape) ==
    IF Len(tape.todo) = 1
    THEN EmptyTape
    ELSE [done |-> Append(tape.done, Head(tape.todo)), todo |-> Tail(tape.todo)]

\* insert(): the new op takes the place of the op executed last.
Insert(tape, op) ==
    [done |-> Front(tape.done), todo |-> << op >> \o tape.todo]

\* dec_head(): the op executed last is to be executed again.
DecHead(tape) ==
    [done |-> Front(tape.done), todo |-> << Last(tape.done) >> \o tape.todo]
=============================================================================
