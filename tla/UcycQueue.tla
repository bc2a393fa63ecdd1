------------------------------ MODULE UcycQueue ------------------------------
(***************************************************************************)
(* UcycQueue (src/isa/microop.rs): an array that is never cleared, the     *)
(* index of the next op to execute and the number of valid entries, both   *)
(* u8.  One action per method; the guards are the methods' debug_asserts   *)
(* and, for dec_head, the underflow check of its subtraction.              *)
(***************************************************************************)
EXTENDS Integers, Sequences

CONSTANTS Op,        \* the micro-ops
          Filler,    \* what Default fills the array with
          MAX_UCYC   \* the length of the array

ASSUME QueueAssumption == Filler \in Op /\ MAX_UCYC \in 1..255

VARIABLES buf, head, len

queueVars == << buf, head, len >>

Slot == 0..(MAX_UCYC - 1)

Init ==
    /\ buf = [s \in Slot |-> Filler]
    /\ head = 0
    /\ len = 0

Clear ==
    /\ head' = 0
    /\ len' = 0
    /\ UNCHANGED buf

PushUcyc(u) ==
    /\ len < MAX_UCYC
    /\ buf' = [buf EXCEPT ![len] = u]
    /\ len' = len + 1
    /\ UNCHANGED head

\* Mutant: popping the last op does not clear the queue.
PopUcycWithoutClear ==
    /\ head < len
    /\ head' = head + 1
    /\ UNCHANGED << buf, len >>

\* pop() of an empty queue returns None and changes nothing.
PopUcyc ==
    /\ head < len
    /\ IF head + 1 >= len
       THEN head' = 0 /\ len' = 0
       ELSE head' = head + 1 /\ len' = len
    /\ UNCHANGED buf

\* Mutant: the head is moved after the op was written.
InsertUcycTooLate(new) ==
    /\ head > 0
    /\ head < len
    /\ buf' = [buf EXCEPT ![head] = new]
    /\ head' = head - 1
    /\ UNCHANGED len

InsertUcyc(new) ==
    /\ head > 0
    /\ head' = head - 1
    /\ buf' = [buf EXCEPT ![head - 1] = new]
    /\ UNCHANGED len

DecHeadUcyc ==
    /\ head > 0
    /\ head' = head - 1
    /\ UNCHANGED << buf, len >>

Next ==
    \/ Clear
    \/ \E u \in Op : PushUcyc(u)
    \/ PopUcyc
    \/ \E u \in Op : InsertUcyc(u)
    \/ DecHeadUcyc

Spec == Init /\ [][Next]_queueVars

-----------------------------------------------------------------------------

QueueTypeOK ==
    /\ buf \in [Slot -> Op]
    /\ head \in 0..MAX_UCYC
    /\ len \in 0..MAX_UCYC

\* The unchecked accesses stay inside the array, and a queue with nothing left to execute
\* is a cleared one: is_empty() (head == len) and front() (head >= len) never disagree, and
\* the next push starts at slot 0 again.
IndicesInBounds ==
    /\ head <= len
    /\ head = len => len = 0

\* The tape the array stands for
Stored(b, from, to) == [n \in 1..(to - from) |-> b[from + n - 1]]
Tape == [done |-> Stored(buf, 0, head), todo |-> Stored(buf, head, len)]

Fifo == INSTANCE UcycFifo WITH tape <- Tape

\* Whatever the order of calls, the array, whose old entries are never erased, behaves as
\* the tape of its callers.
ImplementsFifo == Fifo!FifoSpec
=============================================================================
