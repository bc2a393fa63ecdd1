-------------------------- MODULE UcycQueue_proofs --------------------------
(***************************************************************************)
(* UcycQueue, proved for every array length and every set of micro-ops:    *)
(* its indices stay inside the array, and it implements the tape.          *)
(***************************************************************************)
EXTENDS UcycQueue, SequenceTheorems, TLAPS

Inv == QueueTypeOK /\ IndicesInBounds

LEMMA InitInv == Init => Inv
BY QueueAssumption, SMT DEF Init, Inv, QueueTypeOK, IndicesInBounds, Slot

LEMMA NextInv == Inv /\ [Next]_queueVars => Inv'
<1> SUFFICES ASSUME Inv, [Next]_queueVars PROVE Inv'
  OBVIOUS
<1> USE QueueAssumption DEF Inv, QueueTypeOK, IndicesInBounds, Slot
<1>1. CASE Clear
  BY <1>1 DEF Clear
<1>2. ASSUME NEW u \in Op, PushUcyc(u) PROVE Inv'
  BY <1>2 DEF PushUcyc
<1>3. CASE PopUcyc
  BY <1>3 DEF PopUcyc
<1>4. ASSUME NEW u \in Op, InsertUcyc(u) PROVE Inv'
  BY <1>4 DEF InsertUcyc
<1>5. CASE DecHeadUcyc
  BY <1>5 DEF DecHeadUcyc
<1>6. CASE UNCHANGED queueVars
  BY <1>6 DEF queueVars
<1>7. QED
  BY <1>1, <1>2, <1>3, <1>4, <1>5, <1>6 DEF Next

\* The array accesses of the queue are in bounds, whatever its callers do within the
\* debug_asserts.
THEOREM QueueIndices == Spec => [](QueueTypeOK /\ IndicesInBounds)
BY InitInv, NextInv, PTL DEF Spec, Inv

-----------------------------------------------------------------------------
(* Refinement.                                                             *)

\* The part of the array between two indices, as a sequence.
LEMMA StoredSeq ==
    ASSUME NEW b \in [Slot -> Op], NEW m \in 0..MAX_UCYC, NEW n \in 0..MAX_UCYC, m <= n
    PROVE  /\ Stored(b, m, n) \in Seq(Op)
           /\ Len(Stored(b, m, n)) = n - m
           /\ \A k \in 1..(n - m) : Stored(b, m, n)[k] = b[m + k - 1]
<1> USE QueueAssumption DEF Slot
<1>1. n - m \in Nat
  OBVIOUS
<1>2. Stored(b, m, n) \in [1..(n - m) -> Op]
  BY DEF Stored
<1>3. Stored(b, m, n) \in Seq(Op)
  BY <1>1, <1>2, SeqDef
<1>4. Len(Stored(b, m, n)) = n - m
  BY <1>1, <1>2, <1>3, LenProperties
<1>5. QED
  BY <1>3, <1>4 DEF Stored

\* A write outside the part read leaves it as it was.
LEMMA StoredUnchanged ==
    ASSUME NEW b, NEW c, NEW m \in 0..MAX_UCYC, NEW n \in 0..MAX_UCYC,
           \A k \in m..(n - 1) : c[k] = b[k]
    PROVE  Stored(c, m, n) = Stored(b, m, n)
<1>1. \A k \in 1..(n - m) : m + k - 1 \in m..(n - 1)
  BY QueueAssumption
<1>2. QED
  BY <1>1 DEF Stored

LEMMA EmptyStored == \A b, m : m \in 0..MAX_UCYC => Stored(b, m, m) = << >>
BY QueueAssumption DEF Stored

\* A part of the array grows by one at its end, and at its beginning.
LEMMA StoredLast ==
    ASSUME NEW b \in [Slot -> Op], NEW m \in 0..MAX_UCYC, NEW n \in Slot, m <= n
    PROVE  Stored(b, m, n + 1) = Append(Stored(b, m, n), b[n])
<1> DEFINE next == n + 1
           s == Stored(b, m, next)
           t == Stored(b, m, n)
<1>1. next \in 0..MAX_UCYC /\ n \in 0..MAX_UCYC /\ m <= next /\ next - m = n - m + 1
  BY QueueAssumption DEF Slot
<1>2. b[n] \in Op /\ n - m \in Nat
  BY QueueAssumption DEF Slot
<1> HIDE DEF next
<1>3. s \in Seq(Op) /\ Len(s) = next - m /\ \A k \in 1..(next - m) : s[k] = b[m + k - 1]
  BY <1>1, StoredSeq
<1>4. t \in Seq(Op) /\ Len(t) = n - m /\ \A k \in 1..(n - m) : t[k] = b[m + k - 1]
  BY <1>1, StoredSeq
<1> HIDE DEF s, t
<1>5. /\ Append(t, b[n]) \in Seq(Op)
      /\ Len(Append(t, b[n])) = n - m + 1
      /\ \A k \in 1..(n - m) : Append(t, b[n])[k] = t[k]
      /\ Append(t, b[n])[n - m + 1] = b[n]
  BY <1>2, <1>4, AppendProperties
<1>6. ASSUME NEW k \in 1..Len(s) PROVE s[k] = Append(t, b[n])[k]
  <2>1. k \in 1..(n - m) \/ k = n - m + 1
    BY <1>1, <1>2, <1>3
  <2>2. s[k] = b[m + k - 1]
    BY <1>3
  <2>3. CASE k \in 1..(n - m)
    BY <2>2, <2>3, <1>4, <1>5
  <2>4. CASE k = n - m + 1
    <3>1. m + k - 1 = n
      BY <2>4, QueueAssumption DEF Slot
    <3>2. QED
      BY <2>2, <2>4, <3>1, <1>5
  <2>5. QED
    BY <2>1, <2>3, <2>4
<1>7. s = Append(t, b[n])
  BY <1>1, <1>3, <1>5, <1>6, SeqEqual
<1>8. QED
  BY <1>7 DEF s, t, next

LEMMA StoredFirst ==
    ASSUME NEW b \in [Slot -> Op], NEW m \in Slot, NEW n \in 0..MAX_UCYC, m < n
    PROVE  /\ Stored(b, m, n) # << >>
           /\ Head(Stored(b, m, n)) = b[m]
           /\ Tail(Stored(b, m, n)) = Stored(b, m + 1, n)
           /\ Stored(b, m, n) = << b[m] >> \o Stored(b, m + 1, n)
<1> DEFINE next == m + 1
           s == Stored(b, m, n)
           t == Stored(b, next, n)
<1>1. m \in 0..MAX_UCYC /\ next \in 0..MAX_UCYC /\ next <= n /\ n - next = n - m - 1
  BY QueueAssumption DEF Slot
<1>2. b[m] \in Op /\ n - m \in Nat \ {0}
  BY QueueAssumption DEF Slot
<1> HIDE DEF next
<1>3. m <= n
  BY QueueAssumption DEF Slot
<1>4. s \in Seq(Op) /\ Len(s) = n - m /\ \A k \in 1..(n - m) : s[k] = b[m + k - 1]
  BY <1>1, <1>3, StoredSeq
<1>5. t \in Seq(Op) /\ Len(t) = n - next /\ \A k \in 1..(n - next) : t[k] = b[next + k - 1]
  BY <1>1, StoredSeq
<1>6. s[1] = b[m]
  <2>1. s[1] = b[m + 1 - 1]
    BY <1>2, <1>4
  <2>2. QED
    BY <2>1, QueueAssumption DEF Slot
<1>7. ASSUME NEW k \in 1..(n - m - 1) PROVE s[k + 1] = t[k]
  <2>1. k + 1 \in 1..(n - m) /\ m + (k + 1) - 1 = next + k - 1
    BY QueueAssumption DEF Slot, next
  <2>2. QED
    BY <2>1, <1>1, <1>4, <1>5
<1> HIDE DEF s, t
<1>8. s # << >>
  BY <1>2, <1>4
<1>9. Head(s) = b[m]
  BY <1>4, <1>6, <1>8
<1>10. Tail(s) = t
  <2>1. /\ Tail(s) \in Seq(Op)
        /\ Len(Tail(s)) = Len(s) - 1
        /\ \A k \in 1..Len(Tail(s)) : Tail(s)[k] = s[k + 1]
    BY <1>4, <1>8, HeadTailProperties
  <2>2. \A k \in 1..Len(t) : Tail(s)[k] = t[k]
    BY <1>1, <1>4, <1>5, <1>7, <2>1
  <2>3. QED
    BY <1>1, <1>4, <1>5, <2>1, <2>2, SeqEqual
<1>11. s = << b[m] >> \o t
  <2> DEFINE c == << b[m] >> \o t
  <2>1. /\ << b[m] >> \in Seq(Op)
        /\ Len(<< b[m] >>) = 1
        /\ << b[m] >>[1] = b[m]
    BY <1>2
  <2>2. /\ c \in Seq(Op)
        /\ Len(c) = n - m
        /\ \A k \in 1..Len(c) : c[k] = IF k <= 1 THEN << b[m] >>[k] ELSE t[k - 1]
    BY <1>1, <1>2, <1>5, <2>1, ConcatProperties
  <2> HIDE DEF c
  <2>3. ASSUME NEW k \in 1..Len(s) PROVE s[k] = c[k]
    <3>1. CASE k = 1
      BY <3>1, <1>2, <1>4, <1>6, <2>1, <2>2
    <3>2. CASE k # 1
      <4> DEFINE j == k - 1
      <4>1. j \in 1..(n - m - 1) /\ k = j + 1 /\ k \in 1..Len(c) /\ ~(k <= 1)
        BY <3>2, <1>2, <1>4, <2>2
      <4>2. s[j + 1] = t[j]
        BY <4>1, <1>7
      <4>3. QED
        BY <4>1, <4>2, <2>2
    <3>3. QED
      BY <3>1, <3>2
  <2>4. QED
    BY <1>4, <2>2, <2>3, SeqEqual DEF c
<1>12. QED
  BY <1>8, <1>9, <1>10, <1>11 DEF s, t, next

\* Taking the last element off, as insert and dec_head wind the tape back.
LEMMA FrontOfAppend ==
    ASSUME NEW S, NEW s \in Seq(S), NEW e \in S
    PROVE  Fifo!Front(Append(s, e)) = s /\ Fifo!Last(Append(s, e)) = e
<1> DEFINE a == Append(s, e)
<1>1. /\ a \in Seq(S)
      /\ Len(a) = Len(s) + 1
      /\ Len(s) \in Nat
      /\ \A k \in 1..Len(s) : a[k] = s[k]
      /\ a[Len(s) + 1] = e
  BY AppendProperties, LenProperties
<1>2. Fifo!Last(a) = e
  BY <1>1 DEF Fifo!Last
<1>3. Fifo!Front(a) = SubSeq(a, 1, Len(s))
  BY <1>1 DEF Fifo!Front
<1>4. \A k \in 1..Len(s) : a[k] \in S
  BY <1>1, ElementOfSeq
<1> HIDE DEF a
<1>5. SubSeq(a, 1, Len(s)) = s
  <2>1. /\ SubSeq(a, 1, Len(s)) \in Seq(S)
        /\ Len(SubSeq(a, 1, Len(s))) = IF 1 <= Len(s) THEN Len(s) - 1 + 1 ELSE 0
        /\ \A k \in 1..(Len(s) - 1 + 1) : SubSeq(a, 1, Len(s))[k] = a[1 + k - 1]
    BY <1>1, <1>4, SubSeqProperties
  <2>2. Len(SubSeq(a, 1, Len(s))) = Len(s)
    BY <1>1, <2>1
  <2>3. \A k \in 1..Len(s) : SubSeq(a, 1, Len(s))[k] = s[k]
    BY <1>1, <2>1
  <2>4. QED
    BY <2>1, <2>2, <2>3, SeqEqual
<1>6. QED
  BY <1>2, <1>3, <1>5 DEF a

\* The last executed op is the one below the head.
LEMMA DoneSplit ==
    ASSUME Inv, head > 0
    PROVE  /\ head - 1 \in Slot
           /\ Stored(buf, 0, head) = Append(Stored(buf, 0, head - 1), buf[head - 1])
           /\ Stored(buf, 0, head) # << >>
           /\ Fifo!Front(Stored(buf, 0, head)) = Stored(buf, 0, head - 1)
           /\ Fifo!Last(Stored(buf, 0, head)) = buf[head - 1]
<1> DEFINE h == head - 1
<1>1. /\ h \in Slot /\ h \in 0..MAX_UCYC /\ 0 \in 0..MAX_UCYC /\ 0 <= h
      /\ h + 1 = head /\ buf \in [Slot -> Op] /\ buf[h] \in Op
  BY QueueAssumption DEF Inv, QueueTypeOK, IndicesInBounds, Slot
<1> HIDE DEF h
<1>2. Stored(buf, 0, head) = Append(Stored(buf, 0, h), buf[h])
  <2>1. Stored(buf, 0, h + 1) = Append(Stored(buf, 0, h), buf[h])
    BY <1>1, StoredLast
  <2>2. QED
    BY <1>1, <2>1
<1>3. Stored(buf, 0, h) \in Seq(Op)
  BY <1>1, StoredSeq
<1>4. Append(Stored(buf, 0, h), buf[h]) # << >>
  BY <1>1, <1>3, AppendProperties
<1>5. /\ Fifo!Front(Append(Stored(buf, 0, h), buf[h])) = Stored(buf, 0, h)
      /\ Fifo!Last(Append(Stored(buf, 0, h), buf[h])) = buf[h]
  BY <1>1, <1>3, FrontOfAppend
<1>6. QED
  BY <1>1, <1>2, <1>4, <1>5 DEF h

LEMMA RefineInit == Init => Fifo!FifoInit
<1> SUFFICES ASSUME Init PROVE Tape = Fifo!EmptyTape
  BY DEF Fifo!FifoInit
<1>1. 0 \in 0..MAX_UCYC
  BY QueueAssumption
<1>2. QED
  BY <1>1, EmptyStored DEF Init, Tape, Fifo!EmptyTape

LEMMA RefineClear == Inv /\ Clear => Fifo!FifoClear
<1> SUFFICES ASSUME Inv, Clear PROVE Tape' = Fifo!EmptyTape
  BY DEF Fifo!FifoClear
<1>1. 0 \in 0..MAX_UCYC
  BY QueueAssumption
<1>2. QED
  BY <1>1, EmptyStored DEF Clear, Tape, Fifo!EmptyTape

LEMMA RefinePush == ASSUME Inv, NEW u \in Op, PushUcyc(u) PROVE Fifo!FifoPush(u)
<1>1. /\ head \in 0..MAX_UCYC /\ len \in Slot /\ len \in 0..MAX_UCYC /\ len + 1 \in 0..MAX_UCYC
      /\ 0 \in 0..MAX_UCYC /\ head <= len /\ head <= len + 1 /\ 0 <= head
      /\ buf \in [Slot -> Op] /\ head' = head /\ len' = len + 1 /\ len < MAX_UCYC
      /\ buf' \in [Slot -> Op] /\ buf'[len] = u
      /\ \A k \in 0..(head - 1) : buf'[k] = buf[k]
      /\ \A k \in head..(len - 1) : buf'[k] = buf[k]
  BY QueueAssumption DEF Inv, QueueTypeOK, IndicesInBounds, Slot, PushUcyc
<1>2. Stored(buf', 0, head) = Stored(buf, 0, head)
  BY <1>1, StoredUnchanged
<1>3. Stored(buf', head, len) = Stored(buf, head, len)
  BY <1>1, StoredUnchanged
<1>4. Stored(buf', head, len + 1) = Append(Stored(buf', head, len), u)
  BY <1>1, StoredLast
<1>5. Stored(buf, head, len) \in Seq(Op) /\ Len(Stored(buf, head, len)) = len - head
  BY <1>1, StoredSeq
<1>6. Append(Stored(buf, head, len), u) = Stored(buf, head, len) \o << u >>
  BY <1>5, AppendIsConcat
<1>7. Tape' = [done |-> Stored(buf, 0, head), todo |-> Stored(buf, head, len) \o << u >>]
  BY <1>1, <1>2, <1>3, <1>4, <1>6 DEF Tape
<1>8. Len(Stored(buf, 0, head)) = head
  <2>1. Len(Stored(buf, 0, head)) = head - 0
    BY <1>1, StoredSeq
  <2>2. QED
    BY <1>1, <2>1
<1>9. Fifo!Slots(Tape) < MAX_UCYC
  BY <1>1, <1>5, <1>8 DEF Tape, Fifo!Slots
<1>10. QED
  BY <1>7, <1>9 DEF Tape, Fifo!FifoPush, Fifo!Push, Fifo!PushAll

LEMMA RefinePop == ASSUME Inv, PopUcyc PROVE Fifo!FifoPop
<1>1. /\ head \in Slot /\ head \in 0..MAX_UCYC /\ head + 1 \in 0..MAX_UCYC /\ len \in 0..MAX_UCYC
      /\ 0 \in 0..MAX_UCYC /\ head < len /\ head <= len /\ 0 <= head
      /\ buf \in [Slot -> Op] /\ buf' = buf
  BY QueueAssumption DEF Inv, QueueTypeOK, IndicesInBounds, Slot, PopUcyc
<1>2. /\ Stored(buf, head, len) # << >>
      /\ Head(Stored(buf, head, len)) = buf[head]
      /\ Tail(Stored(buf, head, len)) = Stored(buf, head + 1, len)
  BY <1>1, StoredFirst
<1>3. Len(Stored(buf, head, len)) = len - head
  BY <1>1, StoredSeq
<1>4. Tape' = Fifo!Pop(Tape)
  <2>1. CASE head + 1 >= len
    <3>1. Len(Tape.todo) = 1
      <4>1. len - head = 1
        BY <1>1, <2>1
      <4>2. QED
        BY <4>1, <1>3 DEF Tape
    <3>2. Tape' = Fifo!EmptyTape
      BY <1>1, <2>1, EmptyStored DEF PopUcyc, Tape, Fifo!EmptyTape
    <3>3. QED
      BY <3>1, <3>2 DEF Fifo!Pop
  <2>2. CASE ~(head + 1 >= len)
    <3>1. Len(Tape.todo) # 1
      <4>1. len - head # 1
        BY <1>1, <2>2
      <4>2. QED
        BY <4>1, <1>3 DEF Tape
    <3>2. head' = head + 1 /\ len' = len
      BY <2>2 DEF PopUcyc
    <3>3. Stored(buf, 0, head + 1) = Append(Stored(buf, 0, head), buf[head])
      BY <1>1, StoredLast
    <3>4. QED
      BY <1>1, <1>2, <3>1, <3>2, <3>3 DEF Tape, Fifo!Pop
  <2>3. QED
    BY <2>1, <2>2
<1>5. QED
  BY <1>2, <1>4 DEF Fifo!FifoPop, Fifo!IsEmpty, Tape

\* Both ways of winding back put an op in front of what is to be executed.
LEMMA RefineInsert == ASSUME Inv, NEW u \in Op, InsertUcyc(u) PROVE Fifo!FifoInsert(u)
<1> DEFINE h == head - 1
<1>1. /\ head > 0 /\ h \in Slot /\ h \in 0..MAX_UCYC /\ head \in 0..MAX_UCYC
      /\ len \in 0..MAX_UCYC /\ 0 \in 0..MAX_UCYC /\ 0 <= h /\ h < len /\ head <= len
      /\ h + 1 = head /\ h < head /\ buf \in [Slot -> Op]
      /\ buf' \in [Slot -> Op] /\ buf'[h] = u
      /\ \A k \in 0..(h - 1) : buf'[k] = buf[k]
      /\ \A k \in head..(len - 1) : buf'[k] = buf[k]
      /\ head' = h /\ len' = len
  BY QueueAssumption DEF Inv, QueueTypeOK, IndicesInBounds, Slot, InsertUcyc
<1>2. Stored(buf, 0, head) # << >> /\ Fifo!Front(Stored(buf, 0, head)) = Stored(buf, 0, h)
  BY <1>1, DoneSplit
<1> HIDE DEF h
<1>3. Stored(buf', 0, h) = Stored(buf, 0, h)
  BY <1>1, StoredUnchanged
<1>4. Stored(buf', h, len) = << u >> \o Stored(buf', h + 1, len)
  BY <1>1, StoredFirst
<1>5. Stored(buf', head, len) = Stored(buf, head, len)
  BY <1>1, StoredUnchanged
<1>6. Tape' = [done |-> Stored(buf, 0, h), todo |-> << u >> \o Stored(buf, head, len)]
  BY <1>1, <1>3, <1>4, <1>5 DEF Tape
<1>7. QED
  BY <1>2, <1>6 DEF Tape, Fifo!FifoInsert, Fifo!Insert

LEMMA RefineDecHead == ASSUME Inv, DecHeadUcyc PROVE Fifo!FifoDecHead
<1> DEFINE h == head - 1
<1>1. /\ head > 0 /\ h \in Slot /\ len \in 0..MAX_UCYC /\ h < len /\ h + 1 = head
      /\ buf \in [Slot -> Op] /\ buf' = buf /\ head' = h /\ len' = len
  BY QueueAssumption DEF Inv, QueueTypeOK, IndicesInBounds, Slot, DecHeadUcyc
<1>2. /\ Stored(buf, 0, head) # << >>
      /\ Fifo!Front(Stored(buf, 0, head)) = Stored(buf, 0, h)
      /\ Fifo!Last(Stored(buf, 0, head)) = buf[h]
  BY <1>1, DoneSplit
<1> HIDE DEF h
<1>3. Stored(buf, h, len) = << buf[h] >> \o Stored(buf, h + 1, len)
  BY <1>1, StoredFirst
<1>4. Tape' = [done |-> Stored(buf, 0, h), todo |-> << buf[h] >> \o Stored(buf, head, len)]
  BY <1>1, <1>3 DEF Tape
<1>5. QED
  BY <1>2, <1>4 DEF Tape, Fifo!FifoDecHead, Fifo!DecHead

LEMMA RefineNext == Inv /\ [Next]_queueVars => [Fifo!FifoNext]_Tape
<1> SUFFICES ASSUME Inv, [Next]_queueVars PROVE [Fifo!FifoNext]_Tape
  OBVIOUS
<1>1. CASE Clear
  BY <1>1, RefineClear DEF Fifo!FifoNext
<1>2. ASSUME NEW u \in Op, PushUcyc(u) PROVE Fifo!FifoNext
  BY <1>2, RefinePush DEF Fifo!FifoNext
<1>3. CASE PopUcyc
  BY <1>3, RefinePop DEF Fifo!FifoNext
<1>4. ASSUME NEW u \in Op, InsertUcyc(u) PROVE Fifo!FifoNext
  BY <1>4, RefineInsert DEF Fifo!FifoNext
<1>5. CASE DecHeadUcyc
  BY <1>5, RefineDecHead DEF Fifo!FifoNext
<1>6. CASE UNCHANGED queueVars
  BY <1>6 DEF queueVars, Tape
<1>7. QED
  BY <1>1, <1>2, <1>3, <1>4, <1>5, <1>6 DEF Next

\* The array with its two indices implements the tape of its callers, for every array
\* length and every set of micro-ops: entries left over from earlier instructions are
\* never read.
THEOREM QueueImplementsFifo == Spec => ImplementsFifo
<1>1. Spec => []Inv
  BY InitInv, NextInv, PTL DEF Spec
<1>2. QED
  BY <1>1, RefineInit, RefineNext, PTL DEF Spec, ImplementsFifo, Fifo!FifoSpec
=============================================================================
