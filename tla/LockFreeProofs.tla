--------------------------- MODULE LockFreeProofs ---------------------------
(***************************************************************************)
(* The structures without a lock. The ring: for any capacity, messages and *)
(* number of pushes, the discipline of its indexes, that no message is     *)
(* read while it is written, and that it implements a bounded FIFO. The    *)
(* seqlock: for any number of fields and writes, and any order in which    *)
(* the memory lets the stores through that the fences allow, a copy that   *)
(* load_prefix() accepts is one version of the state. The log: for any     *)
(* number of threads and cells, one thread drains at a time, records are   *)
(* written whole and in each thread's order, and none is left in the queue *)
(* when the logger is down.                                                *)
(***************************************************************************)
EXTENDS SpscQueue, SeqLock, Logger, FiniteSetTheorems, SequenceTheorems, TLAPS

-----------------------------------------------------------------------------
(* The ring *)

\* A slot number is a slot.
LEMMA SlotRange == \A i \in Nat : Slot(i) \in 0 .. Cap - 1
BY CapAssumption DEF Slot

\* The mask separates any two indices less than a lap apart.
LEMMA SlotsDistinct ==
  ASSUME NEW i \in Nat, NEW j \in Nat, i < j, j < i + Cap
  PROVE  Slot(i) # Slot(j)
<1>1. /\ i = Cap * (i \div Cap) + (i % Cap)
      /\ j = Cap * (j \div Cap) + (j % Cap)
      /\ i \div Cap \in Int /\ j \div Cap \in Int
  BY CapAssumption
<1>2. SUFFICES ASSUME i % Cap = j % Cap PROVE FALSE
  BY DEF Slot
<1>3. j - i = Cap * ((j \div Cap) - (i \div Cap))
  BY <1>1, <1>2, CapAssumption
<1>4. (j \div Cap) - (i \div Cap) >= 1 \/ (j \div Cap) - (i \div Cap) <= 0
  BY <1>1
<1> QED BY <1>1, <1>3, <1>4, CapAssumption

LEMMA RingStart == Init => IInv
<1> SUFFICES ASSUME Init PROVE IInv
  OBVIOUS
<1>1. TypeOK
  BY CapAssumption, ValueAssumption DEF Init, TypeOK
<1> QED BY <1>1, CapAssumption
     DEF Init, IInv, IndexOrder, ClaimHasRoom, FrontHasItem, PublishedWhole, FilledReady, HeldIsFront

\* Writing the claimed slot leaves every published slot alone.
LEMMA FillOther ==
  ASSUME IInv, pPc # "idle", NEW x, slots' = [slots EXCEPT ![Slot(tail)] = x]
  PROVE  \A i \in head .. tail - 1 : slots'[Slot(i)] = slots[Slot(i)]
<1> TAKE i \in head .. tail - 1
<1>1. i \in Nat /\ tail \in Nat /\ i < tail /\ tail < i + Cap
  BY CapAssumption DEF IInv, TypeOK, IndexOrder, ClaimHasRoom
<1>2. Slot(i) # Slot(tail)
  BY <1>1, SlotsDistinct
<1>3. Slot(i) \in 0 .. Cap - 1
  BY <1>1, SlotRange
<1> QED BY <1>2, <1>3 DEF IInv, TypeOK

LEMMA RingStep == IInv /\ [Next]_vars => IInv'
<1> SUFFICES ASSUME IInv, [Next]_vars PROVE IInv'
  OBVIOUS
<1> USE CapAssumption
<1>a. /\ TypeOK /\ IndexOrder /\ ClaimHasRoom /\ FrontHasItem
      /\ PublishedWhole /\ FilledReady /\ HeldIsFront /\ (cPc # "held" => cVal = None)
  BY DEF IInv
<1>s. Slot(head) \in 0 .. Cap - 1 /\ Slot(tail) \in 0 .. Cap - 1
  BY <1>a, SlotRange DEF TypeOK
<1>1. ASSUME NEW v \in Value, ClaimFast(v) PROVE IInv'
  BY <1>a, <1>1 DEF ClaimFast, IInv, cVars, TypeOK, IndexOrder, ClaimHasRoom, FrontHasItem,
       PublishedWhole, FilledReady, HeldIsFront
<1>2. ASSUME NEW v \in Value, NEW h \in cachedHead .. head, ClaimReload(v, h) PROVE IInv'
  BY <1>a, <1>2 DEF ClaimReload, IInv, cVars, TypeOK, IndexOrder, ClaimHasRoom, FrontHasItem,
       PublishedWhole, FilledReady, HeldIsFront
<1>3. CASE FillBegin
  <2>1. \A i \in head .. tail - 1 : slots'[Slot(i)] = slots[Slot(i)]
    BY <1>3, FillOther DEF FillBegin
  <2>2. TypeOK' /\ IndexOrder' /\ ClaimHasRoom' /\ FrontHasItem' /\ FilledReady'
    BY <1>a, <1>s, <1>3 DEF FillBegin, cVars, TypeOK, IndexOrder, ClaimHasRoom, FrontHasItem, FilledReady
  <2>3. PublishedWhole'
    BY <1>a, <1>3, <2>1 DEF FillBegin, cVars, PublishedWhole
  <2>4. HeldIsFront' /\ (cPc' # "held" => cVal' = None)
    BY <1>a, <1>3, <2>1 DEF FillBegin, cVars, HeldIsFront, FrontHasItem, IndexOrder, TypeOK
  <2> QED BY <2>2, <2>3, <2>4 DEF IInv
<1>4. CASE FillEnd
  <2>1. \A i \in head .. tail - 1 : slots'[Slot(i)] = slots[Slot(i)]
    BY <1>4, FillOther DEF FillEnd
  <2>2. TypeOK' /\ IndexOrder' /\ ClaimHasRoom' /\ FrontHasItem' /\ FilledReady'
    BY <1>a, <1>s, <1>4 DEF FillEnd, cVars, TypeOK, IndexOrder, ClaimHasRoom, FrontHasItem, FilledReady
  <2>3. PublishedWhole'
    BY <1>a, <1>4, <2>1 DEF FillEnd, cVars, PublishedWhole
  <2>4. HeldIsFront' /\ (cPc' # "held" => cVal' = None)
    BY <1>a, <1>4, <2>1 DEF FillEnd, cVars, HeldIsFront, FrontHasItem, IndexOrder, TypeOK
  <2> QED BY <2>2, <2>3, <2>4 DEF IInv
<1>5. CASE Publish
  <2>1. TypeOK' /\ IndexOrder' /\ ClaimHasRoom' /\ FrontHasItem' /\ FilledReady'
    BY <1>a, <1>5 DEF Publish, cVars, TypeOK, IndexOrder, ClaimHasRoom, FrontHasItem, FilledReady
  <2>2. PublishedWhole'
    BY <1>a, <1>5 DEF Publish, cVars, PublishedWhole, FilledReady, ClaimHasRoom, TypeOK
  <2>3. HeldIsFront' /\ (cPc' # "held" => cVal' = None)
    BY <1>a, <1>5 DEF Publish, cVars, HeldIsFront
  <2> QED BY <2>1, <2>2, <2>3 DEF IInv
<1>6. CASE FrontFast
  BY <1>a, <1>6 DEF FrontFast, IInv, pVars, TypeOK, IndexOrder, ClaimHasRoom, FrontHasItem,
       PublishedWhole, FilledReady, HeldIsFront
<1>7. ASSUME NEW t \in cachedTail .. tail, FrontReload(t) PROVE IInv'
  BY <1>a, <1>7 DEF FrontReload, IInv, pVars, TypeOK, IndexOrder, ClaimHasRoom, FrontHasItem,
       PublishedWhole, FilledReady, HeldIsFront
<1>8. CASE ReadSlot
  BY <1>a, <1>s, <1>8 DEF ReadSlot, IInv, pVars, TypeOK, IndexOrder, ClaimHasRoom, FrontHasItem,
       PublishedWhole, FilledReady, HeldIsFront
<1>9. CASE Pop
  BY <1>a, <1>9 DEF Pop, IInv, pVars, TypeOK, IndexOrder, ClaimHasRoom, FrontHasItem,
       PublishedWhole, FilledReady, HeldIsFront
<1>10. CASE UNCHANGED vars
  BY <1>a, <1>10 DEF vars, IInv, TypeOK, IndexOrder, ClaimHasRoom, FrontHasItem,
       PublishedWhole, FilledReady, HeldIsFront
<1> QED BY <1>1, <1>2, <1>3, <1>4, <1>5, <1>6, <1>7, <1>8, <1>9, <1>10 DEF Next, Producer, Consumer

\* The ring's index discipline holds for ever: try_claim(), publish(), front()
\* and pop() keep the cached copies behind the indices they copy and every
\* published slot whole.
THEOREM RingInductive == Spec => []IInv
BY RingStart, RingStep, PTL DEF Spec

\* The consumer never reads a message that publish() has not completed.
THEOREM TornReadFree == Spec => []NoTornRead
<1>1. IInv => NoTornRead
  <2> SUFFICES ASSUME IInv PROVE NoTornRead
    OBVIOUS
  <2>1. cPc # "idle" => slots[Slot(head)] \in Value
    BY DEF IInv, TypeOK, IndexOrder, FrontHasItem, PublishedWhole
  <2>2. CASE cPc = "held"
    BY <2>1, <2>2, ValueAssumption DEF IInv, HeldIsFront, NoTornRead
  <2>3. CASE cPc # "held"
    BY <2>1, <2>3, ValueAssumption DEF IInv, NoTornRead
  <2> QED BY <2>2, <2>3
<1> QED BY <1>1, RingInductive, PTL

\* No step changes the slot the consumer is reading between front() and pop().
THEOREM HeldSlotNeverChanges == Spec => HeldSlotStable
<1>1. IInv /\ IInv' /\ [Next]_vars =>
        [cPc = "held" /\ cPc' = "held" => slots'[Slot(head)] = cVal]_vars
  <2> SUFFICES ASSUME IInv, IInv', [Next]_vars, cPc = "held", cPc' = "held"
               PROVE  slots'[Slot(head)] = cVal
    OBVIOUS
  <2>1. head' = head /\ cVal' = cVal
    BY DEF Next, Producer, Consumer, vars, pVars, cVars, ClaimFast, ClaimReload, FillBegin, FillEnd,
           Publish, FrontFast, FrontReload, ReadSlot, Pop
  <2>2. cVal' = slots'[Slot(head')]
    BY DEF IInv, HeldIsFront, Slot
  <2> QED BY <2>1, <2>2
<1> QED BY <1>1, RingInductive, PTL DEF Spec, HeldSlotStable

-----------------------------------------------------------------------------
(* The ring is a FIFO *)

\* A published slot's value, at its place in the abstract queue.
LEMMA ContentsSeq ==
  ASSUME IInv
  PROVE  /\ contents \in Seq(Value)
         /\ Len(contents) = tail - head
         /\ Len(contents) <= Cap
         /\ \A k \in 1 .. (tail - head) : contents[k] = slots[Slot(head + k - 1)]
<1>1. tail - head \in Nat /\ tail - head <= Cap
  BY CapAssumption DEF IInv, TypeOK, IndexOrder
<1>2. \A k \in 1 .. (tail - head) : slots[Slot(head + k - 1)] \in Value
  BY DEF IInv, TypeOK, IndexOrder, PublishedWhole
<1>3. contents \in [1 .. (tail - head) -> Value]
  BY <1>2 DEF contents
<1>4. contents \in Seq(Value) /\ Len(contents) = tail - head
  BY <1>1, <1>3
<1> QED BY <1>1, <1>4 DEF contents

\* A step that keeps the indices and the published slots keeps the queue.
LEMMA SameContents ==
  ASSUME IInv, head' = head, tail' = tail,
         \A i \in head .. tail - 1 : slots'[Slot(i)] = slots[Slot(i)]
  PROVE  contents' = contents
<1>1. \A k \in 1 .. (tail - head) : slots'[Slot(head + k - 1)] = slots[Slot(head + k - 1)]
  BY DEF IInv, TypeOK
<1> QED BY <1>1 DEF contents, Slot

LEMMA StepRefines == IInv /\ IInv' /\ [Next]_vars => [Ring!Next]_(Ring!vars)
<1> SUFFICES ASSUME IInv, IInv', [Next]_vars PROVE [Ring!Next]_(Ring!vars)
  OBVIOUS
<1> USE CapAssumption
<1>a. head \in Nat /\ tail \in Nat /\ head <= tail
  BY DEF IInv, TypeOK, IndexOrder
<1>b. /\ contents \in Seq(Value) /\ Len(contents) = tail - head /\ Len(contents) <= Cap
      /\ \A k \in 1 .. (tail - head) : contents[k] = slots[Slot(head + k - 1)]
  BY ContentsSeq
<1>c. ASSUME UNCHANGED <<head, tail, slots, cVal>> PROVE UNCHANGED Ring!vars
  <2>1. contents' = contents
    BY <1>c, SameContents
  <2> QED BY <1>c, <2>1 DEF Ring!vars
<1>d. ASSUME pPc # "idle", NEW x, slots' = [slots EXCEPT ![Slot(tail)] = x], UNCHANGED <<head, tail, cVal>>
      PROVE  UNCHANGED Ring!vars
  <2>1. \A i \in head .. tail - 1 : slots'[Slot(i)] = slots[Slot(i)]
    BY <1>d, FillOther
  <2>2. contents' = contents
    BY <1>d, <2>1, SameContents
  <2> QED BY <1>d, <2>2 DEF Ring!vars
<1>1. ASSUME NEW v \in Value, ClaimFast(v) PROVE UNCHANGED Ring!vars
  BY <1>1, <1>c DEF ClaimFast, cVars
<1>2. ASSUME NEW v \in Value, NEW h \in cachedHead .. head, ClaimReload(v, h) PROVE UNCHANGED Ring!vars
  BY <1>2, <1>c DEF ClaimReload, cVars
<1>3. CASE FillBegin
  BY <1>3, <1>d DEF FillBegin, cVars
<1>4. CASE FillEnd
  BY <1>4, <1>d DEF FillEnd, cVars
<1>5. CASE Publish
  <2>1. pVal \in Value /\ slots[Slot(tail)] = pVal /\ tail - head < Cap
    BY <1>5 DEF Publish, IInv, TypeOK, IndexOrder, ClaimHasRoom, FilledReady
  <2>2. head' = head /\ tail' = tail + 1 /\ slots' = slots /\ cVal' = cVal
    BY <1>5 DEF Publish, cVars
  <2>3. contents' = [k \in 1 .. (tail - head) + 1 |-> slots[Slot(head + k - 1)]]
    <3>1. contents' = [k \in 1 .. (tail' - head') |-> slots'[Slot(head' + k - 1)]]
      BY DEF contents, Slot
    <3>2. tail' - head' = (tail - head) + 1
      BY <1>a, <2>2
    <3> QED BY <3>1, <3>2, <2>2
  <2>4. contents' = Append(contents, pVal)
    <3>1. /\ Append(contents, pVal) \in Seq(Value)
          /\ Len(Append(contents, pVal)) = (tail - head) + 1
          /\ \A k \in 1 .. (tail - head) + 1 :
                Append(contents, pVal)[k] = IF k = (tail - head) + 1 THEN pVal ELSE contents[k]
      BY <1>a, <1>b, <2>1, AppendProperties
    <3>2. \A k \in 1 .. (tail - head) + 1 :
             slots[Slot(head + k - 1)] = IF k = (tail - head) + 1 THEN pVal ELSE contents[k]
      <4> TAKE k \in 1 .. (tail - head) + 1
      <4>1. CASE k = (tail - head) + 1
        <5>1. head + k - 1 = tail
          BY <4>1, <1>a
        <5> QED BY <4>1, <5>1, <2>1
      <4>2. CASE k # (tail - head) + 1
        BY <4>2, <1>a, <1>b
      <4> QED BY <4>1, <4>2
    <3>3. contents' \in [1 .. (tail - head) + 1 -> Value] /\ (tail - head) + 1 \in Nat
      <4>1. \A k \in 1 .. (tail - head) + 1 : slots[Slot(head + k - 1)] \in Value
        BY <3>2, <1>a, <1>b, <2>1
      <4>2. contents' \in [1 .. (tail - head) + 1 -> Value]
        BY <4>1, <2>3
      <4>3. (tail - head) + 1 \in Nat
        BY <1>a
      <4> QED BY <4>2, <4>3
    <3>4. contents' \in Seq(Value) /\ Len(contents') = (tail - head) + 1
      BY <3>3
    <3>5. \A k \in 1 .. (tail - head) + 1 : contents'[k] = Append(contents, pVal)[k]
      BY <2>3, <3>1, <3>2
    <3> QED BY <3>1, <3>4, <3>5, SeqEqual
  <2>5. Ring!Push(pVal)
    BY <2>1, <2>2, <2>4, <1>b DEF Ring!Push
  <2> QED BY <2>1, <2>5 DEF Ring!Next
<1>6. CASE FrontFast
  BY <1>6, <1>c DEF FrontFast, pVars
<1>7. ASSUME NEW t \in cachedTail .. tail, FrontReload(t) PROVE UNCHANGED Ring!vars
  BY <1>7, <1>c DEF FrontReload, pVars
<1>8. CASE ReadSlot
  <2>1. tail - head >= 1
    BY <1>8 DEF ReadSlot, IInv, TypeOK, IndexOrder, FrontHasItem
  <2>2. contents # <<>> /\ Head(contents) = slots[Slot(head)]
    BY <2>1, <1>a, <1>b
  <2>3. contents' = contents
    BY <1>8, SameContents DEF ReadSlot, pVars
  <2>4. Ring!Front
    BY <1>8, <2>2, <2>3 DEF ReadSlot, Ring!Front
  <2> QED BY <2>4 DEF Ring!Next
<1>9. CASE Pop
  <2>1. tail - head >= 1 /\ cVal = slots[Slot(head)]
    BY <1>9 DEF Pop, IInv, TypeOK, IndexOrder, FrontHasItem, HeldIsFront
  <2>2. contents # <<>> /\ Head(contents) = slots[Slot(head)]
    BY <2>1, <1>a, <1>b
  <2>3. head' = head + 1 /\ tail' = tail /\ slots' = slots /\ cVal' = None
    BY <1>9 DEF Pop, pVars
  <2>4. contents' = [k \in 1 .. (tail - head) - 1 |-> slots[Slot(head + k)]]
    <3>1. contents' = [k \in 1 .. (tail' - head') |-> slots'[Slot(head' + k - 1)]]
      BY DEF contents, Slot
    <3>2. tail' - head' = (tail - head) - 1
      BY <1>a, <2>3
    <3>3. \A k \in 1 .. (tail - head) - 1 : head' + k - 1 = head + k
      BY <1>a, <2>3
    <3> QED BY <3>1, <3>2, <3>3, <2>3
  <2>5. /\ Tail(contents) \in Seq(Value)
        /\ Len(Tail(contents)) = (tail - head) - 1
        /\ \A k \in 1 .. (tail - head) - 1 : Tail(contents)[k] = contents[k + 1]
    BY <1>b, <2>2, HeadTailProperties
  <2>6. \A k \in 1 .. (tail - head) - 1 : contents[k + 1] = slots[Slot(head + k)]
    <3> TAKE k \in 1 .. (tail - head) - 1
    <3>1. k + 1 \in 1 .. (tail - head) /\ head + (k + 1) - 1 = head + k
      BY <1>a
    <3> QED BY <3>1, <1>b
  <2>7. contents' = Tail(contents)
    <3>1. contents' \in [1 .. (tail - head) - 1 -> Value] /\ (tail - head) - 1 \in Nat
      <4>1. \A k \in 1 .. (tail - head) - 1 : slots[Slot(head + k)] \in Value
        BY <2>5, <2>6, ElementOfSeq
      <4>2. contents' \in [1 .. (tail - head) - 1 -> Value]
        BY <4>1, <2>4
      <4>3. (tail - head) - 1 \in Nat
        BY <2>1, <1>a
      <4> QED BY <4>2, <4>3
    <3>2. contents' \in Seq(Value) /\ Len(contents') = (tail - head) - 1
      BY <3>1
    <3>3. \A k \in 1 .. (tail - head) - 1 : contents'[k] = Tail(contents)[k]
      BY <2>4, <2>5, <2>6
    <3> QED BY <2>5, <3>2, <3>3, SeqEqual
  <2>8. Ring!Pop
    BY <2>1, <2>2, <2>3, <2>7 DEF Ring!Pop
  <2> QED BY <2>8 DEF Ring!Next
<1>10. CASE UNCHANGED vars
  BY <1>10, <1>c DEF vars
<1> QED BY <1>1, <1>2, <1>3, <1>4, <1>5, <1>6, <1>7, <1>8, <1>9, <1>10 DEF Next, Producer, Consumer

\* core/spsc_queue.hpp implements a bounded FIFO: a message comes out whole,
\* once, in the order it was pushed.
THEOREM RingIsFifo == Spec => RefinesFifo
<1>1. Init => Ring!Init
  <2> SUFFICES ASSUME Init PROVE contents = <<>> /\ cVal = None
    BY DEF Ring!Init
  <2>1. tail - head = 0
    BY DEF Init
  <2>2. contents = [k \in 1 .. 0 |-> slots[Slot(head + k - 1)]]
    BY <2>1 DEF contents
  <2> QED BY <2>2 DEF Init
<1> QED BY <1>1, StepRefines, RingInductive, PTL DEF Spec, RefinesFifo, Ring!Spec

-----------------------------------------------------------------------------
(* The inductive invariant of the seqlock *)

Store == [loc : Field \union {Seq0}, val : Nat, epoch : Nat]

SeqLockType ==
  /\ seq_ \in Nat /\ epoch = seq_
  /\ buffer \in Seq(Store)
  /\ toWrite \subseteq Field /\ (toWrite # {} => Odd(seq_))
  /\ mem \in [Field \union {Seq0} -> Nat]
  /\ s1 \in Nat \union {Unread}
  /\ view \subseteq Field /\ copied \subseteq view
  /\ out \in [Field -> Nat]

\* The version of the write under way, or of the last one.
Version == (seq_ + 1) \div 2

\* A store stands behind the fence of its own write: those of the number on
\* either side of it, those of the fields between.
EpochOf(loc, val) == IF loc = Seq0 THEN val - (val % 2) ELSE 2 * val - 1

\* Stores not yet visible are younger than what is, no younger than the writer,
\* and stand in the buffer in the order of their fences and of their values.
BufferOrdered ==
  \A i \in 1 .. Len(buffer) :
    /\ buffer[i].epoch = EpochOf(buffer[i].loc, buffer[i].val)
    /\ mem[buffer[i].loc] < buffer[i].val
    /\ buffer[i].val <= IF buffer[i].loc = Seq0 THEN seq_ ELSE Version
    /\ buffer[i].loc \in toWrite => buffer[i].val < Version
    /\ \A j \in 1 .. Len(buffer) : i < j =>
         /\ buffer[i].epoch <= buffer[j].epoch
         /\ buffer[i].loc = buffer[j].loc => buffer[i].val < buffer[j].val

Pending(loc, val) == \E i \in 1 .. Len(buffer) : buffer[i].loc = loc /\ buffer[i].val = val

\* No store is lost: what was written and is not visible is in the buffer.
NothingLost ==
  /\ mem[Seq0] <= seq_
  /\ \A n \in Nat : mem[Seq0] < n /\ n <= seq_ => Pending(Seq0, n)
  /\ \A f \in Field, k \in Nat :
       mem[f] < k /\ k <= Version /\ ~(f \in toWrite /\ k = Version) => Pending(f, k)

\* A field that the write has still to store is of an older version.
NotYetWritten == \A f \in toWrite : mem[f] < Version

\* The reader's number is an even one that was visible, and while it is still
\* the visible one, what has been copied is of its version.
CopyFollows ==
  s1 # Unread => /\ ~Odd(s1) /\ s1 <= mem[Seq0]
                 /\ mem[Seq0] = s1 => \A f \in copied : out[f] = s1 \div 2

SeqLockIInv == SeqLockType /\ BufferOrdered /\ NothingLost /\ NotYetWritten /\ MemoryOrdered /\ CopyFollows

-----------------------------------------------------------------------------
(* What the sequences and the numbers do *)

LEMMA Halves ==
  \A n \in Nat : /\ n \div 2 \in Nat /\ n % 2 \in {0, 1}
                 /\ n = 2 * (n \div 2) + (n % 2)
OBVIOUS

\* A store added behind the others.
LEMMA Added ==
  ASSUME NEW S, NEW b \in Seq(S), NEW e \in S
  PROVE  /\ Append(b, e) \in Seq(S) /\ Len(Append(b, e)) = Len(b) + 1
         /\ \A i \in 1 .. Len(b) : Append(b, e)[i] = b[i]
         /\ Append(b, e)[Len(b) + 1] = e
BY AppendProperties

\* A store taken out of the middle.
LEMMA TakenOut ==
  ASSUME NEW S, NEW b \in Seq(S), NEW i \in 1 .. Len(b)
  PROVE  /\ RemoveAt(b, i) \in Seq(S) /\ Len(RemoveAt(b, i)) = Len(b) - 1
         /\ \A j \in 1 .. Len(b) - 1 : RemoveAt(b, i)[j] = b[IF j < i THEN j ELSE j + 1]
<1> DEFINE l == SubSeq(b, 1, i - 1)
           r == SubSeq(b, i + 1, Len(b))
<1>1. Len(b) \in Nat /\ \A k \in 1 .. Len(b) : b[k] \in S
  BY ElementOfSeq, LenProperties
<1>2. l \in Seq(S) /\ Len(l) = i - 1 /\ \A k \in 1 .. i - 1 : l[k] = b[k]
  <2>1. \A k \in 1 .. i - 1 : b[k] \in S
    BY <1>1
  <2>2. /\ l \in Seq(S) /\ Len(l) = IF 1 <= i - 1 THEN i - 1 - 1 + 1 ELSE 0
        /\ \A k \in 1 .. i - 1 - 1 + 1 : l[k] = b[1 + k - 1]
    BY <1>1, <2>1, SubSeqProperties
  <2> QED BY <1>1, <2>2
<1>3. r \in Seq(S) /\ Len(r) = Len(b) - i /\ \A k \in 1 .. Len(b) - i : r[k] = b[i + k]
  <2>1. \A k \in i + 1 .. Len(b) : b[k] \in S
    BY <1>1
  <2>2. /\ r \in Seq(S) /\ Len(r) = IF i + 1 <= Len(b) THEN Len(b) - (i + 1) + 1 ELSE 0
        /\ \A k \in 1 .. Len(b) - (i + 1) + 1 : r[k] = b[(i + 1) + k - 1]
    BY <1>1, <2>1, SubSeqProperties
  <2> QED BY <1>1, <2>2
<1> HIDE DEF l, r
<1>4. /\ l \o r \in Seq(S) /\ Len(l \o r) = Len(b) - 1
      /\ \A k \in 1 .. Len(b) - 1 : (l \o r)[k] = IF k <= i - 1 THEN l[k] ELSE r[k - (i - 1)]
  <2>1. /\ l \o r \in Seq(S) /\ Len(l \o r) = Len(l) + Len(r)
        /\ \A k \in 1 .. Len(l) + Len(r) : (l \o r)[k] = IF k <= Len(l) THEN l[k] ELSE r[k - Len(l)]
    BY <1>2, <1>3, ConcatProperties
  <2> QED BY <1>1, <1>2, <1>3, <2>1
<1>5. RemoveAt(b, i) = l \o r
  BY DEF RemoveAt, l, r
<1>6. ASSUME NEW j \in 1 .. Len(b) - 1 PROVE (l \o r)[j] = b[IF j < i THEN j ELSE j + 1]
  <2>1. CASE j < i
    BY <1>1, <1>2, <1>4, <2>1
  <2>2. CASE ~(j < i)
    <3>1. j - (i - 1) \in 1 .. Len(b) - i /\ i + (j - (i - 1)) = j + 1
      BY <1>1, <2>2
    <3> QED BY <1>1, <1>3, <1>4, <2>2, <3>1
  <2> QED BY <2>1, <2>2
<1> QED BY <1>4, <1>5, <1>6

-----------------------------------------------------------------------------
(* The invariant holds at the start and every step keeps it *)

LEMMA SeqLockStart == SeqLockInit => SeqLockIInv
<1> SUFFICES ASSUME SeqLockInit PROVE SeqLockIInv
  OBVIOUS
<1>1. SeqLockType
  BY DEF SeqLockInit, SeqLockType, Odd, Store
<1>2. Len(buffer) = 0
  BY DEF SeqLockInit
<1>3. BufferOrdered
  BY <1>2 DEF BufferOrdered
<1>4. NothingLost
  BY DEF SeqLockInit, NothingLost, Version
<1>5. NotYetWritten /\ MemoryOrdered /\ CopyFollows
  BY DEF SeqLockInit, NotYetWritten, MemoryOrdered, CopyFollows
<1> QED BY <1>1, <1>3, <1>4, <1>5 DEF SeqLockIInv

\* The writer's number and its version.
LEMMA VersionOfWriter ==
  ASSUME seq_ \in Nat
  PROVE  /\ Version \in Nat
         /\ Odd(seq_) => 2 * Version = seq_ + 1
         /\ ~Odd(seq_) => 2 * Version = seq_
<1>1. /\ (seq_ + 1) \div 2 \in Nat /\ (seq_ + 1) % 2 \in {0, 1} /\ seq_ % 2 \in {0, 1}
      /\ seq_ + 1 = 2 * ((seq_ + 1) \div 2) + ((seq_ + 1) % 2) /\ seq_ = 2 * (seq_ \div 2) + (seq_ % 2)
      /\ seq_ \div 2 \in Nat
  BY Halves
<1> QED BY <1>1 DEF Version, Odd

\* No store stands behind a fence the writer has not passed.
LEMMA FencesPassed ==
  ASSUME SeqLockType, BufferOrdered
  PROVE  \A i \in 1 .. Len(buffer) : buffer[i].epoch <= seq_
<1> SUFFICES ASSUME NEW i \in 1 .. Len(buffer) PROVE buffer[i].epoch <= seq_
  OBVIOUS
<1>1. /\ buffer[i] \in Store /\ buffer[i].epoch = EpochOf(buffer[i].loc, buffer[i].val)
      /\ buffer[i].val <= IF buffer[i].loc = Seq0 THEN seq_ ELSE Version
  BY ElementOfSeq DEF SeqLockType, BufferOrdered
<1>2. buffer[i].val \in Nat /\ buffer[i].val % 2 \in {0, 1}
  BY <1>1, Halves DEF Store
<1>3. Version \in Nat /\ 2 * Version <= seq_ + 1 /\ seq_ \in Nat
  BY VersionOfWriter DEF SeqLockType
<1> QED BY <1>1, <1>2, <1>3 DEF EpochOf

\* What a store behind all others does to the buffer.
Behind(e) == buffer' = Append(buffer, e)

LEMMA StoreAdded ==
  ASSUME SeqLockType, BufferOrdered, NEW e \in Store,
         Behind(e), mem' = mem,
         seq_' \in Nat, seq_ <= seq_', Version' \in Nat, Version <= Version',
         e.epoch = EpochOf(e.loc, e.val), seq_ <= e.epoch, mem[e.loc] < e.val,
         e.val <= IF e.loc = Seq0 THEN seq_' ELSE Version',
         e.loc \in toWrite' => e.val < Version',
         \A i \in 1 .. Len(buffer) : /\ buffer[i].loc \in toWrite' => buffer[i].val < Version'
                                     /\ buffer[i].loc = e.loc => buffer[i].val < e.val
  PROVE  /\ buffer' \in Seq(Store) /\ BufferOrdered'
         /\ \A l, v : Pending(l, v)' <=> Pending(l, v) \/ (l = e.loc /\ v = e.val)
<1> DEFINE n == Len(buffer)
<1>1. seq_ \in Nat /\ buffer \in Seq(Store) /\ n \in Nat
  BY LenProperties DEF SeqLockType
<1>2. /\ buffer' \in Seq(Store) /\ Len(buffer') = n + 1 /\ buffer'[n + 1] = e
      /\ \A i \in 1 .. n : buffer'[i] = buffer[i] /\ buffer[i] \in Store
  BY <1>1, Added, ElementOfSeq DEF Behind
<1>3. Version \in Nat
  BY <1>1, VersionOfWriter
<1>4. ASSUME NEW i \in 1 .. n + 1
      PROVE  /\ buffer'[i].epoch = EpochOf(buffer'[i].loc, buffer'[i].val)
             /\ mem'[buffer'[i].loc] < buffer'[i].val
             /\ buffer'[i].val <= IF buffer'[i].loc = Seq0 THEN seq_' ELSE Version'
             /\ buffer'[i].loc \in toWrite' => buffer'[i].val < Version'
  <2>1. CASE i \in 1 .. n
    <3>1. /\ buffer[i].epoch = EpochOf(buffer[i].loc, buffer[i].val)
          /\ mem[buffer[i].loc] < buffer[i].val
          /\ buffer[i].val <= IF buffer[i].loc = Seq0 THEN seq_ ELSE Version
      BY <2>1 DEF BufferOrdered
    <3>2. buffer'[i] = buffer[i] /\ buffer[i].val \in Nat
      BY <2>1, <1>2 DEF Store
    <3>3. buffer[i].val <= IF buffer[i].loc = Seq0 THEN seq_' ELSE Version'
      BY <3>1, <3>2, <1>1, <1>3
    <3>4. buffer[i].loc \in toWrite' => buffer[i].val < Version'
      BY <2>1
    <3> QED BY ONLY <3>1, <3>2, <3>3, <3>4, mem' = mem
  <2>2. CASE i = n + 1
    BY <2>2, <1>2
  <2> QED BY <2>1, <2>2, <1>1
<1>5. ASSUME NEW i \in 1 .. n + 1, NEW j \in 1 .. n + 1, i < j
      PROVE  /\ buffer'[i].epoch <= buffer'[j].epoch
             /\ buffer'[i].loc = buffer'[j].loc => buffer'[i].val < buffer'[j].val
  <2>1. i \in 1 .. n /\ buffer'[i] = buffer[i] /\ buffer[i] \in Store
    BY <1>1, <1>2, <1>5
  <2>2. CASE j \in 1 .. n
    BY <1>5, <2>1, <2>2, <1>2 DEF BufferOrdered
  <2>3. CASE j = n + 1
    <3>1. buffer[i].epoch <= seq_
      BY <2>1, FencesPassed
    <3>2. buffer[i].epoch \in Nat /\ e.epoch \in Nat
      BY <2>1 DEF Store
    <3>3. buffer[i].epoch <= e.epoch
      BY <3>1, <3>2, <1>1
    <3>4. buffer[i].loc = e.loc => buffer[i].val < e.val
      BY <2>1
    <3> QED BY <2>1, <2>3, <3>3, <3>4, <1>2
  <2> QED BY <2>2, <2>3, <1>1
<1>6. BufferOrdered'
  BY <1>2, <1>4, <1>5 DEF BufferOrdered
<1>7. ASSUME NEW l, NEW v PROVE Pending(l, v)' <=> Pending(l, v) \/ (l = e.loc /\ v = e.val)
  <2>1. Pending(l, v)' <=> \E i \in 1 .. n + 1 : buffer'[i].loc = l /\ buffer'[i].val = v
    BY <1>2 DEF Pending
  <2>2. 1 .. n + 1 = 1 .. n \union {n + 1}
    BY <1>1
  <2> QED BY <1>2, <2>1, <2>2 DEF Pending
<1> QED BY <1>2, <1>6, <1>7

\* No field is of a version that has not begun.
LEMMA MemoryBehindWriter ==
  ASSUME SeqLockType, NothingLost, MemoryOrdered
  PROVE  \A f \in Field : mem[f] \in Nat /\ mem[f] <= Version
<1>1. seq_ \in Nat /\ mem[Seq0] \in Nat /\ mem[Seq0] <= seq_
  BY DEF SeqLockType, NothingLost
<1>2. \A m, n \in Nat : m <= n => (m + 1) \div 2 <= (n + 1) \div 2 /\ m \div 2 <= (m + 1) \div 2
  OBVIOUS
<1>3. mem[Seq0] \div 2 \in Nat /\ (mem[Seq0] + 1) \div 2 \in Nat /\ Version \in Nat
  BY <1>1, Halves, VersionOfWriter
<1>4. mem[Seq0] \div 2 <= (mem[Seq0] + 1) \div 2 /\ (mem[Seq0] + 1) \div 2 <= Version
  BY <1>1, <1>2 DEF Version
<1> QED BY <1>3, <1>4 DEF MemoryOrdered

LEMMA BeginWriteKeeps ==
  ASSUME SeqLockIInv, begin_write
  PROVE  SeqLockIInv'
<1> DEFINE e == Stored(Seq0, seq_ + 1, epoch)
<1>a. SeqLockType /\ BufferOrdered /\ NothingLost /\ NotYetWritten /\ MemoryOrdered /\ CopyFollows
  BY DEF SeqLockIInv
<1>b. /\ ~Odd(seq_) /\ seq_' = seq_ + 1 /\ epoch' = epoch + 1 /\ toWrite' = Field
      /\ buffer' = Append(buffer, e) /\ UNCHANGED <<mem, s1, view, out, copied>>
  BY DEF begin_write, Fence, readerVars
<1>c. /\ seq_ \in Nat /\ epoch = seq_ /\ buffer \in Seq(Store) /\ toWrite = {}
      /\ mem \in [Field \union {Seq0} -> Nat] /\ mem[Seq0] \in Nat /\ mem[Seq0] <= seq_
  BY <1>a, <1>b DEF SeqLockType, NothingLost
<1>d. e \in Store /\ e.loc = Seq0 /\ e.val = seq_ + 1 /\ e.epoch = seq_
  BY <1>c DEF Stored, Store
<1>e. /\ Odd(seq_ + 1) /\ (seq_ + 1) % 2 = 1 /\ Version \in Nat /\ Version' = Version + 1
  <2>1. seq_ % 2 = 0 /\ (seq_ + 1) % 2 = 1
    BY <1>b, <1>c, Halves DEF Odd
  <2>2. 2 * Version = seq_ /\ Version \in Nat
    BY <1>b, <1>c, VersionOfWriter
  <2>3. Version' = (seq_ + 2) \div 2
    BY <1>b, <1>c DEF Version
  <2>4. (seq_ + 2) \div 2 \in Nat /\ 2 * ((seq_ + 2) \div 2) = seq_ + 2
    BY <2>1, <1>c
  <2> QED BY <1>b, <2>1, <2>2, <2>3, <2>4 DEF Odd
<1> HIDE DEF e
<1>f. \A i \in 1 .. Len(buffer) : /\ buffer[i].loc \in toWrite' => buffer[i].val < Version'
                                  /\ buffer[i].loc = e.loc => buffer[i].val < e.val
  <2> SUFFICES ASSUME NEW i \in 1 .. Len(buffer)
               PROVE  /\ buffer[i].loc \in toWrite' => buffer[i].val < Version'
                      /\ buffer[i].loc = e.loc => buffer[i].val < e.val
    OBVIOUS
  <2>1. buffer[i].val \in Nat /\ buffer[i].val <= IF buffer[i].loc = Seq0 THEN seq_ ELSE Version
    <3>1. buffer[i] \in Store
      BY <1>c, ElementOfSeq
    <3> QED BY <3>1, <1>a DEF BufferOrdered, Store
  <2>2. CASE buffer[i].loc = Seq0
    <3>1. buffer[i].loc \notin toWrite'
      BY <2>2, <1>b, FieldAssumption
    <3>2. buffer[i].val < e.val
      BY <2>1, <2>2, <1>c, <1>d
    <3> QED BY <3>1, <3>2
  <2>3. CASE buffer[i].loc # Seq0
    <3>1. buffer[i].val < Version'
      BY <2>1, <2>3, <1>e
    <3> QED BY <2>3, <3>1, <1>d
  <2> QED BY <2>2, <2>3
<1>g. /\ buffer' \in Seq(Store) /\ BufferOrdered'
      /\ \A l, v : Pending(l, v)' <=> Pending(l, v) \/ (l = e.loc /\ v = e.val)
  <2>1. e.epoch = EpochOf(e.loc, e.val) /\ seq_ <= e.epoch /\ mem[e.loc] < e.val
    BY <1>c, <1>d, <1>e DEF EpochOf
  <2>2. /\ seq_' \in Nat /\ seq_ <= seq_' /\ Version' \in Nat /\ Version <= Version'
        /\ e.val <= (IF e.loc = Seq0 THEN seq_' ELSE Version') /\ e.loc \notin toWrite'
    <3>1. seq_' \in Nat /\ seq_ <= seq_' /\ Version' \in Nat /\ Version <= Version'
      BY <1>b, <1>c, <1>e
    <3>2. e.val <= (IF e.loc = Seq0 THEN seq_' ELSE Version')
      BY <3>1, <1>b, <1>d
    <3>3. e.loc \notin toWrite'
      BY <1>b, <1>d, FieldAssumption
    <3> QED BY <3>1, <3>2, <3>3
  <2> QED BY <2>1, <2>2, <1>a, <1>b, <1>d, <1>f, StoreAdded DEF Behind
<1>1. SeqLockType'
  BY <1>a, <1>b, <1>c, <1>e, <1>g DEF SeqLockType
<1>2. NothingLost'
  <2>1. ASSUME NEW k \in Nat, mem[Seq0] < k, k <= seq_ + 1 PROVE Pending(Seq0, k)'
    <3>1. k <= seq_ \/ k = seq_ + 1
      BY <2>1, <1>c
    <3> QED BY <2>1, <3>1, <1>a, <1>d, <1>g DEF NothingLost
  <2>2. ASSUME NEW f \in Field, NEW k \in Nat, mem[f] < k, k <= Version', k # Version'
        PROVE  Pending(f, k)'
    <3>1. k <= Version
      BY <2>2, <1>e
    <3> QED BY <2>2, <3>1, <1>a, <1>c, <1>g DEF NothingLost
  <2> QED BY <2>1, <2>2, <1>b, <1>c DEF NothingLost
<1>3. MemoryOrdered' /\ CopyFollows'
  BY <1>a, <1>b DEF MemoryOrdered, CopyFollows
<1>4. NotYetWritten'
  <2>1. \A f \in Field : mem[f] \in Nat /\ mem[f] <= Version
    BY <1>a, MemoryBehindWriter
  <2> QED BY <2>1, <1>b, <1>e DEF NotYetWritten
<1> QED BY <1>1, <1>2, <1>3, <1>4, <1>g DEF SeqLockIInv

LEMMA WriteFieldKeeps ==
  ASSUME SeqLockIInv, NEW f \in Field, WriteField(f)
  PROVE  SeqLockIInv'
<1> DEFINE e == Stored(f, seq_ \div 2 + 1, epoch)
<1>a. SeqLockType /\ BufferOrdered /\ NothingLost /\ NotYetWritten /\ MemoryOrdered /\ CopyFollows
  BY DEF SeqLockIInv
<1>b. /\ f \in toWrite /\ toWrite' = toWrite \ {f} /\ buffer' = Append(buffer, e)
      /\ UNCHANGED <<seq_, epoch, mem, s1, view, out, copied>>
  BY DEF WriteField, readerVars
<1>c. /\ seq_ \in Nat /\ epoch = seq_ /\ buffer \in Seq(Store) /\ Odd(seq_) /\ toWrite \subseteq Field
      /\ mem \in [Field \union {Seq0} -> Nat] /\ mem[f] \in Nat /\ mem[Seq0] \in Nat /\ mem[Seq0] <= seq_
  BY <1>a, <1>b DEF SeqLockType, NothingLost
<1>d. Version \in Nat /\ 2 * Version = seq_ + 1 /\ seq_ \div 2 + 1 = Version /\ Version' = Version
  <2>1. 2 * Version = seq_ + 1 /\ Version \in Nat
    BY <1>c, VersionOfWriter
  <2>2. seq_ % 2 = 1 /\ seq_ = 2 * (seq_ \div 2) + 1 /\ seq_ \div 2 \in Nat
    BY <1>c, Halves DEF Odd
  <2> QED BY <1>b, <2>1, <2>2 DEF Version
<1>e. e \in Store /\ e.loc = f /\ e.val = Version /\ e.epoch = seq_
  BY <1>c, <1>d DEF Stored, Store
<1> HIDE DEF e
<1>f. \A i \in 1 .. Len(buffer) : /\ buffer[i].loc \in toWrite' => buffer[i].val < Version'
                                  /\ buffer[i].loc = e.loc => buffer[i].val < e.val
  BY <1>a, <1>b, <1>d, <1>e DEF BufferOrdered
<1>g. /\ buffer' \in Seq(Store) /\ BufferOrdered'
      /\ \A l, v : Pending(l, v)' <=> Pending(l, v) \/ (l = e.loc /\ v = e.val)
  <2>1. e.epoch = EpochOf(e.loc, e.val) /\ seq_ <= e.epoch /\ mem[e.loc] < e.val
    BY <1>a, <1>b, <1>c, <1>d, <1>e, FieldAssumption DEF EpochOf, NotYetWritten
  <2>2. /\ seq_' \in Nat /\ seq_ <= seq_' /\ Version' \in Nat /\ Version <= Version'
        /\ e.val <= (IF e.loc = Seq0 THEN seq_' ELSE Version') /\ e.loc \notin toWrite'
    BY <1>b, <1>c, <1>d, <1>e, FieldAssumption
  <2> QED BY <2>1, <2>2, <1>a, <1>b, <1>e, <1>f, StoreAdded DEF Behind
<1>1. SeqLockType'
  BY <1>a, <1>b, <1>c, <1>g DEF SeqLockType
<1>2. NothingLost'
  <2>1. ASSUME NEW k \in Nat, mem[Seq0] < k, k <= seq_ PROVE Pending(Seq0, k)'
    BY <2>1, <1>a, <1>g DEF NothingLost
  <2>2. ASSUME NEW h \in Field, NEW k \in Nat, mem[h] < k, k <= Version, ~(h \in toWrite' /\ k = Version)
        PROVE  Pending(h, k)'
    <3>1. CASE h = f /\ k = Version
      BY <3>1, <1>e, <1>g
    <3>2. CASE ~(h = f /\ k = Version)
      BY <2>2, <3>2, <1>a, <1>b, <1>g DEF NothingLost
    <3> QED BY <3>1, <3>2
  <2> QED BY <2>1, <2>2, <1>b, <1>c, <1>d DEF NothingLost
<1>3. MemoryOrdered' /\ CopyFollows' /\ NotYetWritten'
  BY <1>a, <1>b, <1>d DEF MemoryOrdered, CopyFollows, NotYetWritten
<1> QED BY <1>1, <1>2, <1>3, <1>g DEF SeqLockIInv

LEMMA EndWriteKeeps ==
  ASSUME SeqLockIInv, end_write
  PROVE  SeqLockIInv'
<1> DEFINE e == Stored(Seq0, seq_ + 1, epoch + 1)
<1>a. SeqLockType /\ BufferOrdered /\ NothingLost /\ NotYetWritten /\ MemoryOrdered /\ CopyFollows
  BY DEF SeqLockIInv
<1>b. /\ Odd(seq_) /\ toWrite = {} /\ seq_' = seq_ + 1 /\ epoch' = epoch + 1 /\ buffer' = Append(buffer, e)
      /\ UNCHANGED <<toWrite, mem, s1, view, out, copied>>
  BY DEF end_write, Fence, readerVars
<1>c. /\ seq_ \in Nat /\ epoch = seq_ /\ buffer \in Seq(Store)
      /\ mem \in [Field \union {Seq0} -> Nat] /\ mem[Seq0] \in Nat /\ mem[Seq0] <= seq_
  BY <1>a, <1>b DEF SeqLockType, NothingLost
<1>d. e \in Store /\ e.loc = Seq0 /\ e.val = seq_ + 1 /\ e.epoch = seq_ + 1
  BY <1>c DEF Stored, Store
<1>e. ~Odd(seq_ + 1) /\ (seq_ + 1) % 2 = 0 /\ Version \in Nat /\ Version' = Version
  <2>1. seq_ % 2 = 1 /\ (seq_ + 1) % 2 = 0 /\ (seq_ + 2) \div 2 = (seq_ + 1) \div 2
    BY <1>b, <1>c, Halves DEF Odd
  <2>2. Version' = (seq_ + 2) \div 2 /\ Version \in Nat
    BY <1>b, <1>c, VersionOfWriter DEF Version
  <2> QED BY <2>1, <2>2 DEF Odd, Version
<1> HIDE DEF e
<1>f. \A i \in 1 .. Len(buffer) : /\ buffer[i].loc \in toWrite' => buffer[i].val < Version'
                                  /\ buffer[i].loc = e.loc => buffer[i].val < e.val
  <2> SUFFICES ASSUME NEW i \in 1 .. Len(buffer)
               PROVE  buffer[i].loc = Seq0 => buffer[i].val < seq_ + 1
    BY <1>b, <1>d
  <2>1. buffer[i] \in Store
    BY <1>c, ElementOfSeq
  <2>2. buffer[i].val <= (IF buffer[i].loc = Seq0 THEN seq_ ELSE Version) /\ buffer[i].val \in Nat
    BY <2>1, <1>a DEF BufferOrdered, Store
  <2> QED BY <2>2, <1>c
<1>g. /\ buffer' \in Seq(Store) /\ BufferOrdered'
      /\ \A l, v : Pending(l, v)' <=> Pending(l, v) \/ (l = e.loc /\ v = e.val)
  <2>1. e.epoch = EpochOf(e.loc, e.val) /\ seq_ <= e.epoch /\ mem[e.loc] < e.val
    BY <1>c, <1>d, <1>e DEF EpochOf
  <2>2. /\ seq_' \in Nat /\ seq_ <= seq_' /\ Version' \in Nat /\ Version <= Version'
        /\ e.val <= (IF e.loc = Seq0 THEN seq_' ELSE Version') /\ e.loc \notin toWrite'
    BY <1>b, <1>c, <1>d, <1>e
  <2> QED BY <2>1, <2>2, <1>a, <1>b, <1>d, <1>f, StoreAdded DEF Behind
<1>1. SeqLockType'
  BY <1>a, <1>b, <1>c, <1>g DEF SeqLockType
<1>2. NothingLost'
  <2>1. ASSUME NEW k \in Nat, mem[Seq0] < k, k <= seq_ + 1 PROVE Pending(Seq0, k)'
    <3>1. k <= seq_ \/ k = seq_ + 1
      BY <2>1, <1>c
    <3> QED BY <2>1, <3>1, <1>a, <1>d, <1>g DEF NothingLost
  <2>2. ASSUME NEW h \in Field, NEW k \in Nat, mem[h] < k, k <= Version
        PROVE  Pending(h, k)'
    BY <2>2, <1>a, <1>b, <1>g DEF NothingLost
  <2> QED BY <2>1, <2>2, <1>b, <1>c, <1>e DEF NothingLost
<1>3. MemoryOrdered' /\ CopyFollows' /\ NotYetWritten'
  BY <1>a, <1>b, <1>e DEF MemoryOrdered, CopyFollows, NotYetWritten
<1> QED BY <1>1, <1>2, <1>3, <1>g DEF SeqLockIInv

\* A store may become visible only when those it must not overtake are.
LEMMA VisibleIsOldest ==
  ASSUME SeqLockType, BufferOrdered, NEW i \in 1 .. Len(buffer),
         \A j \in 1 .. i - 1 : buffer[j].loc # buffer[i].loc /\ buffer[j].epoch = buffer[i].epoch
  PROVE  \A l, v : Pending(l, v) => /\ buffer[i].epoch <= EpochOf(l, v)
                                    /\ l = buffer[i].loc => buffer[i].val <= v
<1> SUFFICES ASSUME NEW l, NEW v, NEW j \in 1 .. Len(buffer), buffer[j].loc = l, buffer[j].val = v
             PROVE  /\ buffer[i].epoch <= buffer[j].epoch
                    /\ buffer[j].loc = buffer[i].loc => buffer[i].val <= buffer[j].val
  BY DEF Pending, BufferOrdered
<1>1. /\ buffer[i] \in Store /\ buffer[j] \in Store /\ Len(buffer) \in Nat
  BY ElementOfSeq, LenProperties DEF SeqLockType
<1>2. buffer[i].epoch \in Nat /\ buffer[j].epoch \in Nat /\ buffer[i].val \in Nat /\ buffer[j].val \in Nat
  BY <1>1 DEF Store
<1>3. CASE j < i
  BY <1>1, <1>2, <1>3
<1>4. CASE i = j
  BY <1>2, <1>4
<1>5. CASE i < j
  <2>1. buffer[i].epoch <= buffer[j].epoch /\ (buffer[i].loc = buffer[j].loc => buffer[i].val < buffer[j].val)
    BY <1>5 DEF BufferOrdered
  <2> QED BY <2>1, <1>2
<1> QED BY <1>1, <1>3, <1>4, <1>5

LEMMA BecomesVisibleKeeps ==
  ASSUME SeqLockIInv, BecomesVisible
  PROVE  SeqLockIInv'
<1>a. SeqLockType /\ BufferOrdered /\ NothingLost /\ NotYetWritten /\ MemoryOrdered /\ CopyFollows
  BY DEF SeqLockIInv
<1>b. PICK i \in DOMAIN buffer :
        /\ \A j \in 1 .. (i - 1) : buffer[j].loc # buffer[i].loc /\ buffer[j].epoch = buffer[i].epoch
        /\ mem' = [mem EXCEPT ![buffer[i].loc] = buffer[i].val]
        /\ buffer' = RemoveAt(buffer, i)
        /\ UNCHANGED <<seq_, epoch, toWrite, s1, view, out, copied>>
  BY DEF BecomesVisible, readerVars
<1> DEFINE n == Len(buffer)
           x == buffer[i]
           At(j) == IF j < i THEN j ELSE j + 1
<1>c. /\ seq_ \in Nat /\ buffer \in Seq(Store) /\ n \in Nat /\ i \in 1 .. n
      /\ mem \in [Field \union {Seq0} -> Nat] /\ toWrite \subseteq Field
  BY <1>a, <1>b, LenProperties DEF SeqLockType
<1>d. /\ x \in Store /\ x.loc \in Field \union {Seq0} /\ x.val \in Nat /\ x.epoch \in Nat
      /\ \A j \in 1 .. n : buffer[j] \in Store /\ buffer[j].val \in Nat /\ buffer[j].loc \in Field \union {Seq0}
  <2>1. \A j \in 1 .. n : buffer[j] \in Store
    BY <1>c, ElementOfSeq
  <2> QED BY <2>1, <1>c DEF Store
<1>e. /\ x.epoch = EpochOf(x.loc, x.val) /\ mem[x.loc] < x.val
      /\ x.val <= (IF x.loc = Seq0 THEN seq_ ELSE Version)
      /\ x.loc \in toWrite => x.val < Version
  BY <1>a, <1>c DEF BufferOrdered
<1>f. \A l, v : Pending(l, v) => x.epoch <= EpochOf(l, v) /\ (l = x.loc => x.val <= v)
  BY <1>a, <1>b, <1>c, VisibleIsOldest
<1>g. /\ buffer' \in Seq(Store) /\ Len(buffer') = n - 1
      /\ \A j \in 1 .. n - 1 : At(j) \in 1 .. n /\ At(j) # i /\ buffer'[j] = buffer[At(j)]
  <2>1. \A j \in 1 .. n - 1 : At(j) \in 1 .. n /\ At(j) # i
    BY <1>c
  <2> QED BY <2>1, <1>b, <1>c, TakenOut
<1>h. /\ mem' \in [Field \union {Seq0} -> Nat] /\ mem'[x.loc] = x.val
      /\ \A l \in Field \union {Seq0} : l # x.loc => mem'[l] = mem[l]
  BY <1>b, <1>c, <1>d
<1>i. Version \in Nat /\ Version' = Version /\ seq_' = seq_ /\ toWrite' = toWrite
  BY <1>b, <1>c, VersionOfWriter DEF Version
<1>j. \A j, k \in 1 .. n - 1 : j < k => At(j) < At(k)
  BY <1>c
<1> HIDE DEF n, x, At
<1>1. SeqLockType'
  BY <1>a, <1>b, <1>g, <1>h DEF SeqLockType
<1>2. BufferOrdered'
  <2>1. ASSUME NEW j \in 1 .. n - 1
        PROVE  /\ buffer'[j].epoch = EpochOf(buffer'[j].loc, buffer'[j].val)
               /\ mem'[buffer'[j].loc] < buffer'[j].val
               /\ buffer'[j].val <= IF buffer'[j].loc = Seq0 THEN seq_ ELSE Version
               /\ buffer'[j].loc \in toWrite => buffer'[j].val < Version
    <3> DEFINE k == At(j)
    <3>1. k \in 1 .. n /\ k # i /\ buffer'[j] = buffer[k]
      BY <1>g
    <3> HIDE DEF k
    <3>2. /\ buffer[k].epoch = EpochOf(buffer[k].loc, buffer[k].val)
          /\ mem[buffer[k].loc] < buffer[k].val
          /\ buffer[k].val <= IF buffer[k].loc = Seq0 THEN seq_ ELSE Version
          /\ buffer[k].loc \in toWrite => buffer[k].val < Version
      BY <3>1, <1>a DEF BufferOrdered, n
    <3>3. buffer[k].loc = x.loc => x.val < buffer[k].val
      <4>1. CASE k < i
        BY <4>1, <3>1, <1>b, <1>c DEF x, n
      <4>2. CASE i < k
        BY <4>2, <3>1, <1>a, <1>c DEF BufferOrdered, n, x
      <4> QED BY <4>1, <4>2, <3>1, <1>c
    <3>4. mem'[buffer[k].loc] < buffer[k].val
      BY <3>1, <3>2, <3>3, <1>d, <1>h
    <3> QED BY <3>1, <3>2, <3>4
  <2>2. ASSUME NEW j \in 1 .. n - 1, NEW k \in 1 .. n - 1, j < k
        PROVE  /\ buffer'[j].epoch <= buffer'[k].epoch
               /\ buffer'[j].loc = buffer'[k].loc => buffer'[j].val < buffer'[k].val
    <3>1. At(j) < At(k) /\ At(j) \in 1 .. n /\ At(k) \in 1 .. n
      BY <2>2, <1>g, <1>j
    <3>2. buffer'[j] = buffer[At(j)] /\ buffer'[k] = buffer[At(k)]
      BY <1>g
    <3> QED BY <3>1, <3>2, <1>a DEF BufferOrdered, n
  <2> QED BY <2>1, <2>2, <1>g, <1>i DEF BufferOrdered
<1>3. \A l, v : Pending(l, v) /\ ~(l = x.loc /\ v = x.val) => Pending(l, v)'
  <2> SUFFICES ASSUME NEW l, NEW v, NEW j \in 1 .. n, buffer[j].loc = l, buffer[j].val = v,
                      ~(l = x.loc /\ v = x.val)
               PROVE  \E k \in 1 .. n - 1 : buffer'[k].loc = l /\ buffer'[k].val = v
    BY <1>g DEF Pending, n
  <2>1. j # i
    BY DEF x
  <2>2. CASE j < i
    <3>1. j \in 1 .. n - 1 /\ At(j) = j
      BY <2>2, <1>c DEF At
    <3> QED BY <3>1, <1>g
  <2>3. CASE i < j
    <3>1. j - 1 \in 1 .. n - 1 /\ At(j - 1) = j
      BY <2>3, <1>c DEF At
    <3> QED BY <3>1, <1>g
  <2> QED BY <2>1, <2>2, <2>3, <1>c
<1>4. NothingLost'
  <2>1. mem'[Seq0] <= seq_
    BY <1>a, <1>e, <1>h DEF NothingLost
  <2>2. ASSUME NEW k \in Nat, mem'[Seq0] < k, k <= seq_ PROVE Pending(Seq0, k)'
    <3>1. mem[Seq0] \in Nat /\ mem'[Seq0] \in Nat /\ mem[Seq0] <= mem'[Seq0] /\ ~(Seq0 = x.loc /\ k = x.val)
      BY <2>2, <1>c, <1>d, <1>e, <1>h
    <3>2. Pending(Seq0, k)
      BY <2>2, <3>1, <1>a, <1>c DEF NothingLost
    <3> QED BY <3>1, <3>2, <1>3
  <2>3. ASSUME NEW f \in Field, NEW k \in Nat, mem'[f] < k, k <= Version, ~(f \in toWrite /\ k = Version)
        PROVE  Pending(f, k)'
    <3>1. mem[f] \in Nat /\ mem'[f] \in Nat /\ mem[f] <= mem'[f] /\ ~(f = x.loc /\ k = x.val)
      BY <2>3, <1>c, <1>d, <1>e, <1>h
    <3>2. Pending(f, k)
      BY <2>3, <3>1, <1>a, <1>c DEF NothingLost
    <3> QED BY <3>1, <3>2, <1>3
  <2> QED BY <2>1, <2>2, <2>3, <1>i DEF NothingLost
<1>5. NotYetWritten'
  BY <1>a, <1>c, <1>e, <1>h, <1>i DEF NotYetWritten
\* The number moves by one, and to an even one only when all fields of the
\* version are there; a field moves only when its number is there.
<1>6. MemoryOrdered'
  <2> DEFINE V == mem[Seq0]
  <2>1. V \in Nat /\ V <= seq_ /\ (V % 2 = 0 \/ V % 2 = 1) /\ V = 2 * (V \div 2) + (V % 2) /\ V \div 2 \in Nat
    BY <1>a, <1>c, Halves DEF NothingLost
  <2>2. /\ V % 2 = 0 => (V + 1) \div 2 = V \div 2 /\ (V + 1) % 2 = 1
        /\ V % 2 = 1 => (V + 1) \div 2 = V \div 2 + 1 /\ (V + 1) % 2 = 0 /\ (V + 2) \div 2 = V \div 2 + 1
        /\ (V % 2 = 0 => (V + 2) \div 2 = V \div 2 + 1)
    BY <2>1
  <2>3. \A f \in Field : mem[f] = V \div 2 \/ mem[f] = (V + 1) \div 2
    BY <1>a DEF MemoryOrdered
  <2> HIDE DEF V
  <2>4. CASE x.loc = Seq0
    <3>1. x.val = V + 1
      <4>1. V < x.val /\ x.val <= seq_
        BY <2>4, <1>e DEF V
      <4>2. Pending(Seq0, V + 1)
        <5>1. V + 1 \in Nat /\ mem[Seq0] < V + 1 /\ V + 1 <= seq_
          <6>1. V \in Nat /\ x.val \in Nat /\ seq_ \in Nat
            BY <2>1, <1>c, <1>d
          <6>2. V + 1 \in Nat /\ V < V + 1 /\ V + 1 <= seq_
            BY <6>1, <4>1
          <6> QED BY <6>2 DEF V
        <5> QED BY <5>1, <1>a DEF NothingLost
      <4> QED BY <4>1, <4>2, <2>1, <2>4, <1>d, <1>f
    <3>2. mem'[Seq0] = V + 1 /\ \A f \in Field : mem'[f] = mem[f]
      BY <3>1, <2>4, <1>h, FieldAssumption
    <3>3. CASE V % 2 = 0
      BY <3>2, <3>3, <2>1, <2>2, <2>3 DEF MemoryOrdered
    <3>4. CASE V % 2 = 1
      <4>1. ASSUME NEW f \in Field PROVE mem[f] = V \div 2 + 1
        <5>1. SUFFICES ASSUME mem[f] = V \div 2 PROVE FALSE
          BY <3>4, <2>2, <2>3
        <5> DEFINE k == V \div 2 + 1
        <5>2. k \in Nat /\ mem[f] < k /\ 2 * k = V + 1 /\ V + 1 <= seq_
          BY <5>1, <3>1, <3>4, <2>1, <2>4, <1>d, <1>e
        <5>3. k <= Version /\ ~(f \in toWrite /\ k = Version)
          <6>1. /\ Odd(seq_) => 2 * Version = seq_ + 1
                /\ ~Odd(seq_) => 2 * Version = seq_
            BY <1>c, VersionOfWriter
          <6>2. toWrite # {} => Odd(seq_)
            BY <1>a DEF SeqLockType
          <6> QED BY <5>2, <6>1, <6>2, <1>c, <1>i
        <5>4. Pending(f, k)
          BY <5>2, <5>3, <1>a DEF NothingLost
        <5>5. x.epoch <= 2 * k - 1
          BY <5>4, <1>f, FieldAssumption DEF EpochOf
        <5>6. x.epoch = V + 1
          BY <3>1, <3>4, <2>1, <2>2, <2>4, <1>e DEF EpochOf
        <5> QED BY <5>2, <5>5, <5>6, <2>1
      <4> QED BY <3>2, <3>4, <4>1, <2>1, <2>2 DEF MemoryOrdered
    <3> QED BY <3>3, <3>4, <2>1
  <2>5. CASE x.loc # Seq0
    <3>1. mem'[Seq0] = V /\ x.loc \in Field /\ \A f \in Field : mem'[f] = IF f = x.loc THEN x.val ELSE mem[f]
      BY <2>5, <1>d, <1>h, FieldAssumption DEF V
    <3>2. x.val <= Version /\ x.epoch = 2 * x.val - 1 /\ mem[x.loc] < x.val
      BY <2>5, <1>e DEF EpochOf
    <3>3. 2 * x.val - 1 <= V
      <4>1. SUFFICES ASSUME V < 2 * x.val - 1 PROVE FALSE
        BY <2>1, <1>d
      <4>2. 2 * x.val - 1 <= seq_ /\ 2 * x.val - 1 \in Nat
        <5>1. 2 * Version <= seq_ + 1
          BY <1>c, VersionOfWriter
        <5> QED BY <3>2, <4>1, <5>1, <2>1, <1>c, <1>d, <1>i
      <4>3. Pending(Seq0, 2 * x.val - 1)
        BY <4>1, <4>2, <1>a DEF NothingLost, V
      <4>4. EpochOf(Seq0, 2 * x.val - 1) = 2 * x.val - 2
        <5>1. (2 * x.val - 1) % 2 = 1
          <6>1. \A k \in Nat : 2 * k - 1 \in Nat => (2 * k - 1) % 2 = 1
            OBVIOUS
          <6> QED BY <4>2, <6>1, <1>d
        <5> QED BY <5>1, <1>d DEF EpochOf
      <4> QED BY <3>2, <4>3, <4>4, <1>d, <1>f
    <3>4. x.val = (V + 1) \div 2
      BY <3>1, <3>2, <3>3, <2>1, <2>2, <2>3, <1>d
    <3> QED BY <3>1, <3>4, <2>3 DEF MemoryOrdered
  <2> QED BY <2>4, <2>5
<1>7. CopyFollows'
  <2>1. mem[Seq0] \in Nat /\ mem'[Seq0] \in Nat /\ (x.loc # Seq0 => mem'[Seq0] = mem[Seq0])
        /\ (x.loc = Seq0 => mem[Seq0] < mem'[Seq0])
    BY <1>c, <1>e, <1>h
  <2>2. s1 # Unread => s1 \in Nat
    BY <1>a DEF SeqLockType
  <2> QED BY <2>1, <2>2, <1>a, <1>b DEF CopyFollows
<1> QED BY <1>1, <1>2, <1>4, <1>5, <1>6, <1>7 DEF SeqLockIInv

LEMMA LoadStartKeeps ==
  ASSUME SeqLockIInv, LoadStart
  PROVE  SeqLockIInv'
<1>a. SeqLockType /\ BufferOrdered /\ NothingLost /\ NotYetWritten /\ MemoryOrdered /\ CopyFollows
  BY DEF SeqLockIInv
<1>b. /\ ~Odd(mem[Seq0]) /\ s1' = mem[Seq0] /\ view' \in Views /\ copied' = {}
      /\ UNCHANGED <<out, seq_, epoch, buffer, toWrite, mem>>
  BY DEF LoadStart, Quiet, writerVars
<1>c. mem[Seq0] \in Nat
  BY <1>a DEF SeqLockType
<1>1. SeqLockType'
  BY <1>a, <1>b, <1>c, FieldAssumption DEF SeqLockType
<1>2. BufferOrdered' /\ NothingLost' /\ NotYetWritten' /\ MemoryOrdered'
  BY <1>a, <1>b DEF BufferOrdered, NothingLost, NotYetWritten, MemoryOrdered, Pending, Version
<1>3. CopyFollows'
  BY <1>b, <1>c DEF CopyFollows
<1> QED BY <1>1, <1>2, <1>3 DEF SeqLockIInv

LEMMA CopyFieldKeeps ==
  ASSUME SeqLockIInv, NEW f \in Field, CopyField(f)
  PROVE  SeqLockIInv'
<1>a. SeqLockType /\ BufferOrdered /\ NothingLost /\ NotYetWritten /\ MemoryOrdered /\ CopyFollows
  BY DEF SeqLockIInv
<1>b. /\ s1 # Unread /\ f \in view \ copied
      /\ out' = [out EXCEPT ![f] = mem[f]] /\ copied' = copied \union {f}
      /\ UNCHANGED <<s1, view, seq_, epoch, buffer, toWrite, mem>>
  BY DEF CopyField, writerVars
<1>c. mem[Seq0] \in Nat /\ mem[f] \in Nat /\ s1 \in Nat /\ out \in [Field -> Nat] /\ copied \subseteq Field
  BY <1>a, <1>b DEF SeqLockType
<1>1. SeqLockType'
  BY <1>a, <1>b, <1>c DEF SeqLockType
<1>2. BufferOrdered' /\ NothingLost' /\ NotYetWritten' /\ MemoryOrdered'
  BY <1>a, <1>b DEF BufferOrdered, NothingLost, NotYetWritten, MemoryOrdered, Pending, Version
<1>3. CopyFollows'
  <2>1. ~Odd(s1) /\ s1 <= mem[Seq0] /\ (mem[Seq0] = s1 => \A g \in copied : out[g] = s1 \div 2)
    BY <1>a, <1>b DEF CopyFollows
  \* An even number stands for one version only.
  <2>2. mem[Seq0] = s1 => mem[f] = s1 \div 2
    <3>1. s1 % 2 = 0 /\ (s1 + 1) \div 2 = s1 \div 2
      BY <2>1, <1>c, Halves DEF Odd
    <3> QED BY <3>1, <1>a DEF MemoryOrdered
  <2>3. out'[f] = mem[f] /\ \A g \in copied : out'[g] = IF g = f THEN mem[f] ELSE out[g]
    BY <1>b, <1>c
  <2> QED BY <2>1, <2>2, <2>3, <1>b DEF CopyFollows
<1> QED BY <1>1, <1>2, <1>3 DEF SeqLockIInv

LEMMA LoadReturnKeeps ==
  ASSUME SeqLockIInv, LoadReturn
  PROVE  SeqLockIInv'
<1>a. SeqLockType /\ BufferOrdered /\ NothingLost /\ NotYetWritten /\ MemoryOrdered
  BY DEF SeqLockIInv
<1>b. s1' = Unread /\ view' = {} /\ copied' = {} /\ UNCHANGED <<out, seq_, epoch, buffer, toWrite, mem>>
  BY DEF LoadReturn, writerVars
<1>1. SeqLockType'
  BY <1>a, <1>b DEF SeqLockType
<1>2. BufferOrdered' /\ NothingLost' /\ NotYetWritten' /\ MemoryOrdered' /\ CopyFollows'
  BY <1>a, <1>b DEF BufferOrdered, NothingLost, NotYetWritten, MemoryOrdered, Pending, Version, CopyFollows
<1> QED BY <1>1, <1>2 DEF SeqLockIInv

LEMMA SeqLockStep == SeqLockIInv /\ [SeqLockNext]_seqLockVars => SeqLockIInv'
<1> SUFFICES ASSUME SeqLockIInv, [SeqLockNext]_seqLockVars PROVE SeqLockIInv'
  OBVIOUS
<1>1. CASE begin_write
  BY <1>1, BeginWriteKeeps
<1>2. CASE end_write
  BY <1>2, EndWriteKeeps
<1>3. CASE BecomesVisible
  BY <1>3, BecomesVisibleKeeps
<1>4. ASSUME NEW f \in Field, WriteField(f) PROVE SeqLockIInv'
  BY <1>4, WriteFieldKeeps
<1>5. ASSUME NEW f \in Field, CopyField(f) PROVE SeqLockIInv'
  BY <1>5, CopyFieldKeeps
<1>6. CASE LoadStart
  BY <1>6, LoadStartKeeps
<1>7. CASE LoadReturn
  BY <1>7, LoadReturnKeeps
<1>8. CASE UNCHANGED seqLockVars
  BY <1>8 DEF SeqLockIInv, SeqLockType, BufferOrdered, NothingLost, NotYetWritten, MemoryOrdered, CopyFollows,
       Pending, Version, seqLockVars, writerVars, readerVars
<1> QED BY <1>1, <1>2, <1>3, <1>4, <1>5, <1>6, <1>7, <1>8 DEF SeqLockNext

\* The seqlock's inductive invariant: stores wait in the order of fences and
\* values, none is lost, the visible fields are of the visible number's version,
\* and a copy is of the reader's number as long as that is the visible one.
THEOREM SeqLockInductive == SeqLockSpec => []SeqLockIInv
<1>1. SeqLockInit => SeqLockIInv
  BY SeqLockStart
<1>2. SeqLockIInv /\ [SeqLockNext]_seqLockVars => SeqLockIInv'
  BY SeqLockStep
<1> QED BY <1>1, <1>2, PTL DEF SeqLockSpec

\* A copy load_prefix() accepts is one version of the state, for any number of
\* fields and writes and any order in which stores become visible.
THEOREM CopiesAreWhole == SeqLockSpec => []SeqLockInv
<1>1. SeqLockIInv => SeqLockInv
  <2> SUFFICES ASSUME SeqLockIInv PROVE SeqLockInv
    OBVIOUS
  <2>1. MemoryOrdered /\ CopyFollows
    BY DEF SeqLockIInv
  <2>2. CopyIsOneVersion
    BY <2>1 DEF CopyIsOneVersion, Copied, CopyFollows
  <2> QED BY <2>1, <2>2 DEF SeqLockInv
<1> QED BY <1>1, SeqLockInductive, PTL

-----------------------------------------------------------------------------
(* The inductive invariant of the log queue and the logger *)

Rec == Caller \X Nat

LoggerType ==
  /\ enqueue_pos \in Nat /\ dequeue_pos \in Nat
  /\ dequeue_pos <= enqueue_pos /\ enqueue_pos <= dequeue_pos + QueueCap
  /\ cellSeq \in [0 .. QueueCap - 1 -> Nat] /\ cellData \in [0 .. QueueCap - 1 -> Rec]
  /\ pc \in [Caller -> {"out", "claim", "fill", "commit", "check", "drain"}]
  /\ pos \in [Caller -> Nat] /\ logged \in [Caller -> Nat]
  /\ written \in Seq(Rec) /\ Len(written) = dequeue_pos

\* Who may drain, by main's phase: main alone before start() and after stop(),
\* the log thread in between.
Handover ==
  /\ consumer \subseteq Drainer /\ \A c \in consumer : Draining(c)
  /\ \/ phase = "boot" /\ ~ running_ /\ logPc = "off" /\ \A t \in Thread : pc[t] = "out"
     \/ phase = "up" /\ running_ /\ logPc \in {"loop", "look"} /\ \A t \in Caller : pc[t] # "drain"
     \/ phase = "stopping" /\ ~ running_ /\ logPc \in {"loop", "look", "last", "ended"} /\ \A t \in Caller : pc[t] = "out"
     \/ phase = "down" /\ ~ running_ /\ logPc = "ended" /\ \A t \in Thread : pc[t] = "out"

Busy(t) == pc[t] \in {"fill", "commit"}
Offered(t) == pc[t] \in {"claim", "fill", "commit"}
Number(p) == cellSeq[Cell(p)]

\* The number of a cell says who has it: p while position p is free or being
\* filled, p + 1 from its commit to its pop.
CellNumbers ==
  /\ \A p \in dequeue_pos .. enqueue_pos - 1 : Number(p) \in {p, p + 1}
  /\ \A p \in enqueue_pos .. dequeue_pos + QueueCap - 1 : Number(p) = p
  /\ consumer # {} => Committed

\* A claimed position has one thread that fills it.
Owners ==
  /\ \A t \in Caller : Busy(t) => pos[t] \in dequeue_pos .. enqueue_pos - 1 /\ Number(pos[t]) = pos[t]
  /\ \A t, u \in Caller : Busy(t) /\ Busy(u) /\ t # u => pos[t] # pos[u]
  /\ \A p \in dequeue_pos .. enqueue_pos - 1 : Number(p) = p => \E t \in Caller : Busy(t) /\ pos[t] = p
  /\ \A t \in Caller : pc[t] = "commit" => cellData[Cell(pos[t])] = Record(t)

\* The record at a position, and whether it is there: written, or committed.
At(p) == IF p < dequeue_pos THEN written[p + 1] ELSE cellData[Cell(p)]
Settled(p) == p < dequeue_pos \/ Number(p) = p + 1
Positions == 0 .. enqueue_pos - 1

\* Positions hold each thread's records in the order it logged them, and the
\* record a thread is about to place comes after all of them.
InOrder ==
  /\ \A t \in Caller : Offered(t) => logged[t] > 0
  /\ \A p \in Positions : Settled(p) => At(p)[2] \in 1 .. logged[At(p)[1]]
  /\ \A p, q \in Positions : p < q /\ Settled(p) /\ Settled(q) /\ At(p)[1] = At(q)[1] => At(p)[2] < At(q)[2]
  /\ \A p \in Positions, t \in Caller :
       Settled(p) /\ At(p)[1] = t /\ Offered(t) => At(p)[2] < logged[t] /\ (Busy(t) => p < pos[t])

\* No record is lost: it was dropped, it has a position, or its thread is
\* about to place it.
Found ==
  \A t \in Caller : \A n \in 1 .. logged[t] :
    \/ <<t, n>> \in dropped
    \/ \E p \in Positions : Settled(p) /\ At(p) = <<t, n>>
    \/ n = logged[t] /\ Offered(t)

\* What was left in the queue is drained by the last to look.
Emptied ==
  /\ phase = "stopping" /\ logPc = "ended" => dequeue_pos = enqueue_pos
  /\ phase = "down" /\ pc[Main] = "out" => dequeue_pos = enqueue_pos

LoggerIInv == LoggerType /\ Handover /\ CellNumbers /\ Owners /\ InOrder /\ Found /\ Emptied

-----------------------------------------------------------------------------
LEMMA CellRange == \A p \in Nat : Cell(p) \in 0 .. QueueCap - 1
  BY LoggerAssumption DEF Cell

\* Positions less than a lap apart have different cells.
LEMMA CellsDistinct ==
  ASSUME NEW p \in Nat, NEW q \in Nat, p # q, p < q + QueueCap, q < p + QueueCap
  PROVE  Cell(p) # Cell(q)
<1>1. /\ p = QueueCap * (p \div QueueCap) + (p % QueueCap)
      /\ q = QueueCap * (q \div QueueCap) + (q % QueueCap)
      /\ p \div QueueCap \in Int /\ q \div QueueCap \in Int
  BY LoggerAssumption
<1>2. SUFFICES ASSUME p % QueueCap = q % QueueCap PROVE FALSE
  BY DEF Cell
<1>3. q - p = QueueCap * ((q \div QueueCap) - (p \div QueueCap))
  BY <1>1, <1>2, LoggerAssumption
<1>4. \/ (q \div QueueCap) - (p \div QueueCap) >= 1 \/ (q \div QueueCap) - (p \div QueueCap) <= -1
      \/ (q \div QueueCap) - (p \div QueueCap) = 0
  BY <1>1
<1> QED BY <1>1, <1>3, <1>4, LoggerAssumption

\* Two drainers are one.
LEMMA OneDrains ==
  ASSUME Handover, NEW c \in Drainer, NEW d \in Drainer, Draining(c), Draining(d)
  PROVE  c = d
  BY LoggerAssumption DEF Handover, Draining, Drainer, Caller

LEMMA LoggerStart == LoggerInit => LoggerIInv
<1> SUFFICES ASSUME LoggerInit PROVE LoggerIInv
  OBVIOUS
<1>1. Main \in Caller /\ \A t \in Thread : t \in Caller
  BY DEF Caller
<1>2. LoggerType
  <2>1. Half \in Rec /\ <<>> \in Seq(Rec) /\ Len(<<>>) = 0
    BY <1>1, EmptySeq DEF Half, Rec
  <2>2. cellSeq \in [0 .. QueueCap - 1 -> Nat] /\ cellData \in [0 .. QueueCap - 1 -> Rec]
    BY <2>1, LoggerAssumption DEF LoggerInit
  <2>3. pc \in [Caller -> {"out", "claim", "fill", "commit", "check", "drain"}] /\ pos \in [Caller -> Nat] /\ logged \in [Caller -> Nat]
    BY DEF LoggerInit
  <2> QED BY <2>1, <2>2, <2>3, LoggerAssumption DEF LoggerInit, LoggerType
<1>3. Handover
  BY <1>1 DEF LoggerInit, Handover
<1>4. CellNumbers
  <2>1. \A p \in 0 .. QueueCap - 1 : Cell(p) = p
    BY LoggerAssumption DEF Cell
  <2>2. \A p \in 0 .. QueueCap - 1 : Number(p) = p
    BY <2>1 DEF LoggerInit, Number
  <2> QED BY <2>2, LoggerAssumption DEF LoggerInit, CellNumbers
<1>5. Positions = {} /\ (\A p : p \notin dequeue_pos .. enqueue_pos - 1) /\ \A t \in Caller : logged[t] = 0 /\ pc[t] = "out"
  BY DEF LoggerInit, Positions
<1>6. Owners
  BY <1>5 DEF Owners, Busy
<1>7. InOrder
  BY <1>5 DEF InOrder, Offered
<1>8. Found
  BY <1>5 DEF Found
<1>9. Emptied
  BY DEF LoggerInit, Emptied
<1> QED BY <1>2, <1>3, <1>4, <1>6, <1>7, <1>8, <1>9 DEF LoggerIInv

-----------------------------------------------------------------------------
(* The handover of the queue's one consumer *)

LEMMA HandoverStep ==
  ASSUME LoggerIInv, LoggerNext
  PROVE  Handover'
<1>a. Handover /\ pc \in [Caller -> {"out", "claim", "fill", "commit", "check", "drain"}]
  BY DEF LoggerIInv, LoggerType
<1>b. Main \in Caller /\ Thread \subseteq Caller /\ Main \notin Thread /\ LogThread \notin Caller /\ Caller \subseteq Drainer
  BY LoggerAssumption DEF Caller, Drainer
<1>c. \A t \in Caller : t # LogThread
  BY <1>b
<1>1. ASSUME NEW t \in Caller, Call(t) PROVE Handover'
  <2>1. /\ pc[t] = "out" /\ (t = Main \/ phase = "up") /\ phase # "stopping" /\ pc' = [pc EXCEPT ![t] = "claim"]
        /\ UNCHANGED <<running_, consumer, logPc, phase>>
    BY <1>1, <1>a DEF Call, Goto, Handover
  <2>2. pc'[t] = "claim" /\ \A u \in Caller : u # t => pc'[u] = pc[u]
    BY <2>1, <1>a
  <2>3. \A c \in consumer : Draining(c)'
    BY <2>1, <2>2, <1>a, <1>b DEF Handover, Draining, Drainer
  <2> QED BY <2>1, <2>2, <2>3, <1>a, <1>b DEF Handover
<1>2. ASSUME NEW t \in Caller, NEW l \in {"claim", "fill", "commit", "check"}, pc[t] \in {"claim", "fill", "commit"},
             pc' = [pc EXCEPT ![t] = l], UNCHANGED <<running_, consumer, logPc, phase>>
      PROVE  Handover'
  <2>1. pc'[t] = l /\ \A u \in Caller : u # t => pc'[u] = pc[u]
    BY <1>2, <1>a
  <2>2. \A c \in consumer : Draining(c)'
    BY <2>1, <1>2, <1>a, <1>b DEF Handover, Draining, Drainer
  <2>3. phase = "up" \/ (t = Main /\ phase \in {"boot", "down"})
    BY <1>2, <1>a DEF Handover, Caller
  <2> QED BY <2>1, <2>2, <2>3, <1>2, <1>a, <1>b DEF Handover
<1>3. ASSUME NEW t \in Caller, ClaimFree(t) \/ ClaimFull(t) \/ ClaimStale(t) \/ Fill(t) \/ commit(t) PROVE Handover'
  <2>1. CASE pc' = pc
    <3>1. UNCHANGED <<pc, running_, consumer, logPc, phase>>
      BY <1>3, <2>1 DEF ClaimFree, ClaimFull, ClaimStale, Fill, commit
    <3> QED BY <3>1, <1>a DEF Handover, Draining
  <2>2. CASE pc' # pc
    <3>1. /\ pc[t] \in {"claim", "fill", "commit"} /\ UNCHANGED <<running_, consumer, logPc, phase>>
          /\ \E l \in {"claim", "fill", "commit", "check"} : pc' = [pc EXCEPT ![t] = l]
      BY <1>3, <2>2 DEF ClaimFree, ClaimFull, ClaimStale, Fill, commit, Goto
    <3> QED BY <3>1, <1>2
  <2> QED BY <2>1, <2>2
<1>4. ASSUME NEW t \in Caller, CheckRunning(t) PROVE Handover'
  <2>1. /\ pc[t] = "check" /\ pc' = [pc EXCEPT ![t] = IF running_ THEN "out" ELSE "drain"]
        /\ UNCHANGED <<running_, consumer, logPc, phase>>
    BY <1>4 DEF CheckRunning, Goto
  <2>2. pc'[t] = (IF running_ THEN "out" ELSE "drain") /\ \A u \in Caller : u # t => pc'[u] = pc[u]
    BY <2>1, <1>a
  <2>3. \A c \in consumer : Draining(c)'
    BY <2>1, <2>2, <1>a, <1>b DEF Handover, Draining, Drainer
  <2>4. phase = "up" \/ (t = Main /\ phase \in {"boot", "down"})
    BY <2>1, <1>a DEF Handover, Caller
  <2> QED BY <2>1, <2>2, <2>3, <2>4, <1>a, <1>b DEF Handover
<1>5. ASSUME NEW t \in Caller, Drained(t) PROVE Handover'
  <2>1. /\ pc[t] = "drain" /\ t \notin consumer /\ pc' = [pc EXCEPT ![t] = "out"]
        /\ UNCHANGED <<running_, consumer, logPc, phase>>
    BY <1>5 DEF Drained, Goto
  <2>2. pc'[t] = "out" /\ \A u \in Caller : u # t => pc'[u] = pc[u]
    BY <2>1, <1>a
  <2>3. \A c \in consumer : Draining(c)'
    BY <2>1, <2>2, <1>a, <1>b DEF Handover, Draining, Drainer
  <2> QED BY <2>1, <2>2, <2>3, <1>a, <1>b DEF Handover
<1>6. ASSUME NEW c \in Drainer, Drain(c) PROVE Handover'
  <2>1. UNCHANGED <<pc, running_, logPc, phase>> /\ (consumer' \subseteq consumer \/ (consumer' = consumer \cup {c} /\ Draining(c)))
    BY <1>6 DEF Drain, front, pop
  <2>2. \A d : Draining(d)' <=> Draining(d)
    BY <2>1 DEF Draining
  <2> QED BY <1>6, <2>1, <2>2, <1>a DEF Handover
<1>7. ASSUME LogLoop PROVE Handover'
  <2>1. /\ LogThread \notin consumer /\ UNCHANGED <<pc, running_, consumer, phase>>
        /\ \/ logPc = "loop" /\ logPc' = "look"
           \/ logPc = "look" /\ logPc' = IF running_ THEN "loop" ELSE "last"
           \/ logPc = "last" /\ logPc' = "ended"
    BY <1>7 DEF LogLoop, AfterLoop
  <2>2. \A c \in consumer : Draining(c)'
    BY <2>1, <1>a DEF Handover, Draining
  <2> QED BY <2>1, <2>2, <1>a DEF Handover
<1>8. ASSUME start \/ stop \/ StopReturns PROVE Handover'
  <2>1. UNCHANGED <<pc, consumer>>
    BY <1>8 DEF start, stop, StopReturns
  <2>2. CASE start
    <3>1. phase = "boot" /\ pc[Main] = "out" /\ phase' = "up" /\ running_' = TRUE /\ logPc' = "loop"
      BY <2>2 DEF start
    <3>2. \A t \in Caller : pc[t] = "out"
      BY <3>1, <1>a DEF Handover, Caller
    <3>3. consumer = {}
      BY <3>1, <3>2, <1>a, <1>c DEF Handover, Draining, Drainer
    <3> QED BY <2>1, <3>1, <3>2, <3>3 DEF Handover
  <2>3. CASE stop
    <3>1. phase = "up" /\ pc[Main] = "out" /\ Joined /\ phase' = "stopping" /\ running_' = FALSE /\ logPc' = logPc
      BY <2>3 DEF stop
    <3>2. \A t \in Caller : pc[t] = "out"
      BY <3>1 DEF Joined, Caller
    <3> QED BY <2>1, <3>1, <3>2, <1>a DEF Handover, Draining
  <2>4. CASE StopReturns
    <3>1. phase = "stopping" /\ logPc = "ended" /\ phase' = "down" /\ UNCHANGED <<running_, logPc>>
      BY <2>4 DEF StopReturns
    <3> QED BY <2>1, <3>1, <1>a, <1>b DEF Handover, Draining
  <2> QED BY <1>8, <2>2, <2>3, <2>4
<1> QED BY <1>1, <1>3, <1>4, <1>5, <1>6, <1>7, <1>8 DEF LoggerNext, Vlog

-----------------------------------------------------------------------------
(* The queue *)

LEMMA RecordType ==
  ASSUME LoggerType
  PROVE  \A p \in Positions : At(p) \in Rec /\ At(p)[1] \in Caller /\ At(p)[2] \in Nat /\ At(p) = <<At(p)[1], At(p)[2]>>
<1> SUFFICES ASSUME NEW p \in Positions PROVE At(p) \in Rec
  BY DEF Rec
<1>1. p \in Nat /\ p < enqueue_pos
  BY DEF LoggerType, Positions
<1>2. CASE p < dequeue_pos
  <2>1. p + 1 \in 1 .. Len(written)
    BY <1>1, <1>2 DEF LoggerType
  <2>2. written[p + 1] \in Rec
    BY <2>1, ElementOfSeq DEF LoggerType
  <2> QED BY <1>2, <2>2 DEF At
<1>3. CASE ~ (p < dequeue_pos)
  BY <1>1, <1>3, CellRange DEF At, LoggerType
<1> QED BY <1>2, <1>3

\* A step that settles no further position keeps the records in order and
\* loses none, when each thread at most gives up what it had offered (it is
\* dropped), or offers its next record.
LEMMA RecordsKept ==
  ASSUME LoggerType, LoggerType', InOrder, Found, dropped \subseteq dropped',
         \A p \in Positions' : Settled(p)' => p \in Positions /\ Settled(p) /\ At(p)' = At(p),
         \A p \in Positions : Settled(p) => p \in Positions' /\ Settled(p)',
         \A t \in Caller :
           \/ /\ logged'[t] = logged[t]
              /\ Offered(t)' => Offered(t)
              /\ Offered(t) => Offered(t)' \/ <<t, logged[t]>> \in dropped'
              /\ Busy(t)' => (Busy(t) /\ pos'[t] = pos[t]) \/ pos'[t] >= enqueue_pos
           \/ logged'[t] = logged[t] + 1 /\ ~ Offered(t) /\ Offered(t)' /\ ~ Busy(t)'
  PROVE  InOrder' /\ Found'
<1>a. \A t \in Caller : logged[t] \in Nat /\ logged'[t] \in Nat /\ logged[t] <= logged'[t] /\ pos[t] \in Nat /\ pos'[t] \in Nat
  <2>1. \A t \in Caller : logged[t] \in Nat /\ logged'[t] \in Nat /\ pos[t] \in Nat /\ pos'[t] \in Nat
    BY DEF LoggerType
  <2>2. \A t \in Caller : logged'[t] = logged[t] \/ logged'[t] = logged[t] + 1
    OBVIOUS
  <2> QED BY <2>1, <2>2
<1>b. \A p \in Positions' : Settled(p)' => p \in Positions /\ Settled(p) /\ At(p)' = At(p)
  OBVIOUS
<1>1. \A p \in Positions' : Settled(p)' => At(p)'[2] \in 1 .. logged'[At(p)'[1]]
  <2> SUFFICES ASSUME NEW p \in Positions', Settled(p)' PROVE At(p)'[2] \in 1 .. logged'[At(p)'[1]]
    OBVIOUS
  <2>1. p \in Positions /\ Settled(p) /\ At(p)' = At(p)
    BY <1>b
  <2>2. At(p)[1] \in Caller /\ At(p)[2] \in Nat
    BY <2>1, RecordType
  <2>3. At(p)[2] \in 1 .. logged[At(p)[1]]
    BY <2>1 DEF InOrder
  <2>4. logged[At(p)[1]] \in Nat /\ logged'[At(p)[1]] \in Nat /\ logged[At(p)[1]] <= logged'[At(p)[1]]
    BY <2>2, <1>a
  <2> QED BY <2>1, <2>2, <2>3, <2>4
<1>2. \A p, q \in Positions' :
        p < q /\ Settled(p)' /\ Settled(q)' /\ At(p)'[1] = At(q)'[1] => At(p)'[2] < At(q)'[2]
  <2> SUFFICES ASSUME NEW p \in Positions', NEW q \in Positions', p < q, Settled(p)', Settled(q)', At(p)'[1] = At(q)'[1]
               PROVE  At(p)'[2] < At(q)'[2]
    OBVIOUS
  <2>1. p \in Positions /\ Settled(p) /\ At(p)' = At(p) /\ q \in Positions /\ Settled(q) /\ At(q)' = At(q)
    BY <1>b
  <2> QED BY <2>1 DEF InOrder
<1>3. ASSUME NEW p \in Positions', NEW t \in Caller, Settled(p)', At(p)'[1] = t, Offered(t)'
      PROVE  At(p)'[2] < logged'[t] /\ (Busy(t)' => p < pos'[t])
  <2>1. p \in Positions /\ Settled(p) /\ At(p)' = At(p)
    BY <1>3, <1>b
  <2>2. At(p)[1] = t /\ At(p)[2] \in Nat /\ At(p)[2] \in 1 .. logged[t]
    BY <1>3, <2>1, RecordType DEF InOrder
  <2>3. p \in Nat /\ p < enqueue_pos
    BY <2>1 DEF Positions, LoggerType
  <2>4. CASE logged'[t] = logged[t] /\ Offered(t)
    <3>1. At(p)[2] < logged[t] /\ (Busy(t) => p < pos[t])
      BY <2>1, <2>2, <2>4 DEF InOrder
    <3>2. Busy(t)' => (Busy(t) /\ pos'[t] = pos[t]) \/ pos'[t] >= enqueue_pos
      BY <2>4, <1>a
    <3>3. Busy(t)' => p < pos'[t]
      BY <3>1, <3>2, <2>3, <1>a DEF LoggerType
    <3> QED BY <3>1, <3>3, <2>1, <2>4
  <2>5. CASE logged'[t] = logged[t] + 1 /\ ~ Busy(t)'
    BY <2>1, <2>2, <2>5, <1>a
  <2> QED BY <1>3, <2>4, <2>5
<1>4. ASSUME NEW t \in Caller, NEW n \in 1 .. logged'[t]
      PROVE  \/ <<t, n>> \in dropped' \/ \E p \in Positions' : Settled(p)' /\ At(p)' = <<t, n>>
             \/ n = logged'[t] /\ Offered(t)'
  <2>1. CASE logged'[t] = logged[t] + 1 /\ n = logged'[t]
    <3>1. logged'[t] # logged[t]
      BY <2>1, <1>a
    <3>2. Offered(t)'
      BY <3>1
    <3> QED BY <2>1, <3>2
  <2>2. CASE n \in 1 .. logged[t]
    <3>1. CASE <<t, n>> \in dropped
      BY <3>1
    <3>2. CASE \E p \in Positions : Settled(p) /\ At(p) = <<t, n>>
      <4>1. PICK p \in Positions : Settled(p) /\ At(p) = <<t, n>>
        BY <3>2
      <4>2. p \in Positions' /\ Settled(p)'
        BY <4>1
      <4>3. At(p)' = At(p)
        BY <4>2, <1>b
      <4> QED BY <4>1, <4>2, <4>3
    <3>3. CASE n = logged[t] /\ Offered(t)
      <4>1. logged'[t] = logged[t] /\ (Offered(t)' \/ <<t, logged[t]>> \in dropped')
        BY <3>3
      <4>2. n = logged'[t] /\ <<t, n>> = <<t, logged[t]>>
        BY <3>3, <4>1
      <4>3. <<t, n>> \in dropped' \/ Offered(t)'
        BY <4>1, <4>2
      <4> QED BY <4>2, <4>3
    <3>4. \/ <<t, n>> \in dropped \/ \E p \in Positions : Settled(p) /\ At(p) = <<t, n>>
          \/ n = logged[t] /\ Offered(t)
      BY <2>2, Zenon DEF Found
    <3> QED BY <3>1, <3>2, <3>3, <3>4
  <2>3. logged[t] \in Nat /\ logged'[t] \in Nat /\ (logged'[t] = logged[t] \/ logged'[t] = logged[t] + 1)
    BY <1>a
  <2>4. (logged'[t] = logged[t] + 1 /\ n = logged'[t]) \/ n \in 1 .. logged[t]
    BY <2>3
  <2> QED BY <2>1, <2>2, <2>4
<1>5. ASSUME NEW t \in Caller, Offered(t)' PROVE logged'[t] > 0
  <2>1. CASE logged'[t] = logged[t] /\ Offered(t)
    BY <2>1 DEF InOrder
  <2>2. CASE logged'[t] = logged[t] + 1
    BY <2>2, <1>a
  <2> QED BY <1>5, <2>1, <2>2
<1> QED BY <1>1, <1>2, <1>3, <1>4, <1>5 DEF InOrder, Found

\* A step that leaves the cells and the positions alone.
LEMMA QuietStep ==
  ASSUME LoggerIInv, UNCHANGED <<queueVars, written>>, consumer' # {} => Committed, dropped \subseteq dropped',
         pc' \in [Caller -> {"out", "claim", "fill", "commit", "check", "drain"}],
         pos' \in [Caller -> Nat], logged' \in [Caller -> Nat],
         \A t \in Caller :
           \/ pc'[t] = pc[t] /\ pos'[t] = pos[t] /\ logged'[t] = logged[t]
           \/ pc[t] \in {"out", "check", "drain"} /\ pc'[t] \in {"out", "check", "drain"} /\ logged'[t] = logged[t]
           \/ pc[t] = "claim" /\ pc'[t] = "claim" /\ logged'[t] = logged[t]
           \/ pc[t] = "claim" /\ pc'[t] = "check" /\ logged'[t] = logged[t] /\ <<t, logged[t]>> \in dropped'
           \/ pc[t] = "out" /\ pc'[t] = "claim" /\ logged'[t] = logged[t] + 1
  PROVE  LoggerType' /\ CellNumbers' /\ Owners' /\ InOrder' /\ Found'
<1>a. LoggerType /\ CellNumbers /\ Owners /\ InOrder /\ Found
  BY DEF LoggerIInv
<1>b. UNCHANGED <<cellSeq, cellData, enqueue_pos, dequeue_pos, written>>
  BY DEF queueVars
<1>1. LoggerType'
  BY <1>a, <1>b DEF LoggerType
<1>2. /\ Positions' = Positions
      /\ \A p : Number(p)' = Number(p) /\ At(p)' = At(p) /\ Settled(p)' = Settled(p)
      /\ Committed' = Committed
  BY <1>b DEF Number, At, Settled, Positions, Committed
<1>3. CellNumbers'
  BY <1>a, <1>b, <1>2 DEF CellNumbers
<1>4. \A t \in Caller : /\ Busy(t)' <=> Busy(t)
                        /\ Busy(t) => pos'[t] = pos[t] /\ logged'[t] = logged[t] /\ pc'[t] = pc[t]
  BY DEF Busy
<1>5. Owners'
  <2>1. \A t \in Caller : Busy(t)' => pos'[t] \in dequeue_pos' .. enqueue_pos' - 1 /\ cellSeq'[Cell(pos'[t])] = pos'[t]
    BY <1>a, <1>b, <1>4 DEF Owners, Number
  <2>2. \A t, u \in Caller : Busy(t)' /\ Busy(u)' /\ t # u => pos'[t] # pos'[u]
    BY <1>a, <1>4 DEF Owners
  <2>3. \A p \in dequeue_pos' .. enqueue_pos' - 1 : Number(p)' = p => \E t \in Caller : Busy(t)' /\ pos'[t] = p
    BY <1>a, <1>b, <1>2, <1>4 DEF Owners
  <2>4. \A t \in Caller : pc'[t] = "commit" => cellData'[Cell(pos'[t])] = <<t, logged'[t]>>
    BY <1>a, <1>b, <1>4 DEF Owners, Busy, Record
  <2> QED BY <2>1, <2>2, <2>3, <2>4 DEF Owners, Number, Record
<1>6. \A t \in Caller :
        \/ /\ logged'[t] = logged[t]
           /\ Offered(t)' => Offered(t)
           /\ Offered(t) => Offered(t)' \/ <<t, logged[t]>> \in dropped'
           /\ Busy(t)' => (Busy(t) /\ pos'[t] = pos[t]) \/ pos'[t] >= enqueue_pos
        \/ logged'[t] = logged[t] + 1 /\ ~ Offered(t) /\ Offered(t)' /\ ~ Busy(t)'
  BY DEF Offered, Busy
<1> QED BY <1>a, <1>1, <1>2, <1>3, <1>5, <1>6, RecordsKept

LEMMA CellLap == \A p \in Nat : Cell(p + QueueCap) = Cell(p)
<1> SUFFICES ASSUME NEW p \in Nat PROVE (p + QueueCap) % QueueCap = p % QueueCap
  BY DEF Cell
<1>1. PICK q \in Nat : q = p + QueueCap
  BY LoggerAssumption
<1>2. /\ p = QueueCap * (p \div QueueCap) + (p % QueueCap)
      /\ q = QueueCap * (q \div QueueCap) + (q % QueueCap)
      /\ p \div QueueCap \in Int /\ q \div QueueCap \in Int
      /\ p % QueueCap \in 0 .. QueueCap - 1 /\ q % QueueCap \in 0 .. QueueCap - 1
  BY LoggerAssumption
<1>3. PICK k \in Int : k = (p \div QueueCap) + 1 - (q \div QueueCap)
  BY <1>2
<1>4. (q % QueueCap) - (p % QueueCap) = QueueCap * k
  BY <1>1, <1>2, <1>3, LoggerAssumption
<1>5. k >= 1 \/ k <= -1 \/ k = 0
  OBVIOUS
<1> QED BY <1>1, <1>2, <1>4, <1>5, LoggerAssumption

\* A cell whose number is the next position is free: the queue is not full.
LEMMA FreeHasRoom ==
  ASSUME LoggerIInv, Number(enqueue_pos) = enqueue_pos
  PROVE  enqueue_pos < dequeue_pos + QueueCap
<1>1. LoggerType /\ CellNumbers
  BY DEF LoggerIInv
<1>2. SUFFICES ASSUME enqueue_pos = dequeue_pos + QueueCap PROVE FALSE
  BY <1>1, LoggerAssumption DEF LoggerType
<1>3. Number(enqueue_pos) = Number(dequeue_pos)
  BY <1>1, <1>2, CellLap DEF Number, LoggerType
<1>4. dequeue_pos \in dequeue_pos .. enqueue_pos - 1
  BY <1>1, <1>2, LoggerAssumption DEF LoggerType
<1>5. Number(dequeue_pos) \in {dequeue_pos, dequeue_pos + 1}
  BY <1>1, <1>4 DEF CellNumbers
<1> QED BY <1>1, <1>2, <1>3, <1>5, LoggerAssumption DEF LoggerType

\* Writing the data of a cell that is not committed touches no settled record.
LEMMA DataStep ==
  ASSUME LoggerType, LoggerType', NEW q \in dequeue_pos .. dequeue_pos + QueueCap - 1, NEW r, Number(q) = q,
         cellData' = [cellData EXCEPT ![Cell(q)] = r], UNCHANGED <<cellSeq, dequeue_pos, written>>
  PROVE  \A p \in Positions : Settled(p) => At(p)' = At(p)
<1> SUFFICES ASSUME NEW p \in Positions, Settled(p) PROVE At(p)' = At(p)
  OBVIOUS
<1>1. p \in Nat /\ q \in Nat /\ p < dequeue_pos + QueueCap
  BY LoggerAssumption DEF LoggerType, Positions
<1>2. CASE p < dequeue_pos
  BY <1>2 DEF At
<1>3. CASE ~ (p < dequeue_pos)
  <2>1. p # q
    BY <1>1, <1>3 DEF Settled
  <2>2. Cell(p) # Cell(q)
    BY <2>1, <1>1, <1>3, CellsDistinct, LoggerAssumption DEF LoggerType
  <2>3. cellData'[Cell(p)] = cellData[Cell(p)]
    BY <2>2, <1>1, CellRange DEF LoggerType
  <2> QED BY <1>3, <2>3 DEF At
<1> QED BY <1>2, <1>3

LEMMA FillStep ==
  ASSUME LoggerIInv, NEW t \in Caller, Fill(t)
  PROVE  LoggerType' /\ CellNumbers' /\ Owners' /\ InOrder' /\ Found'
<1>a. LoggerType /\ CellNumbers /\ Owners /\ InOrder /\ Found
  BY DEF LoggerIInv
<1>b. /\ pc[t] = "fill" /\ cellData' = [cellData EXCEPT ![Cell(pos[t])] = <<t, logged[t]>>] /\ pc' = [pc EXCEPT ![t] = "commit"]
      /\ UNCHANGED <<cellSeq, enqueue_pos, dequeue_pos, pos, logged, dropped, consumer, written>>
  BY DEF Fill, Goto, Record
<1>c. pc'[t] = "commit" /\ \A u \in Caller : u # t => pc'[u] = pc[u]
  BY <1>a, <1>b DEF LoggerType
<1>d. \A u \in Caller : (Busy(u)' <=> Busy(u)) /\ (Offered(u)' <=> Offered(u))
  BY <1>b, <1>c DEF Busy, Offered
<1>e. pos[t] \in dequeue_pos .. enqueue_pos - 1 /\ Number(pos[t]) = pos[t] /\ pos[t] \in Nat /\ Cell(pos[t]) \in 0 .. QueueCap - 1
  BY <1>a, <1>b, CellRange DEF Owners, Busy, LoggerType
<1>f. \A p : Number(p)' = Number(p) /\ (Settled(p)' <=> Settled(p))
  BY <1>b DEF Number, Settled
<1>1. LoggerType'
  <2>1. <<t, logged[t]>> \in Rec
    BY <1>a DEF LoggerType, Rec
  <2>2. cellData' \in [0 .. QueueCap - 1 -> Rec] /\ pc' \in [Caller -> {"out", "claim", "fill", "commit", "check", "drain"}]
    BY <1>a, <1>b, <2>1 DEF LoggerType
  <2> QED BY <1>a, <1>b, <2>2 DEF LoggerType
<1>2. CellNumbers'
  BY <1>a, <1>b, <1>f DEF CellNumbers, Committed
<1>3. Owners'
  <2>1. \A u \in Caller : Busy(u)' => pos'[u] \in dequeue_pos' .. enqueue_pos' - 1 /\ cellSeq'[Cell(pos'[u])] = pos'[u]
    BY <1>a, <1>b, <1>d DEF Owners, Number
  <2>2. \A u, v \in Caller : Busy(u)' /\ Busy(v)' /\ u # v => pos'[u] # pos'[v]
    BY <1>a, <1>b, <1>d DEF Owners
  <2>3. \A p \in dequeue_pos' .. enqueue_pos' - 1 : Number(p)' = p => \E u \in Caller : Busy(u)' /\ pos'[u] = p
    BY <1>a, <1>b, <1>d, <1>f DEF Owners
  <2>4. ASSUME NEW u \in Caller, pc'[u] = "commit" PROVE cellData'[Cell(pos'[u])] = <<u, logged'[u]>>
    <3>1. CASE u = t
      BY <1>a, <1>b, <1>e, <3>1 DEF LoggerType
    <3>2. CASE u # t
      <4>1. pc[u] = "commit" /\ Busy(u) /\ Busy(t)
        BY <2>4, <3>2, <1>b, <1>c DEF Busy
      <4>2. pos[u] # pos[t] /\ pos[u] \in dequeue_pos .. enqueue_pos - 1 /\ pos[u] \in Nat /\ cellData[Cell(pos[u])] = <<u, logged[u]>>
        BY <4>1, <3>2, <1>a DEF Owners, Record, LoggerType
      <4>3. pos[u] < pos[t] + QueueCap /\ pos[t] < pos[u] + QueueCap
        BY <4>2, <1>a, <1>e, LoggerAssumption DEF LoggerType
      <4>4. Cell(pos[u]) # Cell(pos[t]) /\ Cell(pos[u]) \in 0 .. QueueCap - 1
        BY <4>2, <4>3, <1>e, CellsDistinct, CellRange
      <4> QED BY <4>2, <4>4, <1>a, <1>b DEF LoggerType
    <3> QED BY <3>1, <3>2
  <2> QED BY <2>1, <2>2, <2>3, <2>4 DEF Owners, Number, Record
<1>4. InOrder' /\ Found'
  <2>1. pos[t] \in dequeue_pos .. dequeue_pos + QueueCap - 1
    BY <1>a, <1>e, LoggerAssumption DEF LoggerType
  <2>2. PICK q, r : q \in Nat /\ q = pos[t] /\ r = <<t, logged[t]>>
    BY <1>e
  <2>3. \A p \in Positions : Settled(p) => At(p)' = At(p)
    BY <2>1, <2>2, <1>a, <1>b, <1>1, <1>e, DataStep
  <2>4. Positions' = Positions
    BY <1>b DEF Positions
  <2>5. \A p \in Positions' : Settled(p)' => p \in Positions /\ Settled(p) /\ At(p)' = At(p)
    BY <2>3, <2>4, <1>f
  <2>6. \A p \in Positions : Settled(p) => p \in Positions' /\ Settled(p)'
    BY <2>4, <1>f
  <2>7. \A u \in Caller : /\ logged'[u] = logged[u]
                          /\ Offered(u)' => Offered(u)
                          /\ Offered(u) => Offered(u)'
                          /\ Busy(u)' => (Busy(u) /\ pos'[u] = pos[u])
    BY <1>b, <1>d
  <2>8. dropped \subseteq dropped'
    BY <1>b
  <2> QED BY <2>5, <2>6, <2>7, <2>8, <1>a, <1>1, RecordsKept
<1> QED BY <1>1, <1>2, <1>3, <1>4

\* The positions from the head of the queue on are less than a lap apart.
LEMMA WithinLap ==
  ASSUME LoggerType, NEW p \in Nat, NEW q \in Nat, p # q,
         dequeue_pos <= p, dequeue_pos <= q, p < dequeue_pos + QueueCap, q < dequeue_pos + QueueCap
  PROVE  Cell(p) # Cell(q) /\ Cell(p) \in 0 .. QueueCap - 1 /\ Cell(q) \in 0 .. QueueCap - 1
<1>1. p < q + QueueCap /\ q < p + QueueCap
  BY LoggerAssumption DEF LoggerType
<1> QED BY <1>1, CellsDistinct, CellRange

LEMMA ClaimStep ==
  ASSUME LoggerIInv, NEW t \in Caller, ClaimFree(t), Swapped(t)
  PROVE  LoggerType' /\ CellNumbers' /\ Owners' /\ InOrder' /\ Found'
<1>a. LoggerType /\ CellNumbers /\ Owners /\ InOrder /\ Found
  BY DEF LoggerIInv
<1>b. /\ pc[t] = "claim" /\ pos[t] = enqueue_pos /\ Number(enqueue_pos) = enqueue_pos /\ enqueue_pos' = enqueue_pos + 1
      /\ cellData' = [cellData EXCEPT ![Cell(enqueue_pos)] = Half] /\ pc' = [pc EXCEPT ![t] = "fill"]
      /\ UNCHANGED <<cellSeq, dequeue_pos, pos, logged, dropped, consumer, written>>
  BY DEF ClaimFree, Goto, Swapped, Number
<1>c. pc'[t] = "fill" /\ \A u \in Caller : u # t => pc'[u] = pc[u]
  BY <1>a, <1>b DEF LoggerType
<1>d. /\ Busy(t)' /\ Offered(t)' /\ Offered(t) /\ ~ Busy(t)
      /\ \A u \in Caller : u # t => (Busy(u)' <=> Busy(u)) /\ (Offered(u)' <=> Offered(u))
  BY <1>b, <1>c DEF Busy, Offered
<1>e. /\ enqueue_pos \in Nat /\ dequeue_pos \in Nat /\ dequeue_pos <= enqueue_pos
      /\ enqueue_pos < dequeue_pos + QueueCap /\ Cell(enqueue_pos) \in 0 .. QueueCap - 1
  BY <1>a, <1>b, FreeHasRoom, CellRange DEF LoggerType
<1>f. \A p : Number(p)' = Number(p) /\ (Settled(p)' <=> Settled(p))
  BY <1>b DEF Number, Settled
<1>1. LoggerType'
  <2>1. Half \in Rec
    BY DEF Half, Rec, Caller
  <2>2. cellData' \in [0 .. QueueCap - 1 -> Rec] /\ pc' \in [Caller -> {"out", "claim", "fill", "commit", "check", "drain"}]
    BY <1>a, <1>b, <2>1 DEF LoggerType
  <2>3. enqueue_pos' \in Nat /\ dequeue_pos' <= enqueue_pos' /\ enqueue_pos' <= dequeue_pos' + QueueCap
    BY <1>b, <1>e, LoggerAssumption
  <2> QED BY <1>a, <1>b, <2>2, <2>3 DEF LoggerType
<1>2. CellNumbers'
  <2>1. \A p \in dequeue_pos' .. enqueue_pos' - 1 : Number(p)' \in {p, p + 1}
    <3> SUFFICES ASSUME NEW p \in dequeue_pos .. enqueue_pos PROVE Number(p) \in {p, p + 1}
      BY <1>b, <1>e, <1>f
    <3>1. p = enqueue_pos \/ p \in dequeue_pos .. enqueue_pos - 1
      BY <1>e
    <3> QED BY <3>1, <1>a, <1>b DEF CellNumbers
  <2>2. \A p \in enqueue_pos' .. dequeue_pos' + QueueCap - 1 : Number(p)' = p
    BY <1>a, <1>b, <1>e, <1>f, LoggerAssumption DEF CellNumbers
  <2>3. consumer' # {} => Committed'
    BY <1>a, <1>b DEF CellNumbers, Committed
  <2> QED BY <2>1, <2>2, <2>3 DEF CellNumbers
<1>3. Owners'
  <2>1. \A u \in Caller : Busy(u)' => pos'[u] \in dequeue_pos' .. enqueue_pos' - 1 /\ cellSeq'[Cell(pos'[u])] = pos'[u]
    <3> SUFFICES ASSUME NEW u \in Caller, Busy(u)' PROVE pos[u] \in dequeue_pos .. enqueue_pos /\ Number(pos[u]) = pos[u]
      BY <1>b, <1>e DEF Number
    <3>1. CASE u = t
      BY <3>1, <1>b, <1>e
    <3>2. CASE u # t
      <4>1. pos[u] \in dequeue_pos .. enqueue_pos - 1 /\ Number(pos[u]) = pos[u]
        BY <3>2, <1>a, <1>d DEF Owners
      <4> QED BY <4>1, <1>e
    <3> QED BY <3>1, <3>2
  <2>2. ASSUME NEW u \in Caller, NEW v \in Caller, Busy(u)', Busy(v)', u # v PROVE pos'[u] # pos'[v]
    <3>1. \A w \in Caller : w # t /\ Busy(w)' => pos[w] # enqueue_pos
      BY <1>a, <1>d, <1>e DEF Owners
    <3>2. CASE u = t \/ v = t
      BY <2>2, <3>1, <3>2, <1>b
    <3>3. CASE u # t /\ v # t
      BY <2>2, <3>3, <1>a, <1>b, <1>d DEF Owners
    <3> QED BY <3>2, <3>3
  <2>3. ASSUME NEW p \in dequeue_pos' .. enqueue_pos' - 1, Number(p)' = p PROVE \E u \in Caller : Busy(u)' /\ pos'[u] = p
    <3>1. CASE p = enqueue_pos
      BY <3>1, <1>b, <1>d
    <3>2. CASE p # enqueue_pos
      <4>1. p \in dequeue_pos .. enqueue_pos - 1 /\ Number(p) = p
        BY <2>3, <3>2, <1>b, <1>e, <1>f
      <4>2. PICK u \in Caller : Busy(u) /\ pos[u] = p
        BY <4>1, <1>a DEF Owners
      <4>3. u # t
        BY <4>2, <1>d
      <4> QED BY <4>2, <4>3, <1>b, <1>d
    <3> QED BY <3>1, <3>2
  <2>4. ASSUME NEW u \in Caller, pc'[u] = "commit" PROVE cellData'[Cell(pos'[u])] = <<u, logged'[u]>>
    <3>1. u # t /\ pc[u] = "commit" /\ Busy(u)
      BY <2>4, <1>c DEF Busy
    <3>2. pos[u] \in dequeue_pos .. enqueue_pos - 1 /\ cellData[Cell(pos[u])] = <<u, logged[u]>>
      BY <3>1, <1>a DEF Owners, Record
    <3>3. pos[u] \in Nat /\ pos[u] # enqueue_pos /\ dequeue_pos <= pos[u] /\ pos[u] < dequeue_pos + QueueCap
      BY <3>2, <1>e, LoggerAssumption
    <3>4. Cell(pos[u]) # Cell(enqueue_pos) /\ Cell(pos[u]) \in 0 .. QueueCap - 1
      BY <3>3, <1>a, <1>e, WithinLap
    <3> QED BY <3>2, <3>4, <1>a, <1>b DEF LoggerType
  <2> QED BY <2>1, <2>2, <2>3, <2>4 DEF Owners, Number, Record
<1>4. InOrder' /\ Found'
  <2>1. enqueue_pos \in dequeue_pos .. dequeue_pos + QueueCap - 1
    BY <1>e, LoggerAssumption
  <2>2. PICK q, r : q \in Nat /\ q = enqueue_pos /\ r = Half
    BY <1>e
  <2>3. \A p \in Positions : Settled(p) => At(p)' = At(p)
    BY <2>1, <2>2, <1>a, <1>b, <1>1, DataStep
  <2>4. Positions \subseteq Positions' /\ \A p \in Positions' : p \in Positions \/ p = enqueue_pos
    BY <1>b, <1>e DEF Positions
  <2>5. ~ Settled(enqueue_pos)
    BY <1>b, <1>e DEF Settled
  <2>6. \A p \in Positions' : Settled(p)' => p \in Positions /\ Settled(p) /\ At(p)' = At(p)
    BY <2>3, <2>4, <2>5, <1>f
  <2>7. \A p \in Positions : Settled(p) => p \in Positions' /\ Settled(p)'
    BY <2>4, <1>f
  <2>8. \A u \in Caller : /\ logged'[u] = logged[u]
                          /\ Offered(u)' => Offered(u)
                          /\ Offered(u) => Offered(u)'
                          /\ Busy(u)' => (Busy(u) /\ pos'[u] = pos[u]) \/ pos'[u] >= enqueue_pos
    <3>1. pos'[t] >= enqueue_pos
      BY <1>b, <1>e
    <3> QED BY <3>1, <1>b, <1>d
  <2>9. dropped \subseteq dropped'
    BY <1>b
  <2> QED BY <2>6, <2>7, <2>8, <2>9, <1>a, <1>1, RecordsKept
<1> QED BY <1>1, <1>2, <1>3, <1>4

LEMMA CommitStep ==
  ASSUME LoggerIInv, NEW t \in Caller, commit(t)
  PROVE  LoggerType' /\ CellNumbers' /\ Owners' /\ InOrder' /\ Found'
<1>a. LoggerType /\ CellNumbers /\ Owners /\ InOrder /\ Found
  BY DEF LoggerIInv
<1>b. /\ pc[t] = "commit" /\ cellSeq' = [cellSeq EXCEPT ![Cell(pos[t])] = cellSeq[Cell(pos[t])] + 1]
      /\ pc' = [pc EXCEPT ![t] = "check"]
      /\ UNCHANGED <<cellData, enqueue_pos, dequeue_pos, pos, logged, dropped, consumer, written>>
  BY DEF commit, Goto
<1>c. pc'[t] = "check" /\ \A u \in Caller : u # t => pc'[u] = pc[u]
  BY <1>a, <1>b DEF LoggerType
<1>d. /\ ~ Busy(t)' /\ ~ Offered(t)' /\ Offered(t) /\ Busy(t)
      /\ \A u \in Caller : u # t => (Busy(u)' <=> Busy(u)) /\ (Offered(u)' <=> Offered(u))
  BY <1>b, <1>c DEF Busy, Offered
<1>e. PICK q \in Nat : q = pos[t]
  BY <1>a DEF LoggerType
<1>f. /\ enqueue_pos \in Nat /\ dequeue_pos \in Nat /\ dequeue_pos <= q /\ q < enqueue_pos /\ Number(q) = q
      /\ enqueue_pos <= dequeue_pos + QueueCap /\ q < dequeue_pos + QueueCap /\ Cell(q) \in 0 .. QueueCap - 1
  <2>1. q \in dequeue_pos .. enqueue_pos - 1 /\ Number(q) = q
    BY <1>a, <1>d, <1>e DEF Owners
  <2>2. enqueue_pos \in Nat /\ dequeue_pos \in Nat /\ enqueue_pos <= dequeue_pos + QueueCap
    BY <1>a DEF LoggerType
  <2> QED BY <2>1, <2>2, CellRange, LoggerAssumption
<1>g. Number(q)' = q + 1
  BY <1>a, <1>b, <1>e, <1>f DEF LoggerType, Number
<1>h. \A p \in Nat : p # q /\ dequeue_pos <= p /\ p < dequeue_pos + QueueCap => Number(p)' = Number(p)
  <2> SUFFICES ASSUME NEW p \in Nat, p # q, dequeue_pos <= p, p < dequeue_pos + QueueCap PROVE Number(p)' = Number(p)
    OBVIOUS
  <2>1. Cell(p) # Cell(q) /\ Cell(p) \in 0 .. QueueCap - 1
    BY <1>a, <1>f, WithinLap
  <2> QED BY <2>1, <1>a, <1>b, <1>e DEF Number, LoggerType
<1>1. LoggerType'
  <2>1. cellSeq' \in [0 .. QueueCap - 1 -> Nat] /\ pc' \in [Caller -> {"out", "claim", "fill", "commit", "check", "drain"}]
    BY <1>a, <1>b, <1>e, <1>f DEF LoggerType
  <2> QED BY <1>a, <1>b, <2>1 DEF LoggerType
<1>2. CellNumbers'
  <2>1. \A p \in dequeue_pos' .. enqueue_pos' - 1 : Number(p)' \in {p, p + 1}
    <3> SUFFICES ASSUME NEW p \in dequeue_pos .. enqueue_pos - 1 PROVE Number(p)' \in {p, p + 1}
      BY <1>b
    <3>1. CASE p = q
      BY <3>1, <1>g
    <3>2. CASE p # q
      BY <3>2, <1>a, <1>f, <1>h, LoggerAssumption DEF CellNumbers
    <3> QED BY <3>1, <3>2
  <2>2. \A p \in enqueue_pos' .. dequeue_pos' + QueueCap - 1 : Number(p)' = p
    <3> SUFFICES ASSUME NEW p \in enqueue_pos .. dequeue_pos + QueueCap - 1 PROVE Number(p)' = p
      BY <1>b
    <3>1. p \in Nat /\ p # q /\ dequeue_pos <= p /\ p < dequeue_pos + QueueCap
      BY <1>f, LoggerAssumption
    <3> QED BY <3>1, <1>a, <1>h DEF CellNumbers
  <2>3. consumer' # {} => Committed'
    <3> SUFFICES ASSUME consumer # {} PROVE Number(dequeue_pos)' >= dequeue_pos + 1
      BY <1>b DEF Committed, Number
    <3>1. Number(dequeue_pos) >= dequeue_pos + 1
      BY <1>a DEF CellNumbers, Committed, Number
    <3>2. dequeue_pos # q
      BY <3>1, <1>f
    <3>3. dequeue_pos < dequeue_pos + QueueCap
      BY <1>f, LoggerAssumption
    <3>4. Number(dequeue_pos)' = cellSeq'[Cell(dequeue_pos)]
      BY <1>b DEF Number
    <3>5. cellSeq'[Cell(dequeue_pos)] = cellSeq[Cell(dequeue_pos)]
      BY <1>a, <1>b, <1>e, <1>f, <3>2, <3>3, WithinLap DEF LoggerType
    <3> QED BY <3>1, <3>4, <3>5 DEF Number
  <2> QED BY <2>1, <2>2, <2>3 DEF CellNumbers
<1>3. Owners'
  <2>1. ASSUME NEW u \in Caller, Busy(u)' PROVE pos'[u] \in dequeue_pos' .. enqueue_pos' - 1 /\ cellSeq'[Cell(pos'[u])] = pos'[u]
    <3>1. u # t /\ Busy(u)
      BY <2>1, <1>d
    <3>2. pos[u] \in dequeue_pos .. enqueue_pos - 1 /\ Number(pos[u]) = pos[u] /\ pos[u] # q
      BY <3>1, <1>a, <1>d, <1>e DEF Owners
    <3>3. pos[u] \in Nat /\ dequeue_pos <= pos[u] /\ pos[u] < dequeue_pos + QueueCap
      BY <3>2, <1>f, LoggerAssumption
    <3>4. Cell(pos[u]) # Cell(q) /\ Cell(pos[u]) \in 0 .. QueueCap - 1
      BY <3>2, <3>3, <1>a, <1>f, WithinLap
    <3> QED BY <3>2, <3>4, <1>a, <1>b, <1>e DEF Number, LoggerType
  <2>2. \A u, v \in Caller : Busy(u)' /\ Busy(v)' /\ u # v => pos'[u] # pos'[v]
    BY <1>a, <1>b, <1>d DEF Owners
  <2>3. ASSUME NEW p \in dequeue_pos' .. enqueue_pos' - 1, Number(p)' = p PROVE \E u \in Caller : Busy(u)' /\ pos'[u] = p
    <3>1. p # q
      BY <2>3, <1>g
    <3>2. p \in dequeue_pos .. enqueue_pos - 1 /\ Number(p) = p
      BY <2>3, <3>1, <1>b, <1>f, <1>h, LoggerAssumption
    <3>3. PICK u \in Caller : Busy(u) /\ pos[u] = p
      BY <3>2, <1>a DEF Owners
    <3>4. u # t
      BY <3>1, <3>3, <1>e
    <3> QED BY <3>3, <3>4, <1>b, <1>d
  <2>4. \A u \in Caller : pc'[u] = "commit" => cellData'[Cell(pos'[u])] = <<u, logged'[u]>>
    BY <1>a, <1>b, <1>c DEF Owners, Record
  <2> QED BY <2>1, <2>2, <2>3, <2>4 DEF Owners, Number, Record
<1>p. /\ Positions' = Positions /\ q \in Positions /\ At(q) = <<t, logged[t]>> /\ Settled(q)'
      /\ \A p : At(p)' = At(p)
      /\ \A p \in Positions : p # q => (Settled(p)' <=> Settled(p))
  <2>1. Positions' = Positions /\ q \in Positions /\ \A p : At(p)' = At(p)
    BY <1>b, <1>f DEF Positions, At
  <2>2. At(q) = <<t, logged[t]>>
    BY <1>a, <1>b, <1>e, <1>f DEF Owners, At, Record
  <2>3. Settled(q)'
    BY <1>g DEF Settled
  <2>4. ASSUME NEW p \in Positions, p # q PROVE Settled(p)' <=> Settled(p)
    <3>1. p \in Nat /\ p < dequeue_pos + QueueCap
      BY <1>f, LoggerAssumption DEF Positions
    <3>2. p < dequeue_pos \/ Number(p)' = Number(p)
      BY <2>4, <3>1, <1>f, <1>h
    <3>3. dequeue_pos' = dequeue_pos
      BY <1>b
    <3> QED BY <3>2, <3>3 DEF Settled
  <2> QED BY <2>1, <2>2, <2>3, <2>4
<1>q. \A p \in Positions : At(p) \in Rec /\ At(p)[1] \in Caller /\ At(p)[2] \in Nat
  BY <1>a, RecordType
<1>r. logged' = logged /\ dropped' = dropped /\ pos' = pos /\ logged[t] \in Nat /\ logged[t] > 0
  BY <1>a, <1>b, <1>d DEF InOrder, LoggerType
<1>4. InOrder'
  <2>1. \A u \in Caller : Offered(u)' => logged'[u] > 0
    BY <1>a, <1>d, <1>r DEF InOrder
  <2>2. ASSUME NEW p \in Positions', Settled(p)' PROVE At(p)'[2] \in 1 .. logged'[At(p)'[1]]
    <3>1. CASE p = q
      BY <3>1, <1>p, <1>r
    <3>2. CASE p # q
      BY <2>2, <3>2, <1>a, <1>p, <1>r DEF InOrder
    <3> QED BY <3>1, <3>2
  <2>3. ASSUME NEW p \in Positions', NEW r \in Positions', p < r, Settled(p)', Settled(r)', At(p)'[1] = At(r)'[1]
        PROVE  At(p)'[2] < At(r)'[2]
    <3>0. p \in Positions /\ r \in Positions /\ At(p)[1] = At(r)[1]
      BY <2>3, <1>p
    <3>1. p \in Positions /\ r \in Positions /\ At(p)[1] = At(r)[1] /\ p \in Nat /\ r \in Nat
      BY <3>0, <1>f DEF Positions
    <3>2. CASE p # q /\ r # q
      BY <2>3, <3>1, <3>2, <1>a, <1>p DEF InOrder
    <3>3. CASE r = q
      <4>1. p # q
        BY <2>3, <3>1, <3>3
      <4>2. Settled(p) /\ At(p)[1] = t
        BY <2>3, <3>1, <3>3, <4>1, <1>p
      <4>3. At(p)[2] < logged[t]
        BY <4>2, <3>1, <1>a, <1>d DEF InOrder
      <4> QED BY <3>3, <4>3, <1>p
    <3>4. CASE p = q
      <4>1. r # q
        BY <2>3, <3>1, <3>4
      <4>2. Settled(r) /\ At(r)[1] = t
        BY <2>3, <3>1, <3>4, <4>1, <1>p
      <4>3. r < q
        BY <4>2, <3>1, <1>a, <1>d, <1>e DEF InOrder
      <4> QED BY <2>3, <3>1, <3>4, <4>3
    <3> QED BY <3>2, <3>3, <3>4
  <2>4. ASSUME NEW p \in Positions', NEW u \in Caller, Settled(p)', At(p)'[1] = u, Offered(u)'
        PROVE  At(p)'[2] < logged'[u] /\ (Busy(u)' => p < pos'[u])
    <3>1. u # t /\ Offered(u) /\ (Busy(u)' => Busy(u))
      BY <2>4, <1>d
    <3>2. p # q
      BY <2>4, <3>1, <1>p
    <3>3. p \in Positions /\ Settled(p) /\ At(p)[1] = u
      BY <2>4, <3>2, <1>p
    <3>4. At(p)[2] < logged[u] /\ (Busy(u) => p < pos[u])
      BY <3>1, <3>3, <1>a DEF InOrder
    <3> QED BY <3>1, <3>4, <1>p, <1>r
  <2> QED BY <2>1, <2>2, <2>3, <2>4 DEF InOrder
<1>5. Found'
  <2> SUFFICES ASSUME NEW u \in Caller, NEW n \in 1 .. logged[u]
               PROVE  \/ <<u, n>> \in dropped' \/ \E p \in Positions' : Settled(p)' /\ At(p)' = <<u, n>>
                      \/ n = logged'[u] /\ Offered(u)'
    BY <1>r DEF Found
  <2>1. \/ <<u, n>> \in dropped \/ \E p \in Positions : Settled(p) /\ At(p) = <<u, n>>
        \/ n = logged[u] /\ Offered(u)
    BY <1>a, Zenon DEF Found
  <2>2. CASE <<u, n>> \in dropped
    BY <2>2, <1>r
  <2>3. CASE \E p \in Positions : Settled(p) /\ At(p) = <<u, n>>
    <3>1. PICK p \in Positions : Settled(p) /\ At(p) = <<u, n>>
      BY <2>3
    <3>2. Settled(p)'
      BY <3>1, <1>p
    <3> QED BY <3>1, <3>2, <1>p
  <2>4. CASE n = logged[u] /\ Offered(u)
    <3>1. CASE u = t
      <4>1. At(q)' = <<u, n>> /\ q \in Positions' /\ Settled(q)'
        BY <2>4, <3>1, <1>p
      <4> QED BY <4>1
    <3>2. CASE u # t
      BY <2>4, <3>2, <1>d, <1>r
    <3> QED BY <3>1, <3>2
  <2> QED BY <2>1, <2>2, <2>3, <2>4
<1> QED BY <1>1, <1>2, <1>3, <1>4, <1>5

LEMMA PopStep ==
  ASSUME LoggerIInv, NEW c \in Drainer, pop(c)
  PROVE  LoggerType' /\ CellNumbers' /\ Owners' /\ InOrder' /\ Found'
<1>a. LoggerType /\ Handover /\ CellNumbers /\ Owners /\ InOrder /\ Found
  BY DEF LoggerIInv
<1>b. /\ c \in consumer /\ written' = Append(written, cellData[Cell(dequeue_pos)])
      /\ cellSeq' = [cellSeq EXCEPT ![Cell(dequeue_pos)] = dequeue_pos + QueueCap]
      /\ dequeue_pos' = dequeue_pos + 1 /\ consumer' = consumer \ {c}
      /\ UNCHANGED <<cellData, enqueue_pos, pc, pos, logged, dropped>>
  BY DEF pop
<1>c. consumer' = {}
  <2>1. \A d \in consumer : d = c
    BY <1>a, <1>b, OneDrains DEF Handover
  <2> QED BY <2>1, <1>b
<1>d. PICK h \in Nat : h = dequeue_pos
  BY <1>a DEF LoggerType
<1>e. /\ enqueue_pos \in Nat /\ h < enqueue_pos /\ enqueue_pos <= h + QueueCap /\ Number(h) = h + 1 /\ Cell(h) \in 0 .. QueueCap - 1
  <2>1. Number(h) >= h + 1
    BY <1>a, <1>b, <1>d DEF CellNumbers, Committed, Number
  <2>2. enqueue_pos \in Nat /\ h <= enqueue_pos /\ enqueue_pos <= h + QueueCap /\ Cell(h) \in 0 .. QueueCap - 1
    BY <1>a, <1>d, CellRange DEF LoggerType
  <2>3. h # enqueue_pos
    <3> SUFFICES ASSUME h = enqueue_pos PROVE FALSE
      OBVIOUS
    <3>1. h \in enqueue_pos .. dequeue_pos + QueueCap - 1
      BY <1>d, LoggerAssumption
    <3>2. Number(h) = h
      BY <3>1, <1>a DEF CellNumbers
    <3> QED BY <2>1, <3>2
  <2>4. h \in dequeue_pos .. enqueue_pos - 1
    BY <2>2, <2>3, <1>d
  <2>5. Number(h) \in {h, h + 1}
    BY <2>4, <1>a DEF CellNumbers
  <2> QED BY <2>1, <2>2, <2>3, <2>5
<1>f. \A p \in Nat : h < p /\ p < h + QueueCap => Number(p)' = Number(p)
  <2> SUFFICES ASSUME NEW p \in Nat, h < p, p < h + QueueCap PROVE Number(p)' = Number(p)
    OBVIOUS
  <2>1. h <= h /\ h <= p /\ h < h + QueueCap /\ p # h
    BY LoggerAssumption
  <2>2. Cell(p) # Cell(h) /\ Cell(p) \in 0 .. QueueCap - 1
    BY <2>1, <1>a, <1>d, WithinLap
  <2> QED BY <2>2, <1>a, <1>b, <1>d DEF Number, LoggerType
<1>g. Number(h + QueueCap)' = h + QueueCap
  BY <1>a, <1>b, <1>d, <1>e, CellLap DEF Number, LoggerType
<1>h. \A u \in Caller : (Busy(u)' <=> Busy(u)) /\ (Offered(u)' <=> Offered(u))
  BY <1>b DEF Busy, Offered
<1>1. LoggerType'
  <2>1. cellData[Cell(h)] \in Rec
    BY <1>a, <1>e DEF LoggerType
  <2>2. written' \in Seq(Rec) /\ Len(written') = h + 1
    BY <2>1, <1>a, <1>b, <1>d, AppendProperties DEF LoggerType
  <2>3. cellSeq' \in [0 .. QueueCap - 1 -> Nat]
    BY <1>a, <1>b, <1>d, <1>e, LoggerAssumption DEF LoggerType
  <2>4. dequeue_pos' \in Nat /\ dequeue_pos' <= enqueue_pos' /\ enqueue_pos' <= dequeue_pos' + QueueCap /\ Len(written') = dequeue_pos'
    BY <2>2, <1>b, <1>d, <1>e, LoggerAssumption
  <2> QED BY <2>2, <2>3, <2>4, <1>a, <1>b DEF LoggerType
<1>2. CellNumbers'
  <2>1. \A p \in dequeue_pos' .. enqueue_pos' - 1 : Number(p)' \in {p, p + 1}
    <3> SUFFICES ASSUME NEW p \in h + 1 .. enqueue_pos - 1 PROVE Number(p)' \in {p, p + 1}
      BY <1>b, <1>d
    <3>1. p \in Nat /\ h < p /\ p < h + QueueCap /\ p \in dequeue_pos .. enqueue_pos - 1
      BY <1>d, <1>e, LoggerAssumption
    <3> QED BY <3>1, <1>a, <1>f DEF CellNumbers
  <2>2. \A p \in enqueue_pos' .. dequeue_pos' + QueueCap - 1 : Number(p)' = p
    <3> SUFFICES ASSUME NEW p \in enqueue_pos .. h + 1 + QueueCap - 1 PROVE Number(p)' = p
      BY <1>b, <1>d
    <3>1. CASE p = h + QueueCap
      BY <3>1, <1>g
    <3>2. CASE p # h + QueueCap
      <4>1. p \in Nat /\ h < p /\ p < h + QueueCap /\ p \in enqueue_pos .. dequeue_pos + QueueCap - 1
        BY <3>2, <1>d, <1>e, LoggerAssumption
      <4> QED BY <4>1, <1>a, <1>f DEF CellNumbers
    <3> QED BY <3>1, <3>2
  <2> QED BY <2>1, <2>2, <1>c DEF CellNumbers
<1>3. Owners'
  <2>0. ASSUME NEW u \in Caller, Busy(u) PROVE pos[u] \in h + 1 .. enqueue_pos - 1 /\ Number(pos[u]) = pos[u]
    <3>1. pos[u] \in dequeue_pos .. enqueue_pos - 1 /\ Number(pos[u]) = pos[u]
      BY <2>0, <1>a DEF Owners
    <3>2. pos[u] # h
      BY <3>1, <1>e
    <3> QED BY <3>1, <3>2, <1>d, <1>e
  <2>1. ASSUME NEW u \in Caller, Busy(u)' PROVE pos'[u] \in dequeue_pos' .. enqueue_pos' - 1 /\ cellSeq'[Cell(pos'[u])] = pos'[u]
    <3>1. pos[u] \in h + 1 .. enqueue_pos - 1 /\ Number(pos[u]) = pos[u]
      BY <2>0, <2>1, <1>h
    <3>2. PICK p \in Nat : p = pos[u]
      BY <1>a DEF LoggerType
    <3>3. h < p /\ p < h + QueueCap
      BY <3>1, <3>2, <1>e, LoggerAssumption
    <3>4. cellSeq'[Cell(p)] = p
      BY <3>1, <3>2, <3>3, <1>f DEF Number
    <3> QED BY <3>1, <3>2, <3>4, <1>b, <1>d
  <2>2. \A u, v \in Caller : Busy(u)' /\ Busy(v)' /\ u # v => pos'[u] # pos'[v]
    BY <1>a, <1>b, <1>h DEF Owners
  <2>3. ASSUME NEW p \in dequeue_pos' .. enqueue_pos' - 1, Number(p)' = p PROVE \E u \in Caller : Busy(u)' /\ pos'[u] = p
    <3>1. p \in Nat /\ h < p /\ p < h + QueueCap /\ p \in dequeue_pos .. enqueue_pos - 1
      BY <1>b, <1>d, <1>e, LoggerAssumption
    <3>2. Number(p) = p
      BY <2>3, <3>1, <1>f
    <3> QED BY <3>1, <3>2, <1>a, <1>b, <1>h DEF Owners
  <2>4. \A u \in Caller : pc'[u] = "commit" => cellData'[Cell(pos'[u])] = <<u, logged'[u]>>
    BY <1>a, <1>b DEF Owners, Record
  <2> QED BY <2>1, <2>2, <2>3, <2>4 DEF Owners, Number, Record
<1>4. InOrder' /\ Found'
  <2>1. Positions' = Positions
    BY <1>b DEF Positions
  <2>2. ASSUME NEW p \in Positions PROVE (Settled(p)' <=> Settled(p)) /\ At(p)' = At(p)
    <3>0. p \in Nat /\ p < h + QueueCap
      BY <1>e, LoggerAssumption DEF Positions
    <3>1. CASE p < h
      <4>1. Settled(p) /\ Settled(p)' /\ p < dequeue_pos /\ p < dequeue_pos'
        BY <3>0, <3>1, <1>b, <1>d DEF Settled
      <4>2. written'[p + 1] = written[p + 1]
        BY <3>0, <3>1, <1>a, <1>b, <1>d, <1>e, AppendProperties DEF LoggerType
      <4> QED BY <4>1, <4>2 DEF At
    <3>2. CASE p = h
      <4>1. Settled(p)' /\ p < dequeue_pos' /\ ~ (p < dequeue_pos)
        BY <3>0, <3>2, <1>b, <1>d DEF Settled
      <4>2. Settled(p)
        BY <3>2, <1>e DEF Settled
      <4>3. written'[h + 1] = cellData[Cell(h)]
        BY <1>a, <1>b, <1>d, <1>e, AppendProperties DEF LoggerType
      <4> QED BY <3>2, <4>1, <4>2, <4>3 DEF At
    <3>3. CASE p > h
      <4>1. Number(p)' = Number(p) /\ ~ (p < dequeue_pos') /\ ~ (p < dequeue_pos)
        BY <3>0, <3>3, <1>b, <1>d, <1>f
      <4> QED BY <4>1, <1>b DEF Settled, At
    <3> QED BY <3>0, <3>1, <3>2, <3>3
  <2>3. \A p \in Positions' : Settled(p)' => p \in Positions /\ Settled(p) /\ At(p)' = At(p)
    BY <2>1, <2>2
  <2>4. \A p \in Positions : Settled(p) => p \in Positions' /\ Settled(p)'
    BY <2>1, <2>2
  <2>5. \A u \in Caller : /\ logged'[u] = logged[u]
                          /\ Offered(u)' => Offered(u)
                          /\ Offered(u) => Offered(u)'
                          /\ Busy(u)' => (Busy(u) /\ pos'[u] = pos[u])
    BY <1>b, <1>h
  <2>6. dropped \subseteq dropped'
    BY <1>b
  <2> QED BY <2>3, <2>4, <2>5, <2>6, <1>a, <1>1, RecordsKept
<1> QED BY <1>1, <1>2, <1>3, <1>4

\* Every step keeps the cells, their owners and the records in them.
LEMMA QueueStep ==
  ASSUME LoggerIInv, LoggerNext
  PROVE  LoggerType' /\ CellNumbers' /\ Owners' /\ InOrder' /\ Found'
<1>a. LoggerType /\ CellNumbers
  BY DEF LoggerIInv
<1>b. pc \in [Caller -> {"out", "claim", "fill", "commit", "check", "drain"}] /\ pos \in [Caller -> Nat] /\ logged \in [Caller -> Nat]
      /\ enqueue_pos \in Nat /\ (consumer # {} => Committed)
  BY <1>a DEF LoggerType, CellNumbers
<1>1. ASSUME NEW t \in Caller, Call(t) PROVE LoggerType' /\ CellNumbers' /\ Owners' /\ InOrder' /\ Found'
  <2>1. /\ pc[t] = "out" /\ pc' = [pc EXCEPT ![t] = "claim"] /\ logged' = [logged EXCEPT ![t] = logged[t] + 1]
        /\ pos' = [pos EXCEPT ![t] = enqueue_pos] /\ UNCHANGED <<queueVars, dropped, consumer, written>>
    BY <1>1 DEF Call, Goto
  <2>2. /\ pc' \in [Caller -> {"out", "claim", "fill", "commit", "check", "drain"}]
        /\ pos' \in [Caller -> Nat] /\ logged' \in [Caller -> Nat]
    BY <2>1, <1>b
  <2>3. /\ pc'[t] = "claim" /\ logged'[t] = logged[t] + 1
        /\ \A u \in Caller : u # t => pc'[u] = pc[u] /\ pos'[u] = pos[u] /\ logged'[u] = logged[u]
    BY <2>1, <1>b
  <2> QED BY <2>1, <2>2, <2>3, <1>b, QuietStep
<1>2. ASSUME NEW t \in Caller, ClaimFree(t) PROVE LoggerType' /\ CellNumbers' /\ Owners' /\ InOrder' /\ Found'
  <2>1. CASE Swapped(t)
    BY <1>2, <2>1, ClaimStep
  <2>2. CASE ~ Swapped(t)
    <3>1. /\ pc[t] = "claim" /\ pc' = pc /\ logged' = logged /\ pos' = [pos EXCEPT ![t] = enqueue_pos]
          /\ UNCHANGED <<queueVars, dropped, consumer, written>>
      BY <1>2, <2>2 DEF ClaimFree, queueVars
    <3>2. pos' \in [Caller -> Nat] /\ \A u \in Caller : u # t => pos'[u] = pos[u]
      BY <3>1, <1>b
    <3> QED BY <3>1, <3>2, <1>b, QuietStep
  <2> QED BY <2>1, <2>2
<1>3. ASSUME NEW t \in Caller, ClaimFull(t) PROVE LoggerType' /\ CellNumbers' /\ Owners' /\ InOrder' /\ Found'
  <2>1. /\ pc[t] = "claim" /\ pc' = [pc EXCEPT ![t] = "check"] /\ logged' = logged /\ pos' = pos
        /\ dropped' = dropped \cup {<<t, logged[t]>>} /\ UNCHANGED <<queueVars, consumer, written>>
    BY <1>3 DEF ClaimFull, Goto, Record
  <2>2. /\ pc' \in [Caller -> {"out", "claim", "fill", "commit", "check", "drain"}]
        /\ pc'[t] = "check" /\ \A u \in Caller : u # t => pc'[u] = pc[u]
    BY <2>1, <1>b
  <2> QED BY <2>1, <2>2, <1>b, QuietStep
<1>4. ASSUME NEW t \in Caller, ClaimStale(t) PROVE LoggerType' /\ CellNumbers' /\ Owners' /\ InOrder' /\ Found'
  <2>1. /\ pc[t] = "claim" /\ pc' = pc /\ logged' = logged /\ pos' = [pos EXCEPT ![t] = enqueue_pos]
        /\ UNCHANGED <<queueVars, dropped, consumer, written>>
    BY <1>4 DEF ClaimStale
  <2>2. pos' \in [Caller -> Nat] /\ \A u \in Caller : u # t => pos'[u] = pos[u]
    BY <2>1, <1>b
  <2> QED BY <2>1, <2>2, <1>b, QuietStep
<1>5. ASSUME NEW t \in Caller, CheckRunning(t) \/ Drained(t) PROVE LoggerType' /\ CellNumbers' /\ Owners' /\ InOrder' /\ Found'
  <2>1. /\ pc[t] \in {"check", "drain"} /\ logged' = logged /\ pos' = pos
        /\ \E l \in {"out", "drain"} : pc' = [pc EXCEPT ![t] = l]
        /\ UNCHANGED <<queueVars, dropped, consumer, written>>
    BY <1>5 DEF CheckRunning, Drained, Goto
  <2>2. /\ pc' \in [Caller -> {"out", "claim", "fill", "commit", "check", "drain"}]
        /\ pc'[t] \in {"out", "drain"} /\ \A u \in Caller : u # t => pc'[u] = pc[u]
    BY <2>1, <1>b
  <2> QED BY <2>1, <2>2, <1>b, QuietStep
<1>6. ASSUME NEW c \in Drainer, front(c) PROVE LoggerType' /\ CellNumbers' /\ Owners' /\ InOrder' /\ Found'
  <2>1. Committed /\ UNCHANGED <<queueVars, pc, pos, logged, dropped, written>>
    BY <1>6 DEF front
  <2> QED BY <2>1, <1>b, QuietStep
<1>7. ASSUME LogLoop \/ start \/ stop \/ StopReturns PROVE LoggerType' /\ CellNumbers' /\ Owners' /\ InOrder' /\ Found'
  <2>1. UNCHANGED <<queueVars, pc, pos, logged, dropped, consumer, written>>
    BY <1>7 DEF LogLoop, start, stop, StopReturns
  <2> QED BY <2>1, <1>b, QuietStep
<1> QED BY <1>1, <1>2, <1>3, <1>4, <1>5, <1>6, <1>7, FillStep, CommitStep, PopStep DEF LoggerNext, Vlog, Drain

\* A queue whose head is not committed, with nobody filling a cell, is empty.
LEMMA Exhausted ==
  ASSUME LoggerIInv, ~ Committed, \A t \in Caller : ~ Busy(t)
  PROVE  dequeue_pos = enqueue_pos
<1>1. LoggerType /\ CellNumbers /\ Owners
  BY DEF LoggerIInv
<1>2. SUFFICES ASSUME dequeue_pos \in dequeue_pos .. enqueue_pos - 1 PROVE FALSE
  BY <1>1 DEF LoggerType
<1>3. Number(dequeue_pos) \in {dequeue_pos, dequeue_pos + 1} /\ dequeue_pos \in Nat
  BY <1>1, <1>2 DEF CellNumbers, LoggerType
<1>4. Number(dequeue_pos) # dequeue_pos
  BY <1>1, <1>2 DEF Owners
<1>5. Committed
  BY <1>3, <1>4 DEF Committed, Number
<1> QED BY <1>5

LEMMA EmptiedStep ==
  ASSUME LoggerIInv, LoggerNext
  PROVE  Emptied'
<1>a. Handover /\ Emptied /\ pc \in [Caller -> {"out", "claim", "fill", "commit", "check", "drain"}]
  BY DEF LoggerIInv, LoggerType
<1>b. Main \in Caller /\ Thread \subseteq Caller /\ Main \notin Thread /\ LogThread \notin Caller
  BY LoggerAssumption DEF Caller
<1>1. ASSUME NEW t \in Caller, Call(t) PROVE Emptied'
  <2>1. (t = Main \/ phase = "up") /\ phase # "stopping" /\ pc' = [pc EXCEPT ![t] = "claim"] /\ phase' = phase
    BY <1>1, <1>a DEF Call, Goto
  <2>2. phase = "down" => pc'[Main] = "claim"
    BY <2>1, <1>a, <1>b
  <2> QED BY <2>1, <2>2 DEF Emptied
<1>2. ASSUME NEW t \in Caller, pc[t] # "out", pc'[t] # "out", UNCHANGED phase PROVE Emptied'
  <2>1. phase # "stopping" /\ (phase = "down" => t = Main)
    BY <1>2, <1>a DEF Handover, Caller
  <2> QED BY <1>2, <2>1 DEF Emptied
<1>3. ASSUME NEW t \in Caller, ClaimFree(t) \/ ClaimFull(t) \/ ClaimStale(t) \/ Fill(t) \/ commit(t) PROVE Emptied'
  <2>1. pc[t] \in {"claim", "fill", "commit"} /\ UNCHANGED phase
        /\ (pc' = pc \/ \E l \in {"fill", "commit", "check"} : pc' = [pc EXCEPT ![t] = l])
    BY <1>3 DEF ClaimFree, ClaimFull, ClaimStale, Fill, commit, Goto
  <2>2. pc[t] # "out" /\ pc'[t] # "out"
    BY <2>1, <1>a
  <2> QED BY <2>1, <2>2, <1>2
<1>4. ASSUME NEW t \in Caller, CheckRunning(t) PROVE Emptied'
  <2>1. pc[t] = "check" /\ pc' = [pc EXCEPT ![t] = IF running_ THEN "out" ELSE "drain"] /\ UNCHANGED phase
    BY <1>4 DEF CheckRunning, Goto
  <2>2. CASE running_
    BY <2>1, <2>2, <1>a DEF Handover, Emptied
  <2>3. CASE ~ running_
    BY <2>1, <2>3, <1>a, <1>2
  <2> QED BY <2>2, <2>3
<1>5. ASSUME NEW t \in Caller, Drained(t) PROVE Emptied'
  <2>1. pc[t] = "drain" /\ ~ Committed /\ UNCHANGED <<phase, enqueue_pos, dequeue_pos>>
    BY <1>5 DEF Drained, queueVars
  <2>2. phase # "stopping" /\ (phase = "down" => \A u \in Caller : ~ Busy(u))
    BY <2>1, <1>a DEF Handover, Caller, Busy
  <2>3. phase = "down" => dequeue_pos = enqueue_pos
    BY <2>1, <2>2, Exhausted
  <2> QED BY <2>1, <2>2, <2>3 DEF Emptied
<1>6. ASSUME NEW c \in Drainer, Drain(c) PROVE Emptied'
  <2>1. UNCHANGED <<pc, logPc, phase>> /\ Draining(c)
    BY <1>6, <1>a DEF Drain, front, pop, Handover
  <2>2. ~ (phase = "stopping" /\ logPc = "ended") /\ ~ (phase = "down" /\ pc[Main] = "out")
    BY <1>6, <2>1, <1>a DEF Handover, Draining, Drainer, Caller
  <2> QED BY <2>1, <2>2 DEF Emptied
<1>7. ASSUME LogLoop PROVE Emptied'
  <2>1. /\ UNCHANGED <<phase, pc, enqueue_pos, dequeue_pos>> /\ logPc \in {"loop", "look", "last"}
        /\ logPc' = "ended" => logPc = "last" /\ ~ Committed
    BY <1>7 DEF LogLoop, AfterLoop, queueVars
  <2>2. phase # "down" /\ (phase = "stopping" => \A u \in Caller : ~ Busy(u))
    BY <2>1, <1>a DEF Handover, Busy
  <2>3. phase = "stopping" /\ logPc' = "ended" => dequeue_pos = enqueue_pos
    BY <2>1, <2>2, Exhausted
  <2> QED BY <2>1, <2>2, <2>3 DEF Emptied
<1>8. ASSUME start \/ stop PROVE Emptied'
  BY <1>8, <1>a DEF start, stop, Handover, Emptied
<1>9. ASSUME StopReturns PROVE Emptied'
  BY <1>9, <1>a DEF StopReturns, Emptied, queueVars
<1> QED BY <1>1, <1>3, <1>4, <1>5, <1>6, <1>7, <1>8, <1>9 DEF LoggerNext, Vlog

-----------------------------------------------------------------------------
(* Theorems *)

\* LoggerIInv is an invariant of the log, for every number of threads, cells
\* and records (mpsc_queue.hpp:20, log.cpp:50).
THEOREM LoggerInductive == LoggerSpec => []LoggerIInv
<1>1. LoggerInit => LoggerIInv
  BY LoggerStart
<1>2. LoggerIInv /\ [LoggerNext]_loggerVars => LoggerIInv'
  <2> SUFFICES ASSUME LoggerIInv, [LoggerNext]_loggerVars PROVE LoggerIInv'
    OBVIOUS
  <2>1. CASE LoggerNext
    BY <2>1, HandoverStep, QueueStep, EmptiedStep DEF LoggerIInv
  <2>2. CASE UNCHANGED loggerVars
    <3>1. UNCHANGED <<cellSeq, cellData, enqueue_pos, dequeue_pos, pc, pos, logged, dropped, running_, consumer, logPc, phase, written>>
      BY <2>2 DEF loggerVars, queueVars
    <3>2. LoggerType' /\ Handover'
      BY <3>1 DEF LoggerIInv, LoggerType, Handover, Draining
    <3>3. CellNumbers' /\ Owners'
      BY <3>1 DEF LoggerIInv, CellNumbers, Owners, Number, Busy, Committed, Record
    <3>4. InOrder' /\ Found' /\ Emptied'
      BY <3>1 DEF LoggerIInv, InOrder, Found, Emptied, Positions, Settled, At, Number, Busy, Offered
    <3> QED BY <3>2, <3>3, <3>4 DEF LoggerIInv
  <2> QED BY <2>1, <2>2
<1> QED BY <1>1, <1>2, PTL DEF LoggerSpec

\* One consumer at a time across start() and stop(), records written whole,
\* once and in each thread's order, and none left in the queue when the logger
\* is down (log.cpp:89), for every number of threads, cells and records.
THEOREM LogIsComplete == LoggerSpec => []LoggerInv
<1>1. LoggerIInv => LoggerInv
  <2> SUFFICES ASSUME LoggerIInv PROVE LoggerInv
    OBVIOUS
  <2>a. LoggerType /\ Handover /\ InOrder /\ Found /\ Emptied
    BY DEF LoggerIInv
  <2>1. OneConsumer
    <3>1. PICK D : D = {c \in Drainer : Draining(c)}
      OBVIOUS
    <3>2. \A c, d \in D : c = d
      BY <3>1, <2>a, OneDrains
    <3>3. CASE D = {}
      <4>1. Cardinality(D) = 0
        BY <3>3, FS_EmptySet
      <4> QED BY <3>1, <4>1 DEF OneConsumer
    <3>4. CASE D # {}
      <4>1. PICK c \in D : TRUE
        BY <3>4
      <4>2. D = {c}
        BY <4>1, <3>2
      <4>3. Cardinality(D) = 1
        BY <4>2, FS_Singleton
      <4> QED BY <3>1, <4>3 DEF OneConsumer
    <3> QED BY <3>3, <3>4
  <2>2. \A i \in DOMAIN written : i - 1 \in Positions /\ Settled(i - 1) /\ At(i - 1) = written[i] /\ i \in Nat
    <3> SUFFICES ASSUME NEW i \in 1 .. dequeue_pos PROVE i - 1 \in Positions /\ Settled(i - 1) /\ At(i - 1) = written[i] /\ i \in Nat
      BY <2>a, LenProperties DEF LoggerType
    <3>1. i - 1 \in Positions /\ i - 1 < dequeue_pos /\ (i - 1) + 1 = i /\ i \in Nat
      BY <2>a DEF LoggerType, Positions
    <3> QED BY <3>1 DEF Settled, At
  <2>3. WrittenInOrder
    <3>1. ASSUME NEW i \in DOMAIN written PROVE written[i] # Half
      <4>1. PICK p \in Positions : Settled(p) /\ At(p) = written[i]
        BY <2>2
      <4>2. At(p)[1] \in Caller /\ At(p)[2] \in 1 .. logged[At(p)[1]]
        BY <4>1, <2>a, RecordType DEF InOrder
      <4>3. At(p)[2] # 0
        BY <4>2
      <4> QED BY <4>1, <4>3 DEF Half
    <3>2. ASSUME NEW i \in DOMAIN written, NEW j \in DOMAIN written, i < j, written[i][1] = written[j][1]
          PROVE  written[i][2] < written[j][2]
      <4>1. i - 1 < j - 1 /\ i - 1 \in Positions /\ j - 1 \in Positions
        BY <3>2, <2>2
      <4>2. /\ Settled(i - 1) /\ At(i - 1) = written[i]
            /\ Settled(j - 1) /\ At(j - 1) = written[j]
        BY <2>2
      <4> QED BY <3>2, <4>1, <4>2, <2>a DEF InOrder
    <3> QED BY <3>1, <3>2 DEF WrittenInOrder
  <2>4. LogComplete
    <3> SUFFICES ASSUME phase = "down", \A u \in Caller : pc[u] = "out", NEW t \in Caller, NEW n \in 1 .. logged[t]
                 PROVE  <<t, n>> \in dropped \cup ToSet(written)
      BY DEF LogComplete
    <3>1. dequeue_pos = enqueue_pos
      BY <2>a DEF Emptied, Caller
    <3>2. ~ Offered(t)
      BY DEF Offered
    <3>3. <<t, n>> \in dropped \/ \E p \in Positions : Settled(p) /\ At(p) = <<t, n>>
      BY <3>2, <2>a, Zenon DEF Found
    <3>4. ASSUME NEW p \in Positions, At(p) = <<t, n>> PROVE <<t, n>> \in ToSet(written)
      <4>1. p < dequeue_pos /\ p + 1 \in 1 .. Len(written) /\ written \in Seq(Rec)
        BY <3>1, <2>a DEF Positions, LoggerType
      <4>2. written[p + 1] = <<t, n>> /\ p + 1 \in DOMAIN written
        BY <3>4, <4>1, LenProperties DEF At
      <4> QED BY <4>2 DEF ToSet
    <3> QED BY <3>3, <3>4
  <2> QED BY <2>1, <2>3, <2>4 DEF LoggerInv
<1> QED BY <1>1, LoggerInductive, PTL
=============================================================================
