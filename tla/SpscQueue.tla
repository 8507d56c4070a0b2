------------------------------ MODULE SpscQueue ------------------------------
(***************************************************************************)
(* core/spsc_queue.hpp: the lock-free single-producer single-consumer ring *)
(* that joins every pair of stok threads (net -> engine, market -> engine, *)
(* engine -> alerts, engine -> journal, market -> recorder).               *)
(*                                                                         *)
(* One step is one access to shared memory.  The indices are written with  *)
(* release and read with acquire, so a load returns SOME value the other   *)
(* side has stored, not older than the last one this side saw: a reload    *)
(* picks any index between the cached copy and the current one.  A slot is *)
(* not atomic: from the first store into it until the last it holds Torn.  *)
(* The 64-bit indices are modelled as naturals (2^64 pushes are out of     *)
(* reach), so wrap-around is the slot mask only.                           *)
(***************************************************************************)
EXTENDS Integers, Sequences

CONSTANTS Value,     \* messages
          Cap,       \* cap_: slots in the ring
          MaxIndex,  \* bound: pushes per behaviour
          Torn,      \* contents of a slot that is being written
          None       \* no message in hand

ASSUME CapAssumption == Cap \in Nat \ {0}
ASSUME MaxIndexAssumption == MaxIndex \in Nat
ASSUME ValueAssumption == Torn \notin Value /\ None \notin Value /\ Torn # None

VARIABLES head,        \* head_, written by the consumer
          tail,        \* tail_, written by the producer
          cachedHead,  \* cached_head_, private to the producer
          cachedTail,  \* cached_tail_, private to the consumer
          slots,       \* slots_
          pPc, pVal,   \* producer: where it is, and the message it pushes
          cPc, cVal    \* consumer: where it is, and the message it has read

pVars == <<tail, cachedHead, pPc, pVal>>
cVars == <<head, cachedTail, cPc, cVal>>
vars == <<head, tail, cachedHead, cachedTail, slots, pPc, pVal, cPc, cVal>>

Slot(i) == i % Cap

Init == /\ head = 0 /\ tail = 0
        /\ cachedHead = 0 /\ cachedTail = 0
        /\ slots \in [0 .. Cap - 1 -> Value]  \* default-constructed messages
        /\ pPc = "idle" /\ pVal = None
        /\ cPc = "idle" /\ cVal = None

-----------------------------------------------------------------------------
(* Producer *)

\* Mutant: the fullness test one slot late.
ClaimFastLate(v) ==
  /\ pPc = "idle" /\ tail < MaxIndex
  /\ tail - cachedHead <= Cap
  /\ pPc' = "fill" /\ pVal' = v
  /\ UNCHANGED <<tail, cachedHead, slots>> /\ UNCHANGED cVars

\* try_claim() when the cached head already shows room.
ClaimFast(v) ==
  /\ pPc = "idle"
  /\ tail < MaxIndex
  /\ tail - cachedHead < Cap
  /\ pPc' = "fill"
  /\ pVal' = v
  /\ UNCHANGED <<tail, cachedHead, slots>> /\ UNCHANGED cVars

\* Mutant: the reload trusts the old copy, head_ is never read again.
ClaimReloadNever(v, h) ==
  /\ pPc = "idle" /\ tail < MaxIndex
  /\ tail - cachedHead >= Cap
  /\ UNCHANGED vars

\* try_claim() when the ring looks full: reload head_, then decide.  Without
\* room the claim returns nullptr and the caller drops or keeps its message.
ClaimReload(v, h) ==
  /\ pPc = "idle"
  /\ tail < MaxIndex
  /\ tail - cachedHead >= Cap
  /\ cachedHead' = h
  /\ IF tail - h >= Cap THEN UNCHANGED <<pPc, pVal>>
                        ELSE pPc' = "fill" /\ pVal' = v
  /\ UNCHANGED <<tail, slots>> /\ UNCHANGED cVars

\* Mutant: tail_ is advanced before the slot is written.
FillBeginPublished ==
  /\ pPc = "fill"
  /\ slots' = [slots EXCEPT ![Slot(tail)] = Torn]
  /\ tail' = tail + 1
  /\ pPc' = "idle" /\ pVal' = None
  /\ UNCHANGED cachedHead /\ UNCHANGED cVars

\* The producer starts to write in the claimed slot ...
FillBegin ==
  /\ pPc = "fill"
  /\ slots' = [slots EXCEPT ![Slot(tail)] = Torn]
  /\ pPc' = "filling"
  /\ UNCHANGED <<tail, cachedHead, pVal>> /\ UNCHANGED cVars

\* ... and ends.
FillEnd ==
  /\ pPc = "filling"
  /\ slots' = [slots EXCEPT ![Slot(tail)] = pVal]
  /\ pPc' = "publish"
  /\ UNCHANGED <<tail, cachedHead, pVal>> /\ UNCHANGED cVars

Publish ==
  /\ pPc = "publish"
  /\ tail' = tail + 1
  /\ pPc' = "idle"
  /\ pVal' = None
  /\ UNCHANGED <<cachedHead, slots>> /\ UNCHANGED cVars

-----------------------------------------------------------------------------
(* Consumer *)

\* front() when the cached tail already shows a message.
FrontFast ==
  /\ cPc = "idle"
  /\ head # cachedTail
  /\ cPc' = "reading"
  /\ UNCHANGED <<head, cachedTail, cVal, slots>> /\ UNCHANGED pVars

\* Mutant: front() reloads tail_ and still reports empty.
FrontReloadEmpty(t) ==
  /\ cPc = "idle" /\ head = cachedTail
  /\ UNCHANGED vars

\* front() when the ring looks empty: reload tail_, then decide.
FrontReload(t) ==
  /\ cPc = "idle"
  /\ head = cachedTail
  /\ cachedTail' = t
  /\ cPc' = IF head = t THEN "idle" ELSE "reading"
  /\ UNCHANGED <<head, cVal, slots>> /\ UNCHANGED pVars

\* Mutant: pop() before the message is read.
ReadSlotLate ==
  /\ cPc = "reading"
  /\ head' = head + 1
  /\ cVal' = slots[Slot(head + 1)]
  /\ cPc' = "held"
  /\ UNCHANGED <<cachedTail, slots>> /\ UNCHANGED pVars

\* The consumer reads the slot in place.
ReadSlot ==
  /\ cPc = "reading"
  /\ cVal' = slots[Slot(head)]
  /\ cPc' = "held"
  /\ UNCHANGED <<head, cachedTail, slots>> /\ UNCHANGED pVars

Pop ==
  /\ cPc = "held"
  /\ head' = head + 1
  /\ cPc' = "idle"
  /\ cVal' = None
  /\ UNCHANGED <<cachedTail, slots>> /\ UNCHANGED pVars

-----------------------------------------------------------------------------
Producer == \/ \E v \in Value : ClaimFast(v)
            \/ \E v \in Value, h \in cachedHead .. head : ClaimReload(v, h)
            \/ FillBegin \/ FillEnd \/ Publish

Consumer == \/ FrontFast
            \/ \E t \in cachedTail .. tail : FrontReload(t)
            \/ ReadSlot \/ Pop

Next == Producer \/ Consumer

Spec == Init /\ [][Next]_vars

\* A store becomes visible in finite time, so a side that keeps asking is
\* answered with the current index again and again; the producer's steps
\* between claim and publish, and the consumer's between front and pop, are
\* straight-line code.
Fairness == /\ WF_vars(FillBegin) /\ WF_vars(FillEnd) /\ WF_vars(Publish)
            /\ WF_vars(FrontFast) /\ WF_vars(FrontReload(tail))
            /\ WF_vars(ReadSlot) /\ WF_vars(Pop)
            /\ WF_vars(\E v \in Value : ClaimReload(v, head))

FairSpec == Spec /\ Fairness

-----------------------------------------------------------------------------
TypeOK ==
  /\ head \in Nat /\ tail \in Nat
  /\ cachedHead \in Nat /\ cachedTail \in Nat
  /\ slots \in [0 .. Cap - 1 -> Value \cup {Torn}]
  /\ pPc \in {"idle", "fill", "filling", "publish"}
  /\ pVal \in Value \cup {None}
  /\ cPc \in {"idle", "reading", "held"}
  /\ cVal \in Value \cup {Torn, None}

\* The two private copies never run ahead of the index they copy, and the
\* producer's cautious view of the ring never lets it lap the consumer.
IndexOrder == /\ cachedHead <= head
              /\ head <= cachedTail
              /\ cachedTail <= tail
              /\ tail <= cachedHead + Cap

\* A claimed slot is free, whatever the consumer does meanwhile.
ClaimHasRoom == pPc # "idle" => tail < cachedHead + Cap /\ pVal \in Value

\* The slot the consumer was given is published.
FrontHasItem == cPc # "idle" => head < cachedTail

\* Every published, unpopped slot holds a whole message.
PublishedWhole == \A i \in head .. tail - 1 : slots[Slot(i)] \in Value

FilledReady == pPc = "publish" => slots[Slot(tail)] = pVal

\* What the consumer has in hand is what its slot still holds.
HeldIsFront == cPc = "held" => cVal = slots[Slot(head)]

\* The inductive invariant behind the safety properties.
IInv == /\ TypeOK /\ IndexOrder /\ ClaimHasRoom /\ FrontHasItem
        /\ PublishedWhole /\ FilledReady /\ HeldIsFront
        /\ cPc # "held" => cVal = None

\* The consumer never sees a message the producer is still writing: not in
\* what it has read (spsc_queue.hpp front() after try_claim()), nor in a slot
\* it may read at its next step.
NoTornRead == /\ cVal # Torn
              /\ cPc = "reading" => slots[Slot(head)] # Torn

\* Between front() and pop() the slot is read in place, so no step of the
\* producer may change it ("the consumer reads the slot in place before
\* popping it").
HeldSlotStable ==
  [][cPc = "held" /\ cPc' = "held" => slots'[Slot(head)] = cVal]_vars

\* The ring is a bounded FIFO: values come out whole, once, in push order,
\* and there are never more than Cap of them.
contents == [k \in 1 .. (tail - head) |-> slots[Slot(head + k - 1)]]
Ring == INSTANCE Fifo WITH q <- contents, out <- cVal
RefinesFifo == Ring!Spec

\* A consumer that keeps calling front() gets every published message: after
\* a publish the head moves past it, although both sides look at each other
\* through cached indices.
PublishedIsConsumed == \A i \in 0 .. MaxIndex - 1 : (tail > i) ~> (head > i)

\* A full ring does not stay refused: while the consumer pops, a producer that
\* keeps calling try_claim() gets a slot.
ClaimNotStarved == (pPc = "idle" /\ tail < MaxIndex /\ tail - cachedHead >= Cap) ~> pPc = "fill"

\* Neither side stays behind its cached copy of the other's index
\* (spsc_queue.hpp:39, 60): what is published is consumed, and a slot popped
\* is claimed again.
NoSideStarves == PublishedIsConsumed /\ ClaimNotStarved
=============================================================================
