----------------------------- MODULE OrderedFeed -----------------------------
(***************************************************************************)
(* What the order book may assume of its market-data source: within a      *)
(* session the messages it is given are in sequence, none twice, and every *)
(* message it was not given is counted as lost.                            *)
(***************************************************************************)
EXTENDS Integers, Sequences

CONSTANTS Session, NoSession,
          SeqNo      \* the sequence numbers that occur

VARIABLES session,   \* the session being followed
          first,     \* first sequence number of interest in it, 0 before sync
          next,      \* the sequence number wanted next, 0 before sync
          applied,   \* sequence numbers given to the book in this session
          lost       \* number of messages given up in this session

vars == <<session, first, next, applied, lost>>

\* The sequence numbers a .. b - 1, in order.
Run(a, b) == [i \in 1 .. (b - a) |-> a + i - 1]

Init == /\ session = NoSession
        /\ first = 0 /\ next = 0 /\ applied = <<>> /\ lost = 0

\* A session is entered: nothing of it is known yet ...
Enter(s) == /\ session' = s
            /\ first' = 0 /\ next' = 0 /\ applied' = <<>> /\ lost' = 0

\* ... or its first packet fixes where it starts and brings messages a .. b-1.
Sync(s, a, b) == /\ s # session \/ next = 0
                 /\ a > 0 /\ a <= b
                 /\ session' = s
                 /\ first' = a /\ next' = b /\ applied' = Run(a, b) /\ lost' = 0

\* Messages next .. a - 1 are given up and a .. b - 1 applied.
Advance(a, b) == /\ next # 0
                 /\ next <= a /\ a <= b
                 /\ lost' = lost + (a - next)
                 /\ applied' = applied \o Run(a, b)
                 /\ next' = b
                 /\ UNCHANGED <<session, first>>

Next == \/ \E s \in Session : s # session /\ Enter(s)
        \/ \E s \in Session : \E a, b \in SeqNo : Sync(s, a, b)
        \/ \E a, b \in SeqNo : Advance(a, b)

Spec == Init /\ [][Next]_vars

-----------------------------------------------------------------------------
\* The book never sees messages out of order, nor one twice.
InOrder == \A i, j \in 1 .. Len(applied) : i < j => applied[i] < applied[j]

\* Only messages between the start of the session and the expected one.
WithinSession == \A i \in 1 .. Len(applied) : first <= applied[i] /\ applied[i] < next

\* Every message since the start was applied or counted in gap_messages.
Accounted == Len(applied) + lost = next - first
=============================================================================
