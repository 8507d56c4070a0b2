-------------------------------- MODULE Fifo --------------------------------
(***************************************************************************)
(* What a stok ring promises its two users: a bounded first-in first-out   *)
(* queue.  The producer appends whole values, the consumer looks at the    *)
(* oldest one in place (front) and then removes it (pop).                  *)
(***************************************************************************)
EXTENDS Naturals, Sequences

CONSTANTS Value,   \* what the producer may push
          Cap,     \* number of slots
          None     \* "the consumer holds no value"

VARIABLES q,       \* published values the consumer has not popped
          out      \* the value the consumer is looking at, or None

vars == <<q, out>>

Init == q = <<>> /\ out = None

Push(v) == /\ Len(q) < Cap
           /\ q' = Append(q, v)
           /\ UNCHANGED out

\* front() and the read of the slot it returns.
Front == /\ q # <<>>
         /\ out' = Head(q)
         /\ UNCHANGED q

Pop == /\ q # <<>>
       /\ out = Head(q)
       /\ q' = Tail(q)
       /\ out' = None

Next == (\E v \in Value : Push(v)) \/ Front \/ Pop

Spec == Init /\ [][Next]_vars
=============================================================================
