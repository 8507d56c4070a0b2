----------------------------- MODULE MCDelivery -----------------------------
(* From the network to the thread that consumes: the receiver that puts       *)
(* packets in order, and the waker. The first state says which of them runs,  *)
(* the other keeps its state and is owed no step. Two sessions of five        *)
(* messages: two holes can be open at once, a packet can overlap the expected *)
(* sequence number, and the buffer can be full. The waker has the engine's    *)
(* two rings, news and market, with two events each.                          *)
EXTENDS MoldReceiver, Waker, TLC

VARIABLE part

DeliveryInit == /\ part \in {"receiver", "waker"}
                /\ Init /\ WakerInit
                /\ part = "waker" => server

ReceiverStep == part = "receiver" /\ Next /\ UNCHANGED <<part, wakerVars>>
WakerStep == part = "waker" /\ WakerNext /\ UNCHANGED <<part, vars>>

\* The consumer has returned; the receiver never does.
Stopped == part = "waker" /\ consumer = "done" /\ UNCHANGED <<part, vars, wakerVars>>

DeliveryNext == ReceiverStep \/ WakerStep \/ Stopped

\* Each module's fairness, for the part that runs.
DeliveryFairness ==
  /\ WF_vars(part = "receiver" /\ Tick) /\ WF_vars(part = "receiver" /\ Clock(1))
  /\ \A r \in Ring : WF_wakerVars(part = "waker" /\ Notify(r))
  /\ WF_wakerVars(part = "waker" /\ Loop) /\ WF_wakerVars(part = "waker" /\ SleepingVisible)

DeliverySpec == DeliveryInit /\ [][DeliveryNext]_<<part, vars, wakerVars>> /\ DeliveryFairness

-----------------------------------------------------------------------------
\* drain() as its loop is written: the first buffered packet, again and again.
RECURSIVE DrainLoop(_, _)
DrainLoop(p, e) ==
  IF DOMAIN p = {} \/ Least(DOMAIN p) > e THEN [to |-> e, rest |-> p]
  ELSE LET k == Least(DOMAIN p)
       IN DrainLoop([j \in DOMAIN p \ {k} |-> p[j]], IF k + p[k] > e THEN k + p[k] ELSE e)

\* The closed form of drain() is what the loop of sources.hpp:202-213
\* computes, from every buffer and every point a packet can bring it to.
DrainIsLoop == \A e \in 1 .. MaxSeq + 1 :
                 DrainLoop(pending, e) = [to |-> DrainTo(pending, e), rest |-> Beyond(pending, DrainTo(pending, e))]
=============================================================================
