------------------------------- MODULE MCCore -------------------------------
(* The lock-free structures of core/, checked side by side: the first state   *)
(* says which of them runs, the others keep theirs and are owed no step. Two  *)
(* messages, a ring of two slots and enough pushes to go around twice; three  *)
(* writes under the seqlock; four records and three threads for two cells.   *)
EXTENDS SpscQueue, SeqLock, Logger

VARIABLE part

\* A reader wants the hot fields, or the bars as well.
MCViews == {{"hot"}, {"hot", "bars"}}

CoreInit == /\ part \in {"ring", "lock", "log"}
            /\ Init /\ SeqLockInit /\ LoggerInit
            /\ part # "ring" => slots = [i \in DOMAIN slots |-> CHOOSE v \in Value : TRUE]

RingStep == part = "ring" /\ Next /\ UNCHANGED <<part, seqLockVars, loggerVars>>
LockStep == part = "lock" /\ SeqLockNext /\ UNCHANGED <<part, vars, loggerVars>>
LogStep == part = "log" /\ LoggerNext /\ UNCHANGED <<part, vars, seqLockVars>>

CoreNext == RingStep \/ LockStep \/ LogStep

\* Each module's fairness, for the part that runs.
CoreFairness ==
  /\ WF_vars(part = "ring" /\ FillBegin) /\ WF_vars(part = "ring" /\ FillEnd)
  /\ WF_vars(part = "ring" /\ Publish) /\ WF_vars(part = "ring" /\ Pop)
  /\ WF_vars(part = "ring" /\ FrontFast) /\ WF_vars(part = "ring" /\ FrontReload(tail))
  /\ WF_vars(part = "ring" /\ ReadSlot)
  /\ WF_vars(part = "ring" /\ \E v \in Value : ClaimReload(v, head))
  /\ WF_seqLockVars(part = "lock" /\ Writes) /\ WF_seqLockVars(part = "lock" /\ Reads)
  /\ WF_seqLockVars(part = "lock" /\ BecomesVisible)
  /\ \A t \in Caller : WF_loggerVars(part = "log" /\ Logs(t))
  /\ WF_loggerVars(part = "log" /\ LogThreadRuns) /\ WF_loggerVars(part = "log" /\ StopReturns)

CoreSpec == CoreInit /\ [][CoreNext]_<<part, vars, seqLockVars, loggerVars>> /\ CoreFairness

=============================================================================
