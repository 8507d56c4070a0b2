---------------------------- MODULE MCMarketData ----------------------------
(* Four parts of the market thread that share no state, checked side by side: *)
(* the first state says which of them runs, the others keep theirs. Two       *)
(* quantities, two prices and slots for two minutes, so that an order is      *)
(* reduced in part and in whole, a level has two orders and a bar is reused.  *)
EXTENDS ItchBook, HaltAlerts, Recorder, Baseline

VARIABLE part

vars == <<part, bookVars, haltVars, recorderVars, baselineVars>>

\* Stock q has a ladder, u has none; the directory names a code for each.
MCStockOf == [l \in Locate |-> IF l = 1 THEN "q" ELSE "u"]

\* The bytes of a message, its length among them.
MCSizeOf == <<2, 3, 2>>

\* Days on the board: a stock without a trade, without a close, without a
\* trade in regular hours.
OnBoard(v, l, r, c) == [volume |-> v, last |-> l, rth_last |-> r, close |-> c]
MCBoards == {[x |-> OnBoard(2, 5, 0, 0), y |-> OnBoard(0, 0, 0, 0)],
             [x |-> OnBoard(1, 5, 4, 3), y |-> OnBoard(3, 6, 7, 0)],
             [x |-> OnBoard(0, 0, 0, 0), y |-> OnBoard(1, 2, 2, 2)]}

Init == /\ part \in {"book", "halts", "recorder", "baseline"}
        /\ BookInit /\ HaltInit /\ RecorderInit /\ BaselineInit
        /\ part # "halts" => source = "itch"

BookStep == part = "book" /\ BookNext /\ UNCHANGED <<part, haltVars, recorderVars, baselineVars>>
HaltStep == part = "halts" /\ HaltNext /\ UNCHANGED <<part, bookVars, recorderVars, baselineVars>>
RecorderStep == part = "recorder" /\ RecorderNext /\ UNCHANGED <<part, bookVars, haltVars, baselineVars>>
BaselineStep == part = "baseline" /\ BaselineNext /\ UNCHANGED <<part, bookVars, haltVars, recorderVars>>

Next == BookStep \/ HaltStep \/ RecorderStep \/ BaselineStep

Spec == Init /\ [][Next]_vars
=============================================================================
