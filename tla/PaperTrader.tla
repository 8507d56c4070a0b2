----------------------------- MODULE PaperTrader -----------------------------
(***************************************************************************)
(* engine/paper.hpp and paper.cpp: simulated positions opened by ALERT and *)
(* HIGH signals and closed by the exit rules.  It runs inside the engine   *)
(* thread; the market thread changes the board between any two reads, so   *)
(* a read of board_.hot() is a choice among Snapshot.                      *)
(*                                                                         *)
(* Prices and money are integers; slippage and fees are constants per      *)
(* fill.  Times are ages in steps of the clock, stopped one past their     *)
(* limit; a step is long enough for roll_day() to look at the date again,  *)
(* and the date is whether ET midnight has passed since it last looked.    *)
(***************************************************************************)
EXTENDS Integers, FiniteSets, FiniteSetsExt

CONSTANTS Sym, NoSym,
          MaxOpen,            \* bound: max_open of the configuration
          Price,              \* the prices that occur, all positive
          Slip, Fee,          \* slippage and commission per fill
          PositionUsd, MaxLoss,
          Latency, EntryTimeout, MaxHold,
          DayLength, FlatBy,  \* clock steps per day, flat_by_minute
          StopPct, TargetPct, TrailArmPct, TrailPct, ChasePct,
          MaxSignals          \* bound: signals in a behaviour

ASSUME PaperAssumption ==
  /\ MaxOpen \in Nat \ {0} /\ Price \subseteq Nat \ {0} /\ NoSym \notin Sym
  /\ Slip \in Nat /\ Fee \in Nat /\ PositionUsd \in Nat /\ MaxLoss \in Nat
  /\ Latency \in Nat /\ EntryTimeout \in Nat /\ MaxHold \in Nat
  /\ DayLength \in Nat \ {0} /\ FlatBy \in Nat /\ MaxSignals \in Nat

VARIABLES max_open,     \* opts_.max_open, set once
          pos,          \* pos_: slot -> position
          dayRealized,  \* st_.day_realized
          stats,        \* the other counters of st_
          minute,       \* clock: time of day
          midnight,     \* midnight has passed since roll_day() last looked
          stopped,      \* close_all() has run
          unfilled      \* history: orders dropped without a counter

vars == <<max_open, pos, dayRealized, stats, minute, midnight, stopped, unfilled>>

Slot == 1 .. max_open
\* What a read of the board gives: the price is the ask for a buy and the bid
\* for a sale when the quote is valid, the last trade otherwise, 0 for none.
Snapshot == [halted : BOOLEAN, px : Price \cup {0}]

Free == [state |-> "free", sym |-> NoSym, signalPx |-> 0, wait |-> 0, late |-> 0,
         entry |-> 0, shares |-> 0, best |-> 0, held |-> 0, beforeFlat |-> FALSE]
Active(p) == p.state # "free"
\* The board is read for the slots in use.
Boards == [{i \in Slot : Active(pos[i])} -> Snapshot]
Zero == [signals |-> 0, opened |-> 0, closed |-> 0, dup |-> 0, risk |-> 0, capacity |-> 0,
         chase |-> 0, timeout |-> 0]

Init == /\ max_open \in 1 .. MaxOpen
        /\ pos = [i \in Slot |-> Free]
        /\ dayRealized = 0 /\ stats = Zero
        /\ minute = 0 /\ midnight = FALSE /\ stopped = FALSE
        /\ unfilled = 0

-----------------------------------------------------------------------------
(* roll_day(): a new ET date starts a new daily loss *)
Rolled == IF midnight THEN 0 ELSE dayRealized

(* on_signal(), for a tier that is traded *)

\* Mutant: the order arrives one step late.
PendingLate(s, px) == [Free EXCEPT !.state = "pending", !.sym = s, !.signalPx = px, !.wait = Latency + 1]
Pending(s, px) == [Free EXCEPT !.state = "pending", !.sym = s, !.signalPx = px, !.wait = Latency]

FirstFree == CHOOSE i \in Slot : ~ Active(pos[i]) /\ \A j \in 1 .. i - 1 : Active(pos[j])

Count(field) == stats' = [stats EXCEPT !.signals = @ + 1, ![field] = @ + 1]

Signalled == /\ ~ stopped
             /\ stats.signals < MaxSignals
             /\ dayRealized' = Rolled /\ midnight' = FALSE
             /\ UNCHANGED <<max_open, minute, stopped, unfilled>>

\* One position per ticker.
RejectDuplicate(s) ==
  /\ Signalled
  /\ \E i \in Slot : Active(pos[i]) /\ pos[i].sym = s
  /\ Count("dup") /\ UNCHANGED pos

RejectRisk(s) ==
  /\ Signalled
  /\ \A i \in Slot : Active(pos[i]) => pos[i].sym # s
  /\ Rolled <= - MaxLoss
  /\ Count("risk") /\ UNCHANGED pos

RejectCapacity(s) ==
  /\ Signalled
  /\ \A i \in Slot : Active(pos[i]) /\ pos[i].sym # s
  /\ Rolled > - MaxLoss
  /\ Count("capacity") /\ UNCHANGED pos

\* Mutant: the ticker is looked for in filled positions only.
AcceptPendingTwice(s, px) ==
  /\ Signalled
  /\ \A i \in Slot : pos[i].state = "open" => pos[i].sym # s
  /\ \E i \in Slot : ~ Active(pos[i])
  /\ Rolled > - MaxLoss
  /\ pos' = [pos EXCEPT ![FirstFree] = Pending(s, px)]
  /\ stats' = [stats EXCEPT !.signals = @ + 1]

Accept(s, px) ==
  /\ Signalled
  /\ \A i \in Slot : Active(pos[i]) => pos[i].sym # s
  /\ \E i \in Slot : ~ Active(pos[i])
  /\ Rolled > - MaxLoss
  /\ pos' = [pos EXCEPT ![FirstFree] = Pending(s, px)]
  /\ stats' = [stats EXCEPT !.signals = @ + 1]

-----------------------------------------------------------------------------
(* step(): what one evaluation does to a position, given the board *)

Shares(fill) == PositionUsd \div fill
Buy(p, h) == [p EXCEPT !.state = "open", !.entry = h.px + Slip, !.shares = Shares(h.px + Slip),
                       !.best = h.px + Slip, !.beforeFlat = minute < FlatBy,
                       !.signalPx = 0, !.wait = 0, !.late = 0]

\* Mutant: an order that cannot be filled waits for ever.
FillPatient(p, h) ==
  IF p.wait > 0 \/ h.halted \/ h.px = 0 THEN "keep"
  ELSE IF h.px * 100 > p.signalPx * (100 + ChasePct) THEN "chase"
  ELSE IF Shares(h.px + Slip) < 1 THEN "unfilled" ELSE "buy"

\* try_fill(): the verdict on a pending order.
Fill(p, h) ==
  IF p.wait > 0 THEN "keep"
  ELSE IF h.halted \/ h.px = 0 THEN IF p.late > EntryTimeout THEN "timeout" ELSE "keep"
  ELSE IF h.px * 100 > p.signalPx * (100 + ChasePct) THEN "chase"
  ELSE IF Shares(h.px + Slip) < 1 THEN "unfilled" ELSE "buy"

\* check_exit(): the best mark is the maximum favourable excursion.
Best(p, h) == IF h.px > p.best THEN h.px ELSE p.best
Readable(h) == ~ h.halted /\ h.px > 0
Gain(p, px) == (px - p.entry) * 100
\* Mutant: a position is not closed by its age.
ExitsByPrice(p, h) ==
  /\ Readable(h)
  /\ Gain(p, h.px) <= - StopPct * p.entry \/ Gain(p, h.px) >= TargetPct * p.entry
Exits(p, h) ==
  /\ Readable(h)
  /\ \/ Gain(p, h.px) <= - StopPct * p.entry
     \/ Gain(p, h.px) >= TargetPct * p.entry
     \/ /\ Gain(p, Best(p, h)) >= TrailArmPct * p.entry
        /\ (Best(p, h) - h.px) * 100 >= TrailPct * p.entry
     \/ p.held >= MaxHold
     \/ minute >= FlatBy /\ p.beforeFlat

\* finish(): the profit or loss of a sale.
Pnl(p, h) == (h.px - Slip - p.entry) * p.shares - 2 * Fee

After(p, h) ==
  CASE p.state = "free" -> p
    [] p.state = "pending" -> (CASE Fill(p, h) = "keep" -> p [] Fill(p, h) = "buy" -> Buy(p, h) [] OTHER -> Free)
    [] p.state = "open" -> (IF Exits(p, h) THEN Free
                            ELSE IF Readable(h) THEN [p EXCEPT !.best = Best(p, h)] ELSE p)

Verdicts(board, verdict) == {i \in Slot : pos[i].state = "pending" /\ Fill(pos[i], board[i]) = verdict}
Sales(board) == {i \in Slot : pos[i].state = "open" /\ Exits(pos[i], board[i])}
Proceeds(S, board) == MapThenSumSet(LAMBDA i : Pnl(pos[i], board[i]), S)

\* Mutant: a cancelled order is not counted.
StepUncounted(board) ==
  /\ ~ stopped
  /\ pos' = [i \in Slot |-> After(pos[i], board[i])]
  /\ dayRealized' = Rolled + Proceeds(Sales(board), board) /\ midnight' = FALSE
  /\ stats' = [stats EXCEPT !.opened = @ + Cardinality(Verdicts(board, "buy")),
                            !.closed = @ + Cardinality(Sales(board))]
  /\ unfilled' = unfilled + Cardinality(Verdicts(board, "unfilled"))
  /\ UNCHANGED <<max_open, minute, stopped>>

Step(board) ==
  /\ ~ stopped
  /\ pos' = [i \in Slot |-> After(pos[i], board[i])]
  /\ dayRealized' = Rolled + Proceeds(Sales(board), board) /\ midnight' = FALSE
  /\ stats' = [stats EXCEPT !.opened = @ + Cardinality(Verdicts(board, "buy")),
                            !.closed = @ + Cardinality(Sales(board)),
                            !.chase = @ + Cardinality(Verdicts(board, "chase")),
                            !.timeout = @ + Cardinality(Verdicts(board, "timeout"))]
  /\ unfilled' = unfilled + Cardinality(Verdicts(board, "unfilled"))
  /\ UNCHANGED <<max_open, minute, stopped>>

-----------------------------------------------------------------------------
(* close_all(), when the engine stops: at the current mark, halted or not *)
CloseAll(board) ==
  LET open == {i \in Slot : pos[i].state = "open"}
  IN /\ ~ stopped
     /\ pos' = [i \in Slot |-> Free]
     /\ dayRealized' = dayRealized + Proceeds(open, board)
     /\ stats' = [stats EXCEPT !.closed = @ + Cardinality(open)]
     /\ unfilled' = unfilled + Cardinality({i \in Slot : pos[i].state = "pending"})
     /\ stopped' = TRUE
     /\ UNCHANGED <<max_open, minute, midnight>>

\* A step of time.
Min1(a, b) == IF a < b THEN a ELSE b
Older(p) ==
  CASE p.state = "free" -> p
    [] p.state = "pending" -> IF p.wait > 0 THEN [p EXCEPT !.wait = @ - 1]
                              ELSE [p EXCEPT !.late = Min1(@ + 1, EntryTimeout + 1)]
    [] p.state = "open" -> [p EXCEPT !.held = Min1(@ + 1, MaxHold)]
Clock ==
  /\ ~ stopped
  /\ pos' = [i \in Slot |-> Older(pos[i])]
  /\ minute' = (minute + 1) % DayLength
  /\ midnight' = (midnight \/ minute + 1 = DayLength)
  /\ UNCHANGED <<max_open, dayRealized, stats, stopped, unfilled>>

-----------------------------------------------------------------------------
OnSignal == \E s \in Sym : \/ RejectDuplicate(s) \/ RejectRisk(s) \/ RejectCapacity(s)
                           \/ \E px \in Price : Accept(s, px)
Evaluate == \E board \in Boards : Step(board)
Shutdown == \E board \in Boards : CloseAll(board)

Next == OnSignal \/ Evaluate \/ Shutdown \/ Clock

Spec == Init /\ [][Next]_vars

\* The engine evaluates and time passes for as long as it runs.
FairSpec == Spec /\ WF_vars(Evaluate) /\ WF_vars(Clock)

-----------------------------------------------------------------------------
Position == [state : {"free", "pending", "open"}, sym : Sym \cup {NoSym}, signalPx : Nat, wait : 0 .. Latency,
             late : 0 .. EntryTimeout + 1, entry : Nat, shares : Nat, best : Nat, held : 0 .. MaxHold,
             beforeFlat : BOOLEAN]

TypeOK == /\ max_open \in 1 .. MaxOpen /\ pos \in [Slot -> Position]
          /\ dayRealized \in Int /\ stats \in [DOMAIN Zero -> Nat]
          /\ minute \in 0 .. DayLength - 1 /\ midnight \in BOOLEAN /\ stopped \in BOOLEAN
          /\ unfilled \in Nat

\* An ALERT upgraded to HIGH, or a second story on a ticker, never makes a
\* second position, whether the first one is filled or still on its way.
OnePerTicker == \A i, j \in Slot : i # j /\ Active(pos[i]) /\ Active(pos[j]) => pos[i].sym # pos[j].sym

\* Every signal traded is in exactly one of: rejected, cancelled, on its way,
\* open or closed; the statistics the go/no-go verdict is based on leave no
\* trade out and count none twice.
InState(st) == Cardinality({i \in Slot : pos[i].state = st})
SignalsAccounted ==
  /\ stats.signals = stats.dup + stats.risk + stats.capacity + stats.chase + stats.timeout + unfilled
                     + InState("pending") + stats.opened
  /\ stats.opened = stats.closed + InState("open")

\* The trader's books: one position per ticker, and every signal is an order, a
\* trade or a rejection that some counter shows (paper.cpp:45, 94).
TradesAddUp == TypeOK /\ OnePerTicker /\ SignalsAccounted

Holds(i, st) == i \in Slot /\ pos[i].state = st

\* An order is filled or cancelled: a stock that stays halted does not tie up
\* a slot (entry_timeout_s).
OrderSettles == \A i \in 1 .. MaxOpen : Holds(i, "pending") ~> ~ Holds(i, "pending")

\* A position does not outlive the time limit, if a stock that is halted trades
\* again: every slot is now and again evaluated with a price.
TradesAgain == \A i \in 1 .. MaxOpen :
  []<><<\E board \in Boards : (i \in DOMAIN board => Readable(board[i])) /\ Step(board)>>_vars
PositionCloses == TradesAgain => \A i \in 1 .. MaxOpen : Holds(i, "open") ~> ~ Holds(i, "open")

\* What the trader opens, it ends: orders by a fill or by giving up, positions
\* by an exit once they can be sold (paper.cpp:80).
TradesEnd == OrderSettles /\ PositionCloses

\* "stop opening new trades after this realized loss" (paper.hpp:22).
LossStopsOpening == [][stats'.opened > stats.opened => Rolled > - MaxLoss]_vars
=============================================================================
