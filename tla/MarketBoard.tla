----------------------------- MODULE MarketBoard -----------------------------
(* The statistics the board keeps for one symbol, as functions of the state   *)
(* before and of the print, quote or action that changes it. Times of day are *)
(* minutes; the lock around each change is SeqLock.                           *)
EXTENDS Integers, FiniteSetsExt, Totals

CONSTANTS BarRing,             \* minute bars kept, kBarRing
          RthOpen, RthClose,   \* regular trading hours, in minutes
          MaxSize              \* largest size a quote can carry, UINT32_MAX

ASSUME BoardAssumption == BarRing \in Nat \ {0} /\ MaxSize \in Nat

NoBar == [minute |-> -1, high |-> 0, low |-> 0, close |-> 0, volume |-> 0]

EmptyState ==
  [last |-> 0, high |-> 0, low |-> 0, open |-> 0, rth_last |-> 0, close |-> 0, pm_high |-> 0,
   volume |-> 0, notional |-> 0, trades |-> 0,
   bid |-> 0, ask |-> 0, bid_sz |-> 0, ask_sz |-> 0,
   bars |-> [i \in 0..(BarRing - 1) |-> NoBar]]

Higher(old, px) == IF old = 0 \/ px > old THEN px ELSE old
Lower(old, px) == IF old = 0 \/ px < old THEN px ELSE old

\* Mutant: the bar of an earlier minute in the same slot is added to.
BarAfterStale(b, px, shares, minute) ==
  [minute |-> minute, high |-> Higher(b.high, px), low |-> Lower(b.low, px), close |-> px,
   volume |-> b.volume + shares]

\* A slot that holds another minute starts afresh.
BarAfter(b, px, shares, minute) ==
  IF b.minute = minute
    THEN [b EXCEPT !.high = Higher(@, px), !.low = Lower(@, px), !.close = px, !.volume = @ + shares]
    ELSE [minute |-> minute, high |-> px, low |-> px, close |-> px, volume |-> shares]

apply_trade(s, px, shares, minute) ==
  [s EXCEPT !.last = px,
            !.high = Higher(@, px),
            !.low = Lower(@, px),
            !.volume = @ + shares,
            !.notional = @ + px * shares,
            !.trades = @ + 1,
            !.pm_high = IF minute < RthOpen /\ px > @ THEN px ELSE @,
            !.open = IF minute >= RthOpen /\ minute < RthClose /\ @ = 0 THEN px ELSE @,
            !.rth_last = IF minute >= RthOpen /\ minute < RthClose THEN px ELSE @,
            !.bars[minute % BarRing] = BarAfter(@, px, shares, minute)]

trade(s, px, shares, minute) ==
  IF px <= 0 \/ shares = 0 THEN s ELSE apply_trade(s, px, shares, minute)

\* A cross with no shares still sets the official price.
cross(s, px, shares, minute, type) ==
  IF px <= 0 THEN s
  ELSE LET t == IF shares > 0 THEN apply_trade(s, px, shares, minute) ELSE s
       IN  [t EXCEPT !.open = IF type = "O" THEN px ELSE @,
                     !.close = IF type = "C" THEN px ELSE @]

quote(s, bid, bid_sz, ask, ask_sz) ==
  [s EXCEPT !.bid = bid, !.ask = ask,
            !.bid_sz = Min({bid_sz, MaxSize}), !.ask_sz = Min({ask_sz, MaxSize})]

volume_since_minute(s, from) ==
  Total([i \in {j \in DOMAIN s.bars : s.bars[j].minute >= from} |-> s.bars[i].volume])

price_at_minute(s, minute) ==
  LET upTo == {i \in DOMAIN s.bars : s.bars[i].minute \in 0..minute}
  IN  IF upTo = {} THEN 0
      ELSE s.bars[CHOOSE i \in upTo : \A j \in upTo : s.bars[j].minute <= s.bars[i].minute].close
=============================================================================
