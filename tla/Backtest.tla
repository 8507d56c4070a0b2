------------------------------ MODULE Backtest ------------------------------
(***************************************************************************)
(* The simulated clock of a replayed day (research/backtest.cpp).  The     *)
(* recorded market messages drive it: before a message is applied to the   *)
(* board, DayRun::advance runs everything the engine would have done by    *)
(* then, the news that had arrived, the periodic evaluations and the scans *)
(* for movers, in the order of their times.                                *)
(*                                                                         *)
(* calls is the list of the calls the engine has received, each with the   *)
(* number of messages on the board at that moment.  The engine itself is   *)
(* reduced to idle(): a story is watched for Life after it arrives.        *)
(***************************************************************************)
EXTENDS Integers, Sequences, FiniteSets, FiniteSetsExt, TLC

CONSTANTS NewsFiles, BadLine, Delay, EvalInterval, ScanInterval, Life, LastTime, MaxMessages, Never

VARIABLES news, movers, sched, applied, last, over

backtestVars == <<news, movers, sched, applied, last, over>>

(* The state of DayRun, with the engine's watch and the calls made. *)
StartOfDay == [ni |-> 1, started |-> FALSE, next_eval |-> 0, next_scan |-> 0, next_due |-> 0,
               until |-> 0, calls |-> <<>>, returned |-> FALSE]

idle(s) == s.until = 0

Call(s, kind, at, seen) ==
    LET u == CASE kind = "news" -> at + Life
               [] kind = "eval" /\ at >= s.until -> 0
               [] OTHER -> s.until
    IN [s EXCEPT !.until = u,
                 !.calls = Append(@, [kind |-> kind, at |-> at, seen |-> seen, watching |-> u # 0])]

(* Mutant: the news to come is not looked at. *)
SkipTargetNow(nn, t) == t

(* How far an idle engine may skip its evaluations. *)
SkipTarget(nn, t) == Min({nn, t})

(* One turn of the loop of advance(t). *)
Turn(s0, t, seen) ==
    LET nn == IF s0.ni <= Len(news) THEN news[s0.ni] ELSE Never
        s1 == IF s0.started THEN s0
              ELSE [s0 EXCEPT !.started = TRUE, !.next_eval = Min({nn, t}),
                              !.next_scan = Min({nn, t})]
        target == SkipTarget(nn, t)
        s == IF idle(s1) /\ s1.next_eval < target
             THEN [s1 EXCEPT !.next_eval = @ + ((target - @) \div EvalInterval) * EvalInterval]
             ELSE s1
        soonest == Min({nn, s.next_eval})
        next == IF movers THEN Min({soonest, s.next_scan}) ELSE soonest
    IN CASE next > t -> [s EXCEPT !.next_due = next, !.returned = TRUE]
         [] next <= t /\ next = nn -> [Call(s, "news", nn, seen) EXCEPT !.ni = @ + 1]
         [] next <= t /\ next # nn /\ next = s.next_eval ->
                [Call(s, "eval", next, seen) EXCEPT !.next_eval = @ + EvalInterval]
         [] OTHER -> [Call(s, "scan", next, seen) EXCEPT !.next_scan = @ + ScanInterval]

(* Everything scheduled at or before t; the loop ends within the bound
   because every turn moves one of the three clocks forward. *)
advance(s0, t, seen) ==
    LET bound == Len(news) + 2 * (LastTime + 2)
        after[n \in 0..bound] ==
            IF n = 0 THEN [s0 EXCEPT !.returned = FALSE]
            ELSE CHOOSE r \in {IF p.returned THEN p ELSE Turn(p, t, seen) : p \in {after[n - 1]}} : TRUE
    IN IF t < s0.next_due THEN s0 ELSE after[bound]

-----------------------------------------------------------------------------

(* Mutant: the stories stay in the order of the file. *)
load_news_eventsUnsorted(lines) == SelectSeq(lines, LAMBDA x : x # BadLine)

(* The loader drops the lines it cannot read and sorts the stories by the
   time they were received: a journal written by several feeds is not in
   that order. *)
load_news_events(lines) == SortSeq(SelectSeq(lines, LAMBDA x : x # BadLine), LAMBDA a, b : a < b)

(* --news-delay shifts every story by the same time, never below zero. *)
Delayed(n) == [i \in DOMAIN n |-> Max({0, n[i] + Delay})]

BacktestStart(lines, scans) ==
    /\ news = Delayed(load_news_events(lines))
    /\ movers = scans
    /\ sched = StartOfDay
    /\ applied = <<>> /\ last = 0 /\ over = FALSE

BacktestInit == \E lines \in NewsFiles, scans \in BOOLEAN : BacktestStart(lines, scans)

(* Mutant: the message is on the board when the clock is advanced. *)
SeenWithThis == Len(applied) + 1

(* What is on the board while the clock is advanced to a message's time. *)
Seen == Len(applied)

(* A timed message: TimedItch ticks, then the book applies it, and a trading
   action's event goes to the engine at once. *)
Message(ts, action) ==
    /\ ~over /\ Len(applied) < MaxMessages /\ ts >= last
    /\ applied' = Append(applied, ts) /\ last' = ts
    /\ \E s \in {advance(sched, ts, Seen)} :
          sched' = IF action THEN Call(s, "halt", ts, Len(applied) + 1) ELSE s
    /\ UNCHANGED <<news, movers, over>>

(* The end of the input: the clock runs to the later of the last message and
   the end of the session. *)
finish ==
    /\ ~over /\ over' = TRUE
    /\ last' = Max({last, LastTime})
    /\ sched' = advance([sched EXCEPT !.next_due = 0], last', Len(applied))
    /\ UNCHANGED <<news, movers, applied>>

BacktestNext ==
    \/ \E ts \in 0..LastTime, action \in BOOLEAN : Message(ts, action)
    \/ finish

BacktestSpec == BacktestInit /\ [][BacktestNext]_backtestVars

-----------------------------------------------------------------------------
(* No look-ahead in prices: whatever the engine does at a simulated time, it
   does with exactly the messages of earlier times on the board, neither a
   later one nor one short; a trading action's own event sees its message. *)
SeesThePast ==
    \A i \in DOMAIN sched.calls :
        LET c == sched.calls[i]
            earlier == {n \in DOMAIN applied : applied[n] < c.at}
        IN IF c.kind = "halt" THEN applied[c.seen] = c.at ELSE c.seen = Cardinality(earlier)

(* The engine's time never runs back, and every story of the day reaches it
   once, in order, at the time it was received; at the end none that was due
   is left. *)
NewsOnTime ==
    LET told == SelectSeq(sched.calls, LAMBDA c : c.kind = "news")
    IN /\ \A i \in 2..Len(sched.calls) : sched.calls[i - 1].at <= sched.calls[i].at
       /\ \A i \in DOMAIN told : told[i].at = news[i]
       /\ \A i \in DOMAIN news : news[i] <= last /\ over => i <= Len(told)

(* A watched story is evaluated at least once per interval for as long as it
   is watched, although an idle engine skips ahead to save time. *)
EvaluatedOnTime ==
    \A i \in DOMAIN sched.calls :
        LET c == sched.calls[i]
        IN c.watching /\ last >= c.at + EvalInterval =>
              \E j \in (i + 1)..Len(sched.calls) :
                  sched.calls[j].kind = "eval" /\ sched.calls[j].at <= c.at + EvalInterval

\* A replayed day runs as it would have: the engine sees the past, all of it, and
\* is called when its time has come (backtest.cpp:55, 132).
BacktestInv == SeesThePast /\ NewsOnTime /\ EvaluatedOnTime
=============================================================================
