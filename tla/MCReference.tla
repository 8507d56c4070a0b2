----------------------------- MODULE MCReference -----------------------------
(* Six parts that share no state, checked side by side: the first state says  *)
(* which of them runs, the others keep theirs.                                *)
EXTENDS WallCalendar, Scorer, Filings, Symbols, Backtest, FlatMap

VARIABLE part

-----------------------------------------------------------------------------
(* Times of day at which a date or an offset could be off by one.             *)
MCTimes == {<<0, 0>>, <<1, 59>>, <<9, 30>>, <<23, 59>>}

(* Rules over two letters, so that every text of three or four has hits that  *)
(* overlap, end in each other, or need a separator on either side; and every  *)
(* kind of rule has one.                                                      *)
RuleLine(k, c, w, p) == [kind |-> k, cat |-> c, weight |-> w, phrase |-> p]
MCRules ==
  <<RuleLine("cat", "contract", 50, <<"a", "_", "b">>), RuleLine("cat", "fda", 44, <<"a", "*">>),
    RuleLine("spec", "none", 10, <<"b">>), RuleLine("neg", "none", -20, <<"b", "a">>),
    RuleLine("dilution", "none", 0, <<"b", "_", "b">>), RuleLine("spam", "none", 0, <<"a", "_", "a">>),
    RuleLine("tier1", "none", 8, <<"a", "b">>), RuleLine("hedge", "none", -9, <<"b", "b", "*">>),
    RuleLine("distress", "none", 0, <<"a", "a">>), RuleLine("nonbinding", "none", -6, <<"b", "_", "a">>)>>
Figure(v, after, upto) == [value |-> v, after |-> after, upto |-> upto]
Texts(n) == UNION {[1..k -> Letter \union {Sep}] : k \in 0..n}
Doc(t, b, f) == [title |-> t, body |-> b, figures |-> f, cap |-> 15]
MCFirst == {Doc(t, b, {Figure(20, "plain", TRUE), Figure(90, "market", FALSE)}) : t \in Texts(4), b \in Texts(3)}
MCNext == {Doc(<<"a", "_", "b">>, <<>>, {}), Doc(<<"b">>, <<"b", "a">>, {}),
           Doc(<<>>, <<"b", "_", "b">>, {Figure(5, "per", FALSE)}),
           Doc(<<"a", "a">>, <<"b", "b">>, {Figure(5, "plain", FALSE)})}

(* Windows of no day and of one, and an index with a filing of interest, one  *)
(* without, and an empty day.                                                 *)
MCWindow == [offering |-> 0, effect |-> 0, shelf |-> 1, s1 |-> 1, rs_proxy |-> 1, late_filer |-> 0]
            @@ ("item3.02" :> 0 @@ "deficiency" :> 1 @@ "item5.03" :> 0)
MCIndex == (20500 :> {[cik |-> 7, form |-> "8-K"], [cik |-> 7, form |-> "10-K"]})
           @@ (20501 :> {[cik |-> 7, form |-> "S-3"]}) @@ (20502 :> {})

(* A common stock, its warrant and a fund; two stocks of another exchange,    *)
(* one with three spellings; the same company under several of them.          *)
Listed(s, n, c, e) == [symbol |-> s, name |-> n, category |-> c, test |-> FALSE, etf |-> e]
Other(s, q, k, n, c) ==
  [symbol |-> s, cqs |-> q, nasdaq |-> k, name |-> n, category |-> c, test |-> FALSE, etf |-> FALSE]
Filer(t, c, n, e) == [ticker |-> t, cik |-> c, name |-> n, exchange |-> e]
MCNasdaq == {Listed(<<"A", "C", "M", "E">>, <<"THE", "ACME", "INC", "-", "STOCK">>, "Q", FALSE),
             Listed(<<"A", ".", "W">>, <<"ACME", "-", "WARRANT">>, "S", FALSE),
             Listed(<<"E">>, <<"ACME", "FUND">>, "G", TRUE)}
MCOther == {Other(<<"B", ".", "C">>, <<"B", "C">>, <<"B", "-", "C">>, <<"ACME", "CORP">>, "N"),
            Other(<<"D">>, <<>>, <<>>, <<"ACME">>, "N")}
MCSec == {Filer(<<"A", "C", "M", "E">>, 1, <<"ACME">>, "Nasdaq"), Filer(<<"A", "-", "W">>, 1, <<"ACME">>, "Nasdaq"),
          Filer(<<"B", "-", "C">>, 2, <<"ACME">>, "NYSE"), Filer(<<"Z">>, 1, <<"ACME">>, "OTC")}
MCFund == {[cik |-> 1, shares |-> 5]}
MCFinra == {[symbol |-> <<"B", "/", "C">>, short |-> 1, total |-> 2]}
MCShort == {<<"AI">>}

(* Stories in order and not, two at a time, one with a broken line, one after *)
(* the last message; the delay makes them earlier than they are.              *)
MCNews == {<<>>, <<3>>, <<6, 99, 1>>, <<10, 4, 4>>, <<2, 9, 8>>}
MCDelay == -1

-----------------------------------------------------------------------------
Init ==
  /\ part \in {"map", "calendar", "scorer", "filings", "symbols", "backtest"}
  /\ CalendarInit /\ FilingsInit
  /\ IF part = "map" THEN FlatInit ELSE FlatStart([k \in Key |-> k])
  /\ IF part = "scorer" THEN ScorerInit ELSE ScorerStart(Doc(<<>>, <<>>, {}))
  /\ IF part = "symbols" THEN SymbolsInit ELSE SymbolsStart(AllRows)
  /\ IF part = "backtest" THEN BacktestInit ELSE BacktestStart(<<>>, FALSE)

\* The parts that do not run stay as they are.
Rests(p, v) == IF part = p THEN TRUE ELSE UNCHANGED v
OthersRest == /\ part' = part
              /\ Rests("map", flatVars) /\ Rests("calendar", calendarVars) /\ Rests("scorer", scorerVars)
              /\ Rests("filings", filingsVars) /\ Rests("symbols", symbolVars) /\ Rests("backtest", backtestVars)

MapStep == part = "map" /\ FlatNext /\ OthersRest
CalendarStep == part = "calendar" /\ CalendarNext /\ OthersRest
ScorerStep == part = "scorer" /\ ScorerNext /\ OthersRest
FilingsStep == part = "filings" /\ FilingsNext /\ OthersRest
SymbolsStep == part = "symbols" /\ load_dir /\ OthersRest
BacktestStep == part = "backtest" /\ BacktestNext /\ OthersRest

Next == MapStep \/ CalendarStep \/ ScorerStep \/ FilingsStep \/ SymbolsStep \/ BacktestStep

Spec == Init /\ [][Next]_<<part, flatVars, calendarVars, scorerVars, filingsVars, symbolVars, backtestVars>>
=============================================================================
