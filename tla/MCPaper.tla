------------------------------- MODULE MCPaper -------------------------------
(* Prices a fifth and a tenth apart, so that stop, target, trailing stop and  *)
(* the chase limit all occur; two tickers and one slot or two.                *)
EXTENDS PaperTrader
CONSTANTS s1, s2
=============================================================================
