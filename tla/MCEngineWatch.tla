---------------------------- MODULE MCEngineWatch ----------------------------
(* Two tickers, one of them with a small share count, and a list that holds  *)
(* one story, so that eviction, expiry and a return within the cooldown all   *)
(* happen; filings and stories alternate on the first.                        *)
EXTENDS EngineWatch
CONSTANTS a, b
=============================================================================
