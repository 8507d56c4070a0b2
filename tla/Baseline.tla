------------------------------ MODULE Baseline ------------------------------
(***************************************************************************)
(* The volume baseline (market/baseline.cpp): history.tsv has one row per  *)
(* session and ticker, baseline.tsv the previous close and the average     *)
(* volume over the last sessions.  It is written at the end of a session   *)
(* by the market thread (MarketRunner::write_baseline), by stok-replay and *)
(* after every replayed day, in chronological order; a session may be run  *)
(* again, and the process may die between any two of the three atomic      *)
(* writes (the append, the trimmed history, the baseline).                 *)
(*                                                                         *)
(* session is the reference: the volumes and closes of every date as last  *)
(* run.  Averages are kept as sum and count.                               *)
(***************************************************************************)
EXTENDS Integers, Sequences, SequencesExt, FiniteSets, FiniteSetsExt, Totals

CONSTANTS Ticker, Boards, KeepDays, LastDate

(* Some number of days is kept, and the volume on a board is a number. *)
ASSUME BaselineAssumption ==
    /\ IsFiniteSet(Ticker) /\ KeepDays \in Nat /\ LastDate \in Nat
    /\ \A board \in Boards : \A t \in Ticker : board[t].volume \in Nat

VARIABLES pc, history, baseline, date, session, current

baselineVars == <<pc, history, baseline, date, session, current>>

Dates(h) == {h[n].date : n \in DOMAIN h}

(* The KeepDays latest dates. *)
Recent(ds) == {d \in ds : Cardinality({e \in ds : e > d}) < KeepDays}

(* A traded ticker's row; the close is the official one, else the last trade
   of regular hours, else the last trade. *)
CloseOf(b) == IF b.close # 0 THEN b.close ELSE IF b.rth_last # 0 THEN b.rth_last ELSE b.last

RowsOf(d, board) ==
    LET traded == {t \in Ticker : board[t].volume # 0}
    IN SetToSeq({[date |-> d, ticker |-> t, volume |-> board[t].volume, close |-> CloseOf(board[t])] :
                    t \in traded})

(* Mutant: the rows of an earlier run of the date stay. *)
append_sessionKeepsOld(h, d, board) == h \o RowsOf(d, board)

(* The rows of some dates, in their order: a loop over the lines. *)
RowsOn(h, ds) ==
    LET kept[n \in 0..Len(h)] ==
            IF n = 0 THEN <<>>
            ELSE IF h[n].date \in ds THEN Append(kept[n - 1], h[n]) ELSE kept[n - 1]
    IN kept[Len(h)]

(* The rows of an earlier run of the same date are dropped. *)
append_session(h, d, board) == RowsOn(h, Dates(h) \ {d}) \o RowsOf(d, board)

Trimmed(h) == RowsOn(h, Recent(Dates(h)))

(* Per ticker over the rows kept: volumes summed, the close of the latest
   date. *)
rebuild(h) ==
    [t \in {h[n].ticker : n \in DOMAIN h} |->
        LET mine == {n \in DOMAIN h : h[n].ticker = t}
            latest == Max({h[n].date : n \in mine})
        IN [sum |-> Total([n \in mine |-> h[n].volume]), days |-> Cardinality(mine),
            prev_close |-> h[Max({n \in mine : h[n].date = latest})].close]]

-----------------------------------------------------------------------------

BaselineInit ==
    /\ pc = "idle" /\ history = <<>> /\ baseline = [t \in {} |-> 0]
    /\ date = 1 /\ session = [d \in {} |-> 0] /\ current = TRUE

(* The session ends; without a trade nothing is written. *)
EndSession(board) ==
    /\ pc = "idle" /\ RowsOf(date, board) # <<>>
    /\ history' = append_session(history, date, board)
    /\ session' = [d \in DOMAIN session \cup {date} |-> IF d = date THEN board ELSE session[d]]
    /\ pc' = "trim" /\ current' = FALSE
    /\ UNCHANGED <<baseline, date>>

Trim ==
    /\ pc = "trim" /\ pc' = "write"
    /\ history' = Trimmed(history)
    /\ UNCHANGED <<baseline, date, session, current>>

WriteBaseline ==
    /\ pc = "write" /\ pc' = "idle"
    /\ baseline' = rebuild(history) /\ current' = TRUE
    /\ UNCHANGED <<history, date, session>>

Die ==
    /\ pc # "idle" /\ pc' = "idle"
    /\ UNCHANGED <<history, baseline, date, session, current>>

NextSession ==
    /\ pc = "idle" /\ date < LastDate /\ date' = date + 1
    /\ UNCHANGED <<pc, history, baseline, session, current>>

BaselineNext ==
    \/ \E board \in Boards : EndSession(board)
    \/ Trim \/ WriteBaseline \/ Die \/ NextSession

BaselineSpec == BaselineInit /\ [][BaselineNext]_baselineVars

-----------------------------------------------------------------------------
(* At every moment, also after a death between two writes and after sessions
   run twice, history.tsv has exactly one row for each ticker traded on each
   of the latest sessions, with the numbers of the session's last run. *)
HistoryExact ==
    \A d \in Recent(DOMAIN session), t \in Ticker :
        LET mine == {n \in DOMAIN history : history[n].date = d /\ history[n].ticker = t}
            b == session[d][t]
        IN IF b.volume = 0 THEN mine = {}
           ELSE \E n \in mine : /\ mine = {n} /\ history[n].volume = b.volume
                                /\ history[n].close = CloseOf(b)

(* A baseline that was written to the end is that of the latest sessions and
   of nothing else: each ticker's volumes and count, and the close of the
   last session it traded in. *)
BaselineExact ==
    current =>
        LET days == Recent(DOMAIN session)
            on(t) == {d \in days : session[d][t].volume # 0}
        IN /\ DOMAIN baseline = {t \in Ticker : on(t) # {}}
           /\ \A t \in DOMAIN baseline :
                 baseline[t] = [sum |-> Total([d \in on(t) |-> session[d][t].volume]),
                                days |-> Cardinality(on(t)),
                                prev_close |-> CloseOf(session[Max(on(t))][t])]

\* The files tell of the latest sessions as last run, wherever the process died
\* (baseline.cpp:38).
BaselineInv == HistoryExact /\ BaselineExact
=============================================================================
