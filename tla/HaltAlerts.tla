----------------------------- MODULE HaltAlerts -----------------------------
(* The halts of one stock on their way to an alert. The order feed's trading  *)
(* actions go through ItchBook (or those of a bridge through MarketRunner) to *)
(* the board and, when they matter, into the event ring; the publisher's RSS  *)
(* feed reports the same halts again, later and through the news ring.        *)
(* Engine::handle_halt() takes both and tells a second report from a new halt *)
(* by the last state and its age.                                             *)
EXTENDS Naturals, Sequences

CONSTANTS RepeatWindow,  \* clock steps in the 120 s within which a report is a repeat
          RingCap,       \* capacity of the event ring
          MaxActions     \* bound on the trading actions of the exchange

ASSUME HaltAssumption == RepeatWindow \in Nat

VARIABLES source,      \* "itch", or "bridge", which has no filter
          actions,     \* trading actions so far
          last_state,  \* ItchBook's last state of the stock, or None
          trading,     \* the state on the board
          events,      \* the event ring
          missed,      \* an action found the ring full
          reports,     \* RSS reports on their way, oldest first
          late,        \* the engine's last input was a report overtaken by the order feed
          seen,        \* halt_seen_: state and age of the last one
          said         \* history: state and age of the last alert

haltVars == <<source, actions, last_state, trading, events, missed, reports, late, seen, said>>

None == "none"
State == {"T", "H", "Q"}   \* trading, halted, quotation only before it resumes
Halted(s) == s \in {"H", "Q"}
Never == [state |-> None, age |-> RepeatWindow]

HaltInit ==
  /\ source \in {"itch", "bridge"}
  /\ actions = 0 /\ last_state = None /\ trading = None /\ events = <<>> /\ missed = FALSE
  /\ reports = <<>> /\ late = FALSE /\ seen = Never /\ said = Never

\* Mutant: only halts are passed on.
interestingHaltsOnly(state) == state # "T"
\* The burst that sets every stock to trading at the start of the day is not
\* passed on by ItchBook.
interesting(state) == state # "T" \/ last_state \notin {None, "T"}

Forward(state) == source = "bridge" \/ interesting(state)

\* The action and, for a real halt or resumption, the line it will have in the
\* RSS feed. The board and last_state move even when the ring is full.
on_trading_action(state) ==
  /\ actions < MaxActions
  /\ actions' = actions + 1
  /\ trading' = state /\ last_state' = state
  /\ IF Forward(state) /\ Len(events) < RingCap
       THEN events' = Append(events, state) /\ UNCHANGED missed
       ELSE missed' = (missed \/ Forward(state)) /\ UNCHANGED events
  /\ reports' = IF Halted(state) # Halted(last_state) THEN Append(reports, state) ELSE reports
  /\ UNCHANGED <<source, late, seen, said>>

\* Mutant: the age is not looked at.
RepeatedNever(state) == FALSE
Repeated(state) == seen.state = state /\ seen.age < RepeatWindow

\* handle_halt(); whether the stock is of interest (watched, or of the
\* universe) may be otherwise the next time.
handle_halt(s, interested) ==
  LET state == IF Halted(s) THEN "H" ELSE "T" IN
  IF Repeated(state) THEN UNCHANGED <<seen, said>>
  ELSE /\ seen' = [state |-> state, age |-> 0]
       /\ said' = IF interested THEN seen' ELSE said

OnEvent ==
  /\ events # <<>>
  /\ \E interested \in BOOLEAN : handle_halt(Head(events), interested)
  /\ events' = Tail(events) /\ late' = FALSE
  /\ UNCHANGED <<source, actions, last_state, trading, missed, reports>>

OnReport ==
  /\ reports # <<>>
  /\ \E interested \in BOOLEAN : handle_halt(Head(reports), interested)
  /\ reports' = Tail(reports)
  /\ late' = (Halted(Head(reports)) # Halted(trading))
  /\ UNCHANGED <<source, actions, last_state, trading, events, missed>>

Older(x) == [x EXCEPT !.age = IF @ < RepeatWindow THEN @ + 1 ELSE @]
HaltClock ==
  /\ seen' = Older(seen) /\ said' = Older(said)
  /\ UNCHANGED <<source, actions, last_state, trading, events, missed, reports, late>>

HaltNext == OnEvent \/ OnReport \/ HaltClock \/ \E s \in State : on_trading_action(s)

HaltSpec == HaltInit /\ [][HaltNext]_haltVars

-----------------------------------------------------------------------------
\* With the ring drained, nothing missed and no old report handled last, what
\* the engine believes of the stock is what the board says: neither the filter
\* of ItchBook, nor the window, nor the second source hides a change for good.
EngineAgreesWithBoard ==
  events = <<>> /\ ~missed /\ ~late /\ seen.state # None => (seen.state = "H") = Halted(trading)

\* Two alerts that say the same follow each other only when the window has
\* passed or something else was learned in between, whichever source they came from.
NoRepeatedAlert == [][said' # said /\ said'.age = 0 /\ said.state = seen.state =>
                        said'.state # said.state \/ said.age >= RepeatWindow]_haltVars
=============================================================================
