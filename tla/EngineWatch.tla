----------------------------- MODULE EngineWatch -----------------------------
(***************************************************************************)
(* engine/engine.cpp: the watchlist.  News and filings put a ticker on the *)
(* list, evaluate() confirms the story with the market and raises its      *)
(* tier, scan_movers() reports what moves without being on the list.       *)
(*                                                                         *)
(* One thread runs all of it.  on_news() is a chain of steps (one for each *)
(* ticker of the event, then evaluate()) during which nothing else of this *)
(* module happens; the market thread may change the board at any moment,   *)
(* so what a read of the board finds is chosen anew at each step.          *)
(*                                                                         *)
(* Scores are 0 (not watchable: too weak, spam, an offering, or outside    *)
(* the universe), 1 (>= watch_score) and 2 (>= high_score), after the      *)
(* penalties for filings.  Times are ages in clock steps.  A filing stays  *)
(* on record: its window is days, a story's is minutes.                    *)
(***************************************************************************)
EXTENDS Integers, Sequences, FiniteSets

CONSTANTS Sym,
          SmallCap,   \* shares_outstanding known and at most high_max_shares
          NoStory,
          MaxWatch,   \* watch_.size()
          Window,     \* watch_window_s
          Cooldown,   \* cooldown_s
          Horizons,   \* outcome_horizons_s
          MaxNews,    \* bound: stories in a behaviour
          Filed, Items,   \* bounds: forms and 8-K items that are filed,
          Filers, Movers  \* the tickers they are filed on, the tickers that move

ASSUME WatchAssumption ==
  /\ SmallCap \subseteq Sym /\ MaxWatch \in Nat \ {0}
  /\ Window \in Nat /\ Cooldown \in Nat \ {0} /\ Horizons \subseteq Nat /\ MaxNews \in Nat
  /\ Filed \subseteq {"prospectus", "effect", "registration", "distress"} /\ Movers \subseteq Sym /\ Filers \subseteq Sym
  /\ Items \subseteq {"sale", "distress"}

VARIABLES watch,      \* watch_ through watch_by_sym_: ticker -> story
          filings,    \* filings_.flags(): ticker -> flags on record
          last,       \* last_tier_ns_: age of the last signal, Cooldown for none
          moved,      \* mover_alerted_ for today
          todo,       \* tickers of the news item still to be looked at
          cur,        \* number of the news item, the latest one taken
          touched,    \* touched_watch
          evaluated,  \* evaluate() has run since the last step of the clock
          sent,       \* history: signals of the last step
          told        \* history: clock steps since (ticker, tier) was really signalled

vars == <<watch, filings, last, moved, todo, cur, touched, evaluated, sent, told>>

Watch == 1
Alert == 2
High  == 3
Mover == 5
Info  == 6
Tiers == Watch .. High

\* What filings_.add() may leave on record: the flags that block a new story,
\* and those that only cost points (soft_penalty_flags).
HardFlags == {"offering", "effect", "sale"}
SoftFlags == {"registration", "distress"}

\* What evaluate() sees of a ticker: no price, not moving (or halted, or too
\* wide a spread), moving on volume, moving and above VWAP.
Snapshot == {"none", "quiet", "moving", "running"}

\* done: horizons whose outcome is journalled. seen is not in the code: the age
\* of the watch at the latest evaluation that found a price (-1: none yet).
Story == [id : Nat, score : 1 .. 2, tier : Tiers, age : 0 .. Window + 1, flags : SUBSET (HardFlags \cup SoftFlags),
          done : SUBSET Horizons, seen : -1 .. Window]

Watched(s) == watch[s] # NoStory
Idle == todo = <<>> /\ ~ touched
Signal(s, t, w) == [sym |-> s, tier |-> t, id |-> w.id, flags |-> w.flags]

Init == /\ watch = [s \in Sym |-> NoStory]
        /\ filings = [s \in Sym |-> {}]
        /\ last = [s \in Sym |-> [t \in Tiers |-> Cooldown]]
        /\ told = [s \in Sym |-> [t \in Tiers |-> Cooldown + Window + 1]]
        /\ moved = {} /\ todo = <<>> /\ cur = 0 /\ touched = FALSE /\ evaluated = FALSE
        /\ sent = {}

-----------------------------------------------------------------------------
(* cooled_down() and emit(), for a set of <<ticker, tier>> *)

\* Mutant: the time of the signal is not recorded.
CoolDownUnrecorded(S) == last' = last

CoolDown(S) ==
  last' = [s \in Sym |-> [t \in Tiers |->
             IF <<s, t>> \in S /\ last[s][t] >= Cooldown THEN 0 ELSE last[s][t]]]

\* Mutant: the cooldown is kept for the ticker, whatever the tier.
CooledAnyTier(S) == {x \in S : \A t \in Tiers : last[x[1]][t] >= Cooldown}
Cooled(S) == {x \in S : last[x[1]][x[2]] >= Cooldown}

Emit(S, w) ==
  /\ CoolDown(S)
  /\ sent' = {Signal(x[1], x[2], w[x[1]]) : x \in Cooled(S)}
  /\ told' = [s \in Sym |-> [t \in Tiers |-> IF <<s, t>> \in Cooled(S) THEN 0 ELSE told[s][t]]]

Quiet == sent' = {} /\ UNCHANGED <<last, told>>

-----------------------------------------------------------------------------
(* on_news() *)

\* A story, or an 8-K whose items are put on record first; one ticker is looked
\* at for a filing.
OnNews(tickers, items) ==
  /\ Idle /\ cur < MaxNews
  /\ items # {} => Len(tickers) = 1 /\ tickers[1] \in Filers
  /\ filings' = [s \in Sym |-> IF items # {} /\ s = tickers[1] THEN filings[s] \cup items ELSE filings[s]]
  /\ todo' = tickers /\ cur' = cur + 1
  /\ Quiet
  /\ UNCHANGED <<watch, moved, touched, evaluated>>

Blocked(s) == filings[s] \cap HardFlags # {}

\* One turn of the ticker loop that leaves the list alone: the story is blocked,
\* too weak, or no stronger than the one being watched.
PassOver(score) ==
  /\ todo # <<>>
  /\ LET s == Head(todo) IN score = 0 \/ Blocked(s) \/ (Watched(s) /\ score <= watch[s].score)
  /\ todo' = Tail(todo)
  /\ Quiet
  /\ UNCHANGED <<watch, filings, moved, cur, touched, evaluated>>

Admitted == /\ todo' = Tail(todo) /\ touched' = TRUE
            /\ UNCHANGED <<filings, moved, cur, evaluated>>

\* activate_watch(): a full list loses its oldest story.
Oldest == {s \in Sym : Watched(s) /\ \A r \in Sym : Watched(r) => watch[r].age <= watch[s].age}
Room == Cardinality({s \in Sym : Watched(s)}) < MaxWatch
Evictable == IF Room THEN {} ELSE Oldest

Activate(score) ==
  /\ todo # <<>> /\ score > 0
  /\ LET s == Head(todo)
         w == [id |-> cur, score |-> score, tier |-> Watch, age |-> 0, flags |-> filings[s],
               done |-> {}, seen |-> -1]
     IN /\ ~ Blocked(s) /\ ~ Watched(s)
        /\ \/ Room /\ watch' = [watch EXCEPT ![s] = w]
           \/ \E v \in Evictable : watch' = [watch EXCEPT ![v] = NoStory, ![s] = w]
        /\ Emit({<<s, Watch>>}, watch')
        /\ Admitted

\* A stronger story takes over the watch, and of two of one level either may be
\* the stronger; the age, the reference price and the outcomes already taken
\* stay those of the first story.
TakeOver(score) ==
  /\ todo # <<>>
  /\ LET s == Head(todo)
     IN /\ ~ Blocked(s) /\ Watched(s) /\ score >= watch[s].score
        /\ watch' = [watch EXCEPT ![s].id = cur, ![s].score = score, ![s].flags = filings[s]]
        /\ Quiet
        /\ Admitted

(* on_news() of a form other than 8-K and 6-K *)

\* What a form leaves on record, and whether it is one of the four classes the
\* trader is told of; the watch then carries "effect" for all but a prospectus.
OnRecord(form) == IF form = "prospectus" THEN "offering" ELSE form
OnWatch(form) == IF form = "prospectus" THEN "offering" ELSE "effect"

\* Mutant: the copy that is sent gets the flag, the watch does not.
MarkCopy(s, form) == watch
Mark(s, form) == IF Watched(s) THEN [watch EXCEPT ![s].flags = @ \cup {OnWatch(form)}] ELSE watch

OnFiling(s, form) ==
  /\ Idle
  /\ filings' = [filings EXCEPT ![s] = @ \cup {OnRecord(form)}]
  /\ \/ form = "distress" /\ Quiet /\ UNCHANGED watch
     \/ /\ form # "distress"
        /\ watch' = Mark(s, form)
        /\ sent' = IF Watched(s) THEN {Signal(s, Info, watch[s])} ELSE {}
        /\ UNCHANGED <<last, told>>
  /\ UNCHANGED <<moved, todo, cur, touched, evaluated>>

-----------------------------------------------------------------------------
(* evaluate() *)

Reached(s, w, snap) ==
  IF /\ w.score = 2 /\ s \in SmallCap
     /\ w.flags \cap SoftFlags = {}
     /\ snap = "running"
  THEN High ELSE Alert

\* The tier rises above the one the story has.
Raises(s, w, snap) == /\ w.tier < High
                      /\ snap \in {"moving", "running"}
                      /\ Reached(s, w, snap) > w.tier

\* Mutant: a story stays a step too long.
ExpiredLate(w) == w.age > Window + 1
Expired(w) == w.age > Window
\* Mutant: an outcome is due only in the very step of its horizon.
DueExactly(w) == {h \in Horizons \ w.done : w.age = h}
Due(w) == {h \in Horizons \ w.done : w.age >= h}

Evaluated(s, w, snap) ==
  IF Expired(w) THEN NoStory
  ELSE IF snap = "none" THEN w
  ELSE [w EXCEPT !.done = @ \cup Due(w), !.seen = w.age,
                 !.tier = IF Raises(s, w, snap) THEN Reached(s, w, snap) ELSE @]

Live(board) == {s \in Sym : Watched(s) /\ ~ Expired(watch[s]) /\ board[s] # "none"}

Evaluate(board) ==
  /\ todo = <<>>
  /\ watch' = [s \in Sym |-> IF Watched(s) THEN Evaluated(s, watch[s], board[s]) ELSE NoStory]
  /\ Emit({<<s, Reached(s, watch[s], board[s])>> : s \in {r \in Live(board) : Raises(r, watch[r], board[r])}},
          watch')
  /\ touched' = FALSE /\ evaluated' = TRUE
  /\ UNCHANGED <<filings, moved, todo, cur>>

-----------------------------------------------------------------------------
(* scan_movers(), where movers are the tickers that pass the price tests *)
ScanMovers(movers) ==
  LET new == {s \in movers : ~ Watched(s) /\ s \notin moved}
  IN /\ Idle
     /\ moved' = moved \cup new
     /\ sent' = {[sym |-> s, tier |-> Mover, id |-> 0, flags |-> {}] : s \in new}
     /\ UNCHANGED <<watch, filings, last, told, todo, cur, touched, evaluated>>

(* Time: evaluate() runs every 2 ms, so at least once in a clock step *)
Up(n, top) == IF n < top THEN n + 1 ELSE top

Clock ==
  /\ Idle /\ evaluated
  /\ watch' = [s \in Sym |-> IF Watched(s) THEN [watch[s] EXCEPT !.age = Up(@, Window + 1)]
                             ELSE NoStory]
  /\ last' = [s \in Sym |-> [t \in Tiers |-> Up(last[s][t], Cooldown)]]
  /\ told' = [s \in Sym |-> [t \in Tiers |-> Up(told[s][t], Cooldown + Window + 1)]]
  /\ evaluated' = FALSE /\ sent' = {}
  /\ UNCHANGED <<filings, moved, todo, cur, touched>>

Midnight == /\ Idle /\ moved # {}
            /\ moved' = {} /\ sent' = {}
            /\ UNCHANGED <<watch, filings, last, told, todo, cur, touched, evaluated>>

-----------------------------------------------------------------------------
Tickers == {<<s>> : s \in Sym} \cup {<<s, r>> : s, r \in Sym}

Next == \/ \E ts \in Tickers, items \in SUBSET Items : OnNews(ts, items)
        \/ \E score \in 0 .. 2 : PassOver(score) \/ Activate(score) \/ TakeOver(score)
        \/ \E s \in Filers, form \in Filed : OnFiling(s, form)
        \/ \E board \in [{s \in Sym : Watched(s)} -> Snapshot] : Evaluate(board)
        \/ \E movers \in SUBSET Movers : ScanMovers(movers)
        \/ Clock \/ Midnight

Spec == Init /\ [][Next]_vars

-----------------------------------------------------------------------------
TypeOK == /\ watch \in [Sym -> Story \cup {NoStory}]
          /\ filings \in [Sym -> SUBSET (HardFlags \cup SoftFlags)]
          /\ last \in [Sym -> [Tiers -> 0 .. Cooldown]]
          /\ told \in [Sym -> [Tiers -> 0 .. Cooldown + Window + 1]]
          /\ moved \subseteq Sym /\ todo \in Seq(Sym) /\ cur \in Nat
          /\ touched \in BOOLEAN /\ evaluated \in BOOLEAN

\* A tier that a story reached without a signal of its own (cooldown) had been
\* signalled for that ticker less than a cooldown before it was reached: the
\* trader never misses a tier altogether.
TierWasSignalled ==
  \A s \in Sym : Watched(s) =>
    told[s][watch[s].tier] = 0 \/ told[s][watch[s].tier] < Cooldown + watch[s].age

\* Two signals of a tier on a ticker are at least the cooldown apart, however
\* often the ticker leaves the list and comes back.
SignalsSpaced == [][\A x \in sent' : x.tier \in Tiers => told[x.sym][x.tier] >= Cooldown]_vars

\* The flags a later signal carries include every prospectus and every notice
\* of effectiveness on record, filed before the story or while it is watched.
FlagsCurrent == \A s \in Sym : Watched(s) => filings[s] \cap {"offering", "effect"} \subseteq watch[s].flags

\* An outcome is journalled at the first priced evaluation after its horizon,
\* whatever was missed in between, and no other.
OutcomesUpToDate ==
  \A s \in Sym : Watched(s) => watch[s].done = {h \in Horizons : h <= watch[s].seen}

\* What a watch has noted is true of its stock and of what was sent: offerings
\* and effectiveness notices on record, a tier only if it was announced or in
\* its cooldown, the outcomes due and no other (engine.cpp:552-580).
WatchInv == TypeOK /\ FlagsCurrent /\ TierWasSignalled /\ OutcomesUpToDate

\* "clean filings" (signals.hpp:16): a HIGH is not sent for an issuer with a
\* dilution filing on record.
HighIsClean == \A x \in sent : x.tier = High => filings[x.sym] = {}
=============================================================================
