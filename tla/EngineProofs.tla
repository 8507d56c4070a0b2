---------------------------- MODULE EngineProofs ----------------------------
(***************************************************************************)
(* The engine thread, for any tickers, list size, window, cooldown and     *)
(* horizons: what the watchlist has noted of a story is true of the        *)
(* filings, the signals and the outcomes, and no tier is signalled twice   *)
(* within its cooldown.  For any ring and any window: what the engine      *)
(* believes of a halt is what the board says, and no alert is repeated.    *)
(***************************************************************************)
EXTENDS EngineWatch, HaltAlerts, SequenceTheorems, TLAPS

-----------------------------------------------------------------------------
(* EngineWatch: the inductive invariant *)

\* The outcomes of a story were taken no later than now.
SeenBefore == \A s \in Sym : Watched(s) => watch[s].seen <= watch[s].age

\* After an evaluation no story on the list is past the window.
NoneExpired == evaluated => \A s \in Sym : Watched(s) => watch[s].age <= Window

\* last_tier_ns_ is the time since the signal, up to the cooldown.
LastIsTold == \A s \in Sym, t \in Tiers : last[s][t] = IF told[s][t] < Cooldown THEN told[s][t] ELSE Cooldown

WatchIInv == WatchInv /\ SeenBefore /\ NoneExpired /\ LastIsTold

\* The invariant by ticker, and the part that is not about the list.
StoryTrue(s) ==
  /\ watch[s] \in Story \cup {NoStory}
  /\ Watched(s) =>
       /\ filings[s] \cap {"offering", "effect"} \subseteq watch[s].flags
       /\ told[s][watch[s].tier] = 0 \/ told[s][watch[s].tier] < Cooldown + watch[s].age
       /\ watch[s].done = {h \in Horizons : h <= watch[s].seen}
       /\ watch[s].seen <= watch[s].age
       /\ evaluated => watch[s].age <= Window

RestTrue ==
  /\ filings \in [Sym -> SUBSET (HardFlags \cup SoftFlags)]
  /\ last \in [Sym -> [Tiers -> 0 .. Cooldown]]
  /\ told \in [Sym -> [Tiers -> 0 .. Cooldown + Window + 1]]
  /\ moved \subseteq Sym /\ todo \in Seq(Sym) /\ cur \in Nat
  /\ touched \in BOOLEAN /\ evaluated \in BOOLEAN
  /\ LastIsTold

-----------------------------------------------------------------------------
LEMMA Constants == Cooldown \in Nat /\ Cooldown > 0 /\ Window \in Nat /\ Tiers = {1, 2, 3} /\ Watch = 1 /\ Alert = 2 /\ High = 3
  BY WatchAssumption DEF Tiers, Watch, Alert, High

LEMMA ByTicker ==
  ASSUME WatchIInv
  PROVE  watch = [s \in Sym |-> watch[s]] /\ (\A s \in Sym : StoryTrue(s)) /\ RestTrue
  BY DEF WatchIInv, WatchInv, TypeOK, FlagsCurrent, TierWasSignalled, OutcomesUpToDate, SeenBefore, NoneExpired,
         StoryTrue, RestTrue

LEMMA FromTickers ==
  ASSUME watch' = [s \in Sym |-> watch'[s]], \A s \in Sym : StoryTrue(s)', RestTrue'
  PROVE  WatchIInv'
<1>1. watch' \in [Sym -> Story \cup {NoStory}]
  BY DEF StoryTrue
<1> QED BY <1>1 DEF WatchIInv, WatchInv, TypeOK, FlagsCurrent, TierWasSignalled, OutcomesUpToDate, SeenBefore,
                    NoneExpired, StoryTrue, RestTrue

LEMMA WatchStart == Init => WatchIInv
<1> SUFFICES ASSUME Init PROVE WatchIInv
  OBVIOUS
<1>1. TypeOK
  <2>1. last \in [Sym -> [Tiers -> 0 .. Cooldown]] /\ told \in [Sym -> [Tiers -> 0 .. Cooldown + Window + 1]]
    BY Constants DEF Init
  <2>2. <<>> \in Seq(Sym)
    BY EmptySeq
  <2> QED BY <2>1, <2>2 DEF Init, TypeOK
<1>2. FlagsCurrent /\ TierWasSignalled /\ OutcomesUpToDate /\ SeenBefore /\ NoneExpired
  BY DEF Init, FlagsCurrent, TierWasSignalled, OutcomesUpToDate, SeenBefore, NoneExpired, Watched
<1>3. LastIsTold
  BY Constants DEF Init, LastIsTold
<1> QED BY <1>1, <1>2, <1>3 DEF WatchIInv, WatchInv

\* A set of pairs is signalled: those that have cooled down.
LEMMA EmitKeeps ==
  ASSUME WatchIInv, NEW S, NEW w, Emit(S, w)
  PROVE  /\ last' \in [Sym -> [Tiers -> 0 .. Cooldown]]
         /\ told' \in [Sym -> [Tiers -> 0 .. Cooldown + Window + 1]]
         /\ LastIsTold'
         /\ \A s \in Sym, t \in Tiers : told'[s][t] = 0 \/ told'[s][t] = told[s][t]
         /\ \A s \in Sym, t \in Tiers : <<s, t>> \in S => told'[s][t] = 0 \/ told'[s][t] < Cooldown
         /\ \A s \in Sym, t \in Tiers : <<s, t>> \in Cooled(S) => told[s][t] >= Cooldown
<1>1. /\ last \in [Sym -> [Tiers -> 0 .. Cooldown]] /\ told \in [Sym -> [Tiers -> 0 .. Cooldown + Window + 1]]
      /\ LastIsTold
  BY DEF WatchIInv, WatchInv, TypeOK
<1>2. /\ last' = [s \in Sym |-> [t \in Tiers |-> IF <<s, t>> \in S /\ last[s][t] >= Cooldown THEN 0 ELSE last[s][t]]]
      /\ told' = [s \in Sym |-> [t \in Tiers |-> IF <<s, t>> \in Cooled(S) THEN 0 ELSE told[s][t]]]
  BY DEF Emit, CoolDown
<1>3. ASSUME NEW s \in Sym, NEW t \in Tiers
      PROVE  /\ last'[s][t] = IF <<s, t>> \in S /\ last[s][t] >= Cooldown THEN 0 ELSE last[s][t]
             /\ told'[s][t] = IF <<s, t>> \in S /\ last[s][t] >= Cooldown THEN 0 ELSE told[s][t]
             /\ last[s][t] \in 0 .. Cooldown /\ told[s][t] \in 0 .. Cooldown + Window + 1
             /\ last[s][t] = IF told[s][t] < Cooldown THEN told[s][t] ELSE Cooldown
             /\ <<s, t>> \in Cooled(S) <=> <<s, t>> \in S /\ last[s][t] >= Cooldown
  BY <1>1, <1>2 DEF Cooled, LastIsTold
<1>4. last' \in [Sym -> [Tiers -> 0 .. Cooldown]] /\ told' \in [Sym -> [Tiers -> 0 .. Cooldown + Window + 1]]
  <2>1. ASSUME NEW s \in Sym, NEW t \in Tiers
        PROVE  /\ (IF <<s, t>> \in S /\ last[s][t] >= Cooldown THEN 0 ELSE last[s][t]) \in 0 .. Cooldown
               /\ (IF <<s, t>> \in Cooled(S) THEN 0 ELSE told[s][t]) \in 0 .. Cooldown + Window + 1
    <3>1. last[s][t] \in 0 .. Cooldown /\ told[s][t] \in 0 .. Cooldown + Window + 1
      BY <1>3
    <3> QED BY <3>1, Constants
  <2> QED BY <1>2, <2>1
<1>5. ASSUME NEW s \in Sym, NEW t \in Tiers
      PROVE  /\ last'[s][t] = IF told'[s][t] < Cooldown THEN told'[s][t] ELSE Cooldown
             /\ told'[s][t] = 0 \/ told'[s][t] = told[s][t]
             /\ <<s, t>> \in S => told'[s][t] = 0 \/ told'[s][t] < Cooldown
             /\ <<s, t>> \in Cooled(S) => told[s][t] >= Cooldown
  <2>1. /\ last'[s][t] = IF <<s, t>> \in S /\ last[s][t] >= Cooldown THEN 0 ELSE last[s][t]
        /\ told'[s][t] = IF <<s, t>> \in S /\ last[s][t] >= Cooldown THEN 0 ELSE told[s][t]
        /\ last[s][t] \in 0 .. Cooldown /\ told[s][t] \in 0 .. Cooldown + Window + 1
        /\ last[s][t] = IF told[s][t] < Cooldown THEN told[s][t] ELSE Cooldown
        /\ <<s, t>> \in Cooled(S) <=> <<s, t>> \in S /\ last[s][t] >= Cooldown
    BY <1>3
  <2> QED BY <2>1, Constants
<1>6. LastIsTold'
  BY <1>5 DEF LastIsTold
<1>7. /\ \A s \in Sym, t \in Tiers : told'[s][t] = 0 \/ told'[s][t] = told[s][t]
      /\ \A s \in Sym, t \in Tiers : <<s, t>> \in S => told'[s][t] = 0 \/ told'[s][t] < Cooldown
      /\ \A s \in Sym, t \in Tiers : <<s, t>> \in Cooled(S) => told[s][t] >= Cooldown
  BY <1>5
<1> QED BY <1>4, <1>6, <1>7

-----------------------------------------------------------------------------
(* One lemma for each action *)

LEMMA QuietKeeps ==
  ASSUME WatchIInv, Quiet
  PROVE  /\ UNCHANGED <<last, told>> /\ LastIsTold'
  BY DEF Quiet, LastIsTold, WatchIInv

LEMMA OnNewsKeeps ==
  ASSUME WatchIInv, NEW ts \in Tickers, NEW items \in SUBSET Items, OnNews(ts, items)
  PROVE  WatchIInv'
<1>a. TypeOK /\ FlagsCurrent /\ TierWasSignalled /\ OutcomesUpToDate /\ SeenBefore /\ NoneExpired /\ LastIsTold
  BY DEF WatchIInv, WatchInv
<1>b. /\ filings' = [s \in Sym |-> IF items # {} /\ s = ts[1] THEN filings[s] \cup items ELSE filings[s]]
      /\ todo' = ts /\ cur' = cur + 1 /\ UNCHANGED <<watch, moved, touched, evaluated, last, told>>
  BY DEF OnNews, Quiet
<1>c. items \subseteq {"sale", "distress"}
  BY WatchAssumption
<1>1. TypeOK'
  <2>1. filings' \in [Sym -> SUBSET (HardFlags \cup SoftFlags)]
    <3>1. items \subseteq HardFlags \cup SoftFlags
      BY <1>c DEF HardFlags, SoftFlags
    <3>2. \A s \in Sym : filings[s] \in SUBSET (HardFlags \cup SoftFlags)
      BY <1>a DEF TypeOK
    <3> QED BY <1>b, <3>1, <3>2
  <2>2. ts \in Seq(Sym)
    <3>1. ASSUME NEW s \in Sym PROVE <<s>> \in Seq(Sym)
      OBVIOUS
    <3>2. ASSUME NEW s \in Sym, NEW r \in Sym PROVE <<s, r>> \in Seq(Sym)
      OBVIOUS
    <3>3. CASE ts \in {<<s>> : s \in Sym}
      BY <3>1, <3>3
    <3>4. CASE ts \in {<<s, r>> : s, r \in Sym}
      <4>1. PICK s \in Sym, r \in Sym : ts = <<s, r>>
        BY <3>4
      <4> QED BY <3>2, <4>1
    <3> QED BY <3>3, <3>4 DEF Tickers
  <2>3. cur' \in Nat
    BY <1>a, <1>b DEF TypeOK
  <2> QED BY <1>a, <1>b, <2>1, <2>2, <2>3 DEF TypeOK
<1>2. FlagsCurrent'
  BY <1>a, <1>b, <1>c DEF FlagsCurrent, Watched
<1>3. TierWasSignalled' /\ OutcomesUpToDate' /\ SeenBefore' /\ NoneExpired' /\ LastIsTold'
  BY <1>a, <1>b DEF TierWasSignalled, OutcomesUpToDate, SeenBefore, NoneExpired, LastIsTold, Watched
<1> QED BY <1>1, <1>2, <1>3 DEF WatchIInv, WatchInv

LEMMA PassOverKeeps ==
  ASSUME WatchIInv, NEW score \in 0 .. 2, PassOver(score)
  PROVE  WatchIInv'
<1>a. TypeOK /\ FlagsCurrent /\ TierWasSignalled /\ OutcomesUpToDate /\ SeenBefore /\ NoneExpired /\ LastIsTold
  BY DEF WatchIInv, WatchInv
<1>b. todo # <<>> /\ todo' = Tail(todo) /\ UNCHANGED <<watch, filings, moved, cur, touched, evaluated, last, told>>
  BY DEF PassOver, Quiet
<1>1. TypeOK'
  <2>1. Tail(todo) \in Seq(Sym)
    BY <1>a, <1>b, HeadTailProperties DEF TypeOK
  <2> QED BY <1>a, <1>b, <2>1 DEF TypeOK
<1>2. FlagsCurrent' /\ TierWasSignalled' /\ OutcomesUpToDate' /\ SeenBefore' /\ NoneExpired' /\ LastIsTold'
  BY <1>a, <1>b DEF FlagsCurrent, TierWasSignalled, OutcomesUpToDate, SeenBefore, NoneExpired, LastIsTold, Watched
<1> QED BY <1>1, <1>2 DEF WatchIInv, WatchInv

LEMMA HeadOfTodo ==
  ASSUME RestTrue, todo # <<>>
  PROVE  Head(todo) \in Sym /\ Tail(todo) \in Seq(Sym)
  BY HeadTailProperties DEF RestTrue

\* A story that a step leaves alone stays true.
LEMMA StoryKept ==
  ASSUME NEW r \in Sym, StoryTrue(r), watch'[r] = watch[r], evaluated' => evaluated,
         filings'[r] \cap {"offering", "effect"} \subseteq filings[r],
         \A t \in Tiers : told'[r][t] = 0 \/ told'[r][t] = told[r][t]
  PROVE  StoryTrue(r)'
<1>1. CASE watch[r] = NoStory
  BY <1>1 DEF StoryTrue, Watched
<1>2. CASE watch[r] # NoStory
  <2>1. watch[r] \in Story
    BY <1>2 DEF StoryTrue
  <2>2. watch[r].tier \in Tiers
    BY <2>1 DEF Story
  <2>3. told'[r][watch[r].tier] = 0 \/ told'[r][watch[r].tier] < Cooldown + watch[r].age
    BY <1>2, <2>2 DEF StoryTrue, Watched
  <2> QED BY <1>2, <2>1, <2>3 DEF StoryTrue, Watched
<1> QED BY <1>1, <1>2

LEMMA ActivateKeeps ==
  ASSUME WatchIInv, NEW score \in 0 .. 2, Activate(score)
  PROVE  WatchIInv'
<1>a. watch = [r \in Sym |-> watch[r]] /\ (\A r \in Sym : StoryTrue(r)) /\ RestTrue
  BY ByTicker
<1>b. /\ todo # <<>> /\ score > 0 /\ todo' = Tail(todo) /\ touched' = TRUE
      /\ UNCHANGED <<filings, moved, cur, evaluated>>
  BY DEF Activate, Admitted
<1>c. PICK s \in Sym : s = Head(todo)
  BY <1>a, <1>b, HeadOfTodo
<1>d. PICK w : w = [id |-> cur, score |-> score, tier |-> Watch, age |-> 0, flags |-> filings[s],
                    done |-> {}, seen |-> -1]
  OBVIOUS
<1>e. /\ Emit({<<s, Watch>>}, watch')
      /\ \/ watch' = [watch EXCEPT ![s] = w]
         \/ \E v \in Sym : watch' = [watch EXCEPT ![v] = NoStory, ![s] = w]
  BY <1>c, <1>d DEF Activate, Evictable, Oldest
<1>f. /\ last' \in [Sym -> [Tiers -> 0 .. Cooldown]]
      /\ told' \in [Sym -> [Tiers -> 0 .. Cooldown + Window + 1]]
      /\ LastIsTold'
      /\ \A r \in Sym, t \in Tiers : told'[r][t] = 0 \/ told'[r][t] = told[r][t]
      /\ told'[s][Watch] = 0 \/ told'[s][Watch] < Cooldown
  <2>1. PICK S : S = {<<s, Watch>>}
    OBVIOUS
  <2>2. PICK x : x = watch'
    OBVIOUS
  <2>3. Emit(S, x)
    BY <1>e, <2>1, <2>2 DEF Emit, CoolDown, Cooled
  <2>4. <<s, Watch>> \in S /\ Watch \in Tiers
    BY <2>1, Constants
  <2> QED BY <2>3, <2>4, EmitKeeps
<1>g. watch' = [r \in Sym |-> watch'[r]] /\ watch'[s] = w /\ \A r \in Sym : r # s => watch'[r] \in {watch[r], NoStory}
  BY <1>a, <1>e
<1>1. RestTrue'
  BY <1>a, <1>b, <1>f, HeadOfTodo DEF RestTrue
<1>2. StoryTrue(s)'
  <2>1. w \in Story
    <3>1. cur \in Nat /\ filings[s] \in SUBSET (HardFlags \cup SoftFlags)
      BY <1>a DEF RestTrue
    <3>2. score \in 1 .. 2 /\ Watch \in Tiers /\ 0 \in 0 .. Window + 1 /\ -1 \in -1 .. Window
      BY <1>b, Constants
    <3> QED BY <1>d, <3>1, <3>2 DEF Story
  <2>2. {h \in Horizons : h <= -1} = {}
    <3>1. ASSUME NEW h \in Horizons, h <= -1 PROVE FALSE
      BY <3>1, WatchAssumption
    <3> QED BY <3>1
  <2>3. w.flags = filings[s] /\ w.tier = Watch /\ w.age = 0 /\ w.seen = -1 /\ w.done = {}
    BY <1>d
  <2>4. told'[s][w.tier] = 0 \/ told'[s][w.tier] < Cooldown + w.age
    BY <2>3, <1>f, Constants
  <2>5. w.seen <= w.age /\ w.age <= Window
    BY <2>3, Constants
  <2>6. w.done = {h \in Horizons : h <= w.seen}
    BY <2>2, <2>3
  <2>7. filings'[s] \cap {"offering", "effect"} \subseteq w.flags
    BY <2>3, <1>b
  <2> QED BY <2>1, <2>4, <2>5, <2>6, <2>7, <1>g DEF StoryTrue, Watched
<1>3. ASSUME NEW r \in Sym, r # s PROVE StoryTrue(r)'
  <2>1. CASE watch'[r] = NoStory
    BY <2>1 DEF StoryTrue, Watched
  <2>2. CASE watch'[r] = watch[r]
    BY <2>2, <1>a, <1>b, <1>f, StoryKept
  <2> QED BY <2>1, <2>2, <1>g, <1>3
<1> QED BY <1>1, <1>2, <1>3, <1>g, FromTickers

LEMMA TakeOverKeeps ==
  ASSUME WatchIInv, NEW score \in 0 .. 2, TakeOver(score)
  PROVE  WatchIInv'
<1>a. watch = [r \in Sym |-> watch[r]] /\ (\A r \in Sym : StoryTrue(r)) /\ RestTrue
  BY ByTicker
<1>b. /\ todo # <<>> /\ todo' = Tail(todo) /\ touched' = TRUE
      /\ UNCHANGED <<filings, moved, cur, evaluated, last, told>>
  BY DEF TakeOver, Admitted, Quiet
<1>c. PICK s \in Sym : s = Head(todo)
  BY <1>a, <1>b, HeadOfTodo
<1>d. /\ watch[s] # NoStory /\ score >= watch[s].score
      /\ watch' = [watch EXCEPT ![s].id = cur, ![s].score = score, ![s].flags = filings[s]]
  BY <1>c DEF TakeOver, Watched
<1>e. watch[s] \in Story /\ StoryTrue(s)
  BY <1>a, <1>d DEF StoryTrue
<1>f. /\ watch' = [r \in Sym |-> watch'[r]] /\ \A r \in Sym : r # s => watch'[r] = watch[r]
      /\ watch'[s] = [watch[s] EXCEPT !.id = cur, !.score = score, !.flags = filings[s]]
  BY <1>a, <1>d
<1>1. RestTrue'
  BY <1>a, <1>b, HeadOfTodo DEF RestTrue, LastIsTold
<1>2. StoryTrue(s)'
  <2>1. watch'[s] \in Story
    <3>1. cur \in Nat /\ score \in 1 .. 2 /\ filings[s] \in SUBSET (HardFlags \cup SoftFlags)
      BY <1>a, <1>d, <1>e DEF RestTrue, Story
    <3> QED BY <3>1, <1>e, <1>f DEF Story
  <2>2. /\ watch'[s].tier = watch[s].tier /\ watch'[s].age = watch[s].age /\ watch'[s].done = watch[s].done
        /\ watch'[s].seen = watch[s].seen /\ watch'[s].flags = filings[s]
    BY <1>e, <1>f DEF Story
  <2> QED BY <2>1, <2>2, <1>b, <1>d, <1>e DEF StoryTrue, Watched
<1>3. ASSUME NEW r \in Sym, r # s PROVE StoryTrue(r)'
  BY <1>3, <1>a, <1>b, <1>f, StoryKept
<1> QED BY <1>1, <1>2, <1>3, <1>f, FromTickers

LEMMA OnFilingKeeps ==
  ASSUME WatchIInv, NEW s \in Filers, NEW form \in Filed, OnFiling(s, form)
  PROVE  WatchIInv'
<1>a. watch = [r \in Sym |-> watch[r]] /\ (\A r \in Sym : StoryTrue(r)) /\ RestTrue /\ s \in Sym
  BY ByTicker, WatchAssumption
<1>b. /\ filings' = [filings EXCEPT ![s] = @ \cup {OnRecord(form)}]
      /\ UNCHANGED <<moved, todo, cur, touched, evaluated, last, told>>
      /\ watch' = watch \/ (form # "distress" /\ watch' = Mark(s, form))
      /\ form = "distress" => watch' = watch
  BY DEF OnFiling, Quiet
<1>c. form \in {"prospectus", "effect", "registration", "distress"}
  BY WatchAssumption
<1>d. OnRecord(form) \in HardFlags \cup SoftFlags /\ OnWatch(form) \in HardFlags
  BY <1>c DEF OnRecord, OnWatch, HardFlags, SoftFlags
<1>e. filings' \in [Sym -> SUBSET (HardFlags \cup SoftFlags)]
  <2>1. filings[s] \cup {OnRecord(form)} \in SUBSET (HardFlags \cup SoftFlags)
    BY <1>a, <1>d DEF RestTrue
  <2> QED BY <1>a, <1>b, <2>1 DEF RestTrue
<1>f. filings'[s] = filings[s] \cup {OnRecord(form)} /\ \A r \in Sym : r # s => filings'[r] = filings[r]
  BY <1>a, <1>b DEF RestTrue
<1>1. RestTrue'
  BY <1>a, <1>b, <1>e DEF RestTrue, LastIsTold
<1>2. watch' = [r \in Sym |-> watch'[r]] /\ \A r \in Sym : r # s => watch'[r] = watch[r]
  BY <1>a, <1>b DEF Mark
<1>3. StoryTrue(s)'
  <2>1. CASE watch[s] = NoStory
    <3>1. watch'[s] = NoStory
      BY <2>1, <1>b DEF Mark, Watched
    <3> QED BY <3>1 DEF StoryTrue, Watched
  <2>2. CASE form = "distress"
    BY <2>2, <1>a, <1>b, <1>f, StoryKept DEF OnRecord
  <2>3. CASE watch[s] # NoStory /\ form # "distress"
    <3>1. watch'[s] = [watch[s] EXCEPT !.flags = @ \cup {OnWatch(form)}]
      <4>1. watch' = Mark(s, form)
        BY <2>3 DEF OnFiling
      <4> QED BY <2>3, <4>1, <1>a DEF Mark, Watched
    <3>2. watch[s] \in Story /\ StoryTrue(s)
      BY <2>3, <1>a DEF StoryTrue
    <3>3. /\ watch'[s].tier = watch[s].tier /\ watch'[s].age = watch[s].age /\ watch'[s].done = watch[s].done
          /\ watch'[s].seen = watch[s].seen /\ watch'[s].flags = watch[s].flags \cup {OnWatch(form)}
      BY <3>1, <3>2 DEF Story
    <3>4. watch'[s] \in Story
      <4>1. watch[s].flags \cup {OnWatch(form)} \in SUBSET (HardFlags \cup SoftFlags)
        BY <3>2, <1>d DEF Story
      <4> QED BY <3>1, <3>2, <4>1 DEF Story
    <3>5. OnRecord(form) \in {"offering", "effect"} => OnRecord(form) = OnWatch(form)
      BY <1>c DEF OnRecord, OnWatch
    <3>6. filings'[s] \cap {"offering", "effect"} \subseteq watch'[s].flags
      BY <3>2, <3>3, <3>5, <1>f, <2>3 DEF StoryTrue, Watched
    <3> QED BY <3>2, <3>3, <3>4, <3>6, <1>b, <2>3 DEF StoryTrue, Watched
  <2> QED BY <2>1, <2>2, <2>3
<1>4. ASSUME NEW r \in Sym, r # s PROVE StoryTrue(r)'
  BY <1>4, <1>a, <1>b, <1>f, <1>2, StoryKept
<1> QED BY <1>1, <1>2, <1>3, <1>4, FromTickers

\* A horizon is journalled at the first priced evaluation past it, and the
\* tiers that are reached are signalled or in their cooldown.
LEMMA EvaluateKeeps ==
  ASSUME WatchIInv, NEW board \in [{s \in Sym : Watched(s)} -> Snapshot], Evaluate(board)
  PROVE  WatchIInv'
<1>a. watch = [r \in Sym |-> watch[r]] /\ (\A r \in Sym : StoryTrue(r)) /\ RestTrue
  BY ByTicker
<1>b. /\ watch' = [s \in Sym |-> IF Watched(s) THEN Evaluated(s, watch[s], board[s]) ELSE NoStory]
      /\ touched' = FALSE /\ evaluated' = TRUE /\ UNCHANGED <<filings, moved, todo, cur>>
  BY DEF Evaluate
<1>c. PICK S : S = {<<s, Reached(s, watch[s], board[s])>> : s \in {r \in Live(board) : Raises(r, watch[r], board[r])}}
  OBVIOUS
<1>d. PICK x : x = watch'
  OBVIOUS
<1>e. Emit(S, x)
  BY <1>c, <1>d DEF Evaluate, Emit, CoolDown, Cooled
<1>f. /\ last' \in [Sym -> [Tiers -> 0 .. Cooldown]]
      /\ told' \in [Sym -> [Tiers -> 0 .. Cooldown + Window + 1]]
      /\ LastIsTold'
      /\ \A s \in Sym, t \in Tiers : told'[s][t] = 0 \/ told'[s][t] = told[s][t]
      /\ \A s \in Sym, t \in Tiers : <<s, t>> \in S => told'[s][t] = 0 \/ told'[s][t] < Cooldown
  BY <1>e, EmitKeeps
<1>1. RestTrue'
  BY <1>a, <1>b, <1>f DEF RestTrue
<1>2. ASSUME NEW s \in Sym PROVE StoryTrue(s)'
  <2>1. CASE ~ Watched(s) \/ Expired(watch[s])
    <3>1. watch'[s] = NoStory
      BY <1>b, <2>1 DEF Evaluated
    <3> QED BY <3>1 DEF StoryTrue, Watched
  <2>2. CASE Watched(s) /\ ~ Expired(watch[s]) /\ board[s] = "none"
    <3>1. watch'[s] = watch[s]
      BY <1>b, <2>2 DEF Evaluated
    <3>2. watch[s] \in Story /\ StoryTrue(s)
      BY <1>a, <2>2 DEF StoryTrue, Watched
    <3>3. watch[s].tier \in Tiers /\ watch[s].age <= Window
      BY <3>2, <2>2, Constants DEF Story, Expired
    <3>4. told'[s][watch[s].tier] = 0 \/ told'[s][watch[s].tier] < Cooldown + watch[s].age
      BY <3>2, <3>3, <1>f, <2>2 DEF StoryTrue
    <3> QED BY <3>1, <3>2, <3>3, <3>4, <1>b, <2>2 DEF StoryTrue, Watched
  <2>3. CASE Watched(s) /\ ~ Expired(watch[s]) /\ board[s] # "none"
    <3>1. PICK w \in Story : w = watch[s]
      BY <1>a, <2>3 DEF StoryTrue, Watched
    <3>2. PICK up : up = IF Raises(s, w, board[s]) THEN Reached(s, w, board[s]) ELSE w.tier
      OBVIOUS
    <3>3. watch'[s] = [w EXCEPT !.done = w.done \cup Due(w), !.seen = w.age, !.tier = up]
      BY <1>b, <2>3, <3>1, <3>2 DEF Evaluated
    <3>4. w.age \in 0 .. Window /\ w.tier \in Tiers /\ w.seen \in -1 .. Window /\ w.seen <= w.age
      BY <1>a, <2>3, <3>1, Constants DEF Story, Expired, StoryTrue
    <3>5. up \in Tiers /\ (told'[s][up] = 0 \/ told'[s][up] < Cooldown + w.age)
      <4>1. CASE Raises(s, w, board[s])
        <5>1. up = Reached(s, w, board[s]) /\ up \in Tiers
          BY <3>2, <4>1, Constants DEF Reached
        <5>2. s \in {r \in Live(board) : Raises(r, watch[r], board[r])}
          BY <2>3, <3>1, <4>1 DEF Live
        <5>3. <<s, up>> \in S
          BY <1>c, <3>1, <5>1, <5>2
        <5>4. told'[s][up] = 0 \/ told'[s][up] < Cooldown
          BY <5>1, <5>3, <1>f
        <5>5. told'[s][up] \in Nat
          BY <1>f, <5>1, Constants
        <5> QED BY <5>1, <5>4, <5>5, <3>4, Constants
      <4>2. CASE ~ Raises(s, w, board[s])
        <5>1. up = w.tier
          BY <3>2, <4>2
        <5>2. told[s][w.tier] = 0 \/ told[s][w.tier] < Cooldown + w.age
          BY <1>a, <2>3, <3>1 DEF StoryTrue
        <5> QED BY <5>1, <5>2, <3>4, <1>f
      <4> QED BY <4>1, <4>2
    <3>6. w.done \cup Due(w) = {h \in Horizons : h <= w.age}
      <4>1. w.done = {h \in Horizons : h <= w.seen} /\ Horizons \subseteq Nat
        BY <1>a, <2>3, <3>1, WatchAssumption DEF StoryTrue
      <4>2. ASSUME NEW h \in Horizons
            PROVE  h \in w.done \cup Due(w) <=> h <= w.age
        <5>1. h \in Nat /\ (h \in w.done <=> h <= w.seen) /\ (h \in Due(w) <=> h \notin w.done /\ w.age >= h)
          BY <4>1 DEF Due
        <5>2. w.age \in Int /\ w.seen \in Int /\ Window \in Int
          BY <3>4, Constants
        <5> QED BY <5>1, <5>2, <3>4
      <4>3. w.done \cup Due(w) \subseteq Horizons
        BY <4>1 DEF Due
      <4> QED BY <4>2, <4>3
    <3>7. /\ watch'[s].tier = up /\ watch'[s].age = w.age /\ watch'[s].done = {h \in Horizons : h <= w.age}
          /\ watch'[s].seen = w.age /\ watch'[s].flags = w.flags
      BY <3>3, <3>6 DEF Story
    <3>8. watch'[s] \in Story
      <4>1. w.age \in -1 .. Window /\ w.done \cup Due(w) \in SUBSET Horizons
        BY <3>4, <3>6, Constants
      <4> QED BY <3>3, <3>5, <4>1 DEF Story
    <3>9. filings'[s] \cap {"offering", "effect"} \subseteq watch'[s].flags
      BY <1>a, <1>b, <2>3, <3>1, <3>7 DEF StoryTrue
    <3>10. watch'[s].seen <= watch'[s].age /\ watch'[s].age <= Window
      BY <3>4, <3>7, Constants
    <3> QED BY <3>5, <3>7, <3>8, <3>9, <3>10 DEF StoryTrue, Watched
  <2> QED BY <2>1, <2>2, <2>3
<1> QED BY <1>1, <1>2, <1>b, FromTickers

\* A clock step finds every story within the window, so no age is cut short.
LEMMA ClockKeeps ==
  ASSUME WatchIInv, Clock
  PROVE  WatchIInv'
<1>a. watch = [r \in Sym |-> watch[r]] /\ (\A r \in Sym : StoryTrue(r)) /\ RestTrue
  BY ByTicker
<1>b. /\ evaluated /\ evaluated' = FALSE /\ UNCHANGED <<filings, moved, todo, cur, touched>>
      /\ watch' = [s \in Sym |-> IF Watched(s) THEN [watch[s] EXCEPT !.age = Up(watch[s].age, Window + 1)] ELSE NoStory]
      /\ last' = [s \in Sym |-> [t \in Tiers |-> Up(last[s][t], Cooldown)]]
      /\ told' = [s \in Sym |-> [t \in Tiers |-> Up(told[s][t], Cooldown + Window + 1)]]
  BY DEF Clock
<1>c. ASSUME NEW s \in Sym, NEW t \in Tiers
      PROVE  /\ Up(last[s][t], Cooldown) \in 0 .. Cooldown
             /\ Up(told[s][t], Cooldown + Window + 1) \in 0 .. Cooldown + Window + 1
             /\ last'[s][t] = IF told'[s][t] < Cooldown THEN told'[s][t] ELSE Cooldown
             /\ told'[s][t] <= told[s][t] + 1
             /\ told[s][t] \in Nat /\ told'[s][t] \in Nat
  <2>1. /\ last[s][t] \in 0 .. Cooldown /\ told[s][t] \in 0 .. Cooldown + Window + 1
        /\ last[s][t] = IF told[s][t] < Cooldown THEN told[s][t] ELSE Cooldown
    BY <1>a DEF RestTrue, LastIsTold
  <2>2. last'[s][t] = Up(last[s][t], Cooldown) /\ told'[s][t] = Up(told[s][t], Cooldown + Window + 1)
    BY <1>b
  <2> QED BY <2>1, <2>2, Constants DEF Up
<1>1. RestTrue'
  <2>1. last' \in [Sym -> [Tiers -> 0 .. Cooldown]] /\ told' \in [Sym -> [Tiers -> 0 .. Cooldown + Window + 1]]
    BY <1>b, <1>c
  <2>2. LastIsTold'
    BY <1>c DEF LastIsTold
  <2> QED BY <1>a, <1>b, <2>1, <2>2 DEF RestTrue
<1>2. ASSUME NEW s \in Sym PROVE StoryTrue(s)'
  <2>1. CASE ~ Watched(s)
    <3>1. watch'[s] = NoStory
      BY <1>b, <2>1
    <3> QED BY <3>1 DEF StoryTrue, Watched
  <2>2. CASE Watched(s)
    <3>1. PICK w \in Story : w = watch[s]
      BY <1>a, <2>2 DEF StoryTrue, Watched
    <3>2. w.age \in 0 .. Window /\ w.tier \in Tiers /\ w.seen \in -1 .. Window /\ w.seen <= w.age
      BY <1>a, <1>b, <2>2, <3>1, Constants DEF Story, StoryTrue
    <3>3. watch'[s] = [w EXCEPT !.age = w.age + 1]
      BY <1>b, <2>2, <3>1, <3>2, Constants DEF Up
    <3>4. /\ watch'[s].tier = w.tier /\ watch'[s].age = w.age + 1 /\ watch'[s].done = w.done
          /\ watch'[s].seen = w.seen /\ watch'[s].flags = w.flags
      BY <3>3 DEF Story
    <3>5. watch'[s] \in Story
      <4>1. w.age + 1 \in 0 .. Window + 1
        BY <3>2, Constants
      <4> QED BY <3>3, <4>1 DEF Story
    <3>6. told'[s][w.tier] < Cooldown + (w.age + 1)
      <4>1. told[s][w.tier] = 0 \/ told[s][w.tier] < Cooldown + w.age
        BY <1>a, <2>2, <3>1 DEF StoryTrue
      <4>2. told'[s][w.tier] <= told[s][w.tier] + 1 /\ told[s][w.tier] \in Nat /\ told'[s][w.tier] \in Nat
        BY <1>c, <3>2
      <4> QED BY <4>1, <4>2, <3>2, Constants
    <3>7. /\ filings'[s] \cap {"offering", "effect"} \subseteq watch'[s].flags
          /\ watch'[s].done = {h \in Horizons : h <= watch'[s].seen}
      BY <1>a, <1>b, <2>2, <3>1, <3>4 DEF StoryTrue
    <3>8. watch'[s].seen <= watch'[s].age
      BY <3>2, <3>4, Constants
    <3> QED BY <1>b, <3>4, <3>5, <3>6, <3>7, <3>8 DEF StoryTrue, Watched
  <2> QED BY <2>1, <2>2
<1> QED BY <1>1, <1>2, <1>b, FromTickers

\* Movers, midnight and stuttering touch nothing the invariant relates.
LEMMA RestKeeps ==
  ASSUME WatchIInv, moved' \subseteq Sym, UNCHANGED <<watch, filings, last, told, todo, cur, touched, evaluated>>
  PROVE  WatchIInv'
<1>a. watch = [r \in Sym |-> watch[r]] /\ (\A r \in Sym : StoryTrue(r)) /\ RestTrue
  BY ByTicker
<1>1. RestTrue'
  BY <1>a DEF RestTrue, LastIsTold
<1>2. \A r \in Sym : StoryTrue(r)'
  BY <1>a, StoryKept
<1> QED BY <1>1, <1>2, <1>a, FromTickers

-----------------------------------------------------------------------------
\* The stronger invariant holds in every state.
THEOREM WatchInductive == Spec => []WatchIInv
<1>1. WatchIInv /\ [Next]_vars => WatchIInv'
  <2> SUFFICES ASSUME WatchIInv, [Next]_vars PROVE WatchIInv'
    OBVIOUS
  <2>a. moved \subseteq Sym
    BY DEF WatchIInv, WatchInv, TypeOK
  <2>1. ASSUME NEW ts \in Tickers, NEW items \in SUBSET Items, OnNews(ts, items) PROVE WatchIInv'
    BY <2>1, OnNewsKeeps
  <2>2. ASSUME NEW score \in 0 .. 2, PassOver(score) \/ Activate(score) \/ TakeOver(score) PROVE WatchIInv'
    BY <2>2, PassOverKeeps, ActivateKeeps, TakeOverKeeps
  <2>3. ASSUME NEW s \in Filers, NEW form \in Filed, OnFiling(s, form) PROVE WatchIInv'
    BY <2>3, OnFilingKeeps
  <2>4. ASSUME NEW board \in [{s \in Sym : Watched(s)} -> Snapshot], Evaluate(board) PROVE WatchIInv'
    BY <2>4, EvaluateKeeps
  <2>5. ASSUME NEW movers \in SUBSET Movers, ScanMovers(movers) PROVE WatchIInv'
    <3>1. moved' \subseteq Sym
      BY <2>5, <2>a, WatchAssumption DEF ScanMovers
    <3> QED BY <2>5, <3>1, RestKeeps DEF ScanMovers
  <2>6. CASE Clock
    BY <2>6, ClockKeeps
  <2>7. CASE Midnight
    BY <2>7, RestKeeps DEF Midnight
  <2>8. CASE UNCHANGED vars
    BY <2>8, <2>a, RestKeeps DEF vars
  <2> QED BY <2>1, <2>2, <2>3, <2>4, <2>5, <2>6, <2>7, <2>8 DEF Next
<1> QED BY <1>1, WatchStart, PTL DEF Spec

\* What a watch has noted is true of its stock and of what was sent: every
\* offering and effectiveness notice on record is in its flags, its tier was
\* announced or in its cooldown, exactly the due outcomes are journalled
\* (engine.cpp:552-580).
THEOREM WatchNotesTrue == Spec => []WatchInv
<1>1. WatchIInv => WatchInv
  BY DEF WatchIInv
<1> QED BY <1>1, WatchInductive, PTL

\* Two signals of one tier on one ticker are at least the cooldown apart,
\* however often the ticker leaves the list and comes back (cooled_down()).
THEOREM SignalsAreSpaced == Spec => SignalsSpaced
<1> DEFINE Spaced == \A x \in sent' : x.tier \in Tiers => told[x.sym][x.tier] >= Cooldown
<1>1. WatchIInv /\ [Next]_vars => [Spaced]_vars
  <2> SUFFICES ASSUME WatchIInv, Next PROVE Spaced
    OBVIOUS
  <2>1. ASSUME sent' = {} PROVE Spaced
    BY <2>1
  <2>2. ASSUME NEW S, NEW w, Emit(S, w), S \subseteq Sym \X Tiers PROVE Spaced
    <3>1. sent' = {Signal(x[1], x[2], w[x[1]]) : x \in Cooled(S)}
      BY <2>2 DEF Emit
    <3>2. ASSUME NEW x \in Cooled(S) PROVE told[x[1]][x[2]] >= Cooldown
      <4>1. x[1] \in Sym /\ x[2] \in Tiers /\ x = <<x[1], x[2]>>
        BY <2>2 DEF Cooled
      <4> QED BY <4>1, <2>2, EmitKeeps
    <3>3. \A x \in Cooled(S) : Signal(x[1], x[2], w[x[1]]).sym = x[1] /\ Signal(x[1], x[2], w[x[1]]).tier = x[2]
      BY DEF Signal
    <3> QED BY <3>1, <3>2, <3>3
  <2>3. ASSUME NEW score \in 0 .. 2, Activate(score) PROVE Spaced
    <3>1. RestTrue /\ todo # <<>>
      BY <2>3, ByTicker DEF Activate
    <3>2. PICK s \in Sym : s = Head(todo)
      BY <3>1, HeadOfTodo
    <3>3. PICK S : S = {<<s, Watch>>}
      OBVIOUS
    <3>4. PICK w : w = watch'
      OBVIOUS
    <3>5. Emit(S, w)
      BY <2>3, <3>2, <3>3, <3>4 DEF Activate, Emit, CoolDown, Cooled
    <3>6. S \subseteq Sym \X Tiers
      BY <3>2, <3>3, Constants
    <3> QED BY <3>5, <3>6, <2>2
  <2>4. ASSUME NEW board \in [{s \in Sym : Watched(s)} -> Snapshot], Evaluate(board) PROVE Spaced
    <3>1. PICK S : S = {<<s, Reached(s, watch[s], board[s])>> : s \in {r \in Live(board) : Raises(r, watch[r], board[r])}}
      OBVIOUS
    <3>2. PICK w : w = watch'
      OBVIOUS
    <3>3. Emit(S, w)
      BY <2>4, <3>1, <3>2 DEF Evaluate, Emit, CoolDown, Cooled
    <3>4. S \subseteq Sym \X Tiers
      <4>1. \A s \in Sym : Reached(s, watch[s], board[s]) \in Tiers
        BY Constants DEF Reached
      <4> QED BY <3>1, <4>1 DEF Live
    <3> QED BY <3>3, <3>4, <2>2
  <2>5. ASSUME NEW s \in Filers, NEW form \in Filed, OnFiling(s, form) PROVE Spaced
    <3>1. \A x \in sent' : x.tier = Info
      BY <2>5 DEF OnFiling, Quiet, Signal
    <3> QED BY <3>1, Constants DEF Info
  <2>6. ASSUME NEW movers \in SUBSET Movers, ScanMovers(movers) PROVE Spaced
    <3>1. \A x \in sent' : x.tier = Mover
      BY <2>6 DEF ScanMovers
    <3> QED BY <3>1, Constants DEF Mover
  <2>7. ASSUME NEW ts \in Tickers, NEW items \in SUBSET Items, OnNews(ts, items) PROVE Spaced
    BY <2>7, <2>1 DEF OnNews, Quiet
  <2>8. ASSUME NEW score \in 0 .. 2, PassOver(score) \/ TakeOver(score) PROVE Spaced
    BY <2>8, <2>1 DEF PassOver, TakeOver, Quiet
  <2>9. CASE Clock \/ Midnight
    BY <2>9, <2>1 DEF Clock, Midnight
  <2> QED BY <2>3, <2>4, <2>5, <2>6, <2>7, <2>8, <2>9 DEF Next
<1> QED BY <1>1, WatchInductive, PTL DEF Spec, SignalsSpaced

-----------------------------------------------------------------------------
(* HaltAlerts: the inductive invariant *)

Belief == [state : {None, "H", "T"}, age : 0 .. RepeatWindow]

HaltType == /\ source \in {"itch", "bridge"} /\ trading \in State \cup {None} /\ last_state = trading
            /\ events \in Seq(State) /\ reports \in Seq(State)
            /\ missed \in BOOLEAN /\ late \in BOOLEAN
            /\ seen \in Belief /\ said \in Belief

\* Before the first action there is nothing to learn of the stock.
NothingYet == trading = None => events = <<>> /\ reports = <<>> /\ seen.state = None

\* The newest event in the ring is the state on the board, as far as it matters:
\* what ItchBook filters out changes nothing.
NewestIsBoard == events # <<>> /\ ~ missed => Halted(events[Len(events)]) = Halted(trading)

\* An alert is no younger than the state it was for.
SaidBefore == said.age >= seen.age

HaltIInv == HaltType /\ NothingYet /\ NewestIsBoard /\ EngineAgreesWithBoard /\ SaidBefore

LEMMA HaltStart == HaltInit => HaltIInv
<1> SUFFICES ASSUME HaltInit PROVE HaltIInv
  OBVIOUS
<1>1. seen \in Belief /\ said \in Belief /\ seen.state = None /\ seen.age = RepeatWindow /\ said = seen
  BY HaltAssumption DEF HaltInit, Never, Belief
<1>2. <<>> \in Seq(State)
  BY EmptySeq
<1>3. missed \in BOOLEAN /\ late \in BOOLEAN
  BY Zenon DEF HaltInit
<1>4. HaltType
  BY <1>1, <1>2, <1>3 DEF HaltInit, HaltType
<1>5. SaidBefore
  BY <1>1, HaltAssumption DEF SaidBefore
<1> QED BY <1>1, <1>4, <1>5 DEF HaltInit, HaltIInv, NothingYet, NewestIsBoard, EngineAgreesWithBoard

\* Learning of a state: believed afterwards, told only with a change or after
\* the window.
LEMMA Learned ==
  ASSUME HaltIInv, NEW s \in State, NEW interested \in BOOLEAN, handle_halt(s, interested)
  PROVE  /\ seen' \in Belief /\ said' \in Belief /\ SaidBefore'
         /\ (seen'.state = "H") = Halted(s) /\ seen'.state # None
         /\ said' # said /\ said.state = seen.state => said'.state # said.state \/ said.age >= RepeatWindow
<1> DEFINE b == IF Halted(s) THEN "H" ELSE "T"
<1>a. seen \in Belief /\ said \in Belief /\ SaidBefore
  BY DEF HaltIInv, HaltType
<1>b. b \in {"H", "T"} /\ (b = "H") = Halted(s)
  <2>1. CASE Halted(s)
    BY <2>1 DEF Halted
  <2>2. CASE ~ Halted(s)
    BY <2>2 DEF Halted
  <2> QED BY <2>1, <2>2
<1>c. /\ seen.state \in {None, "H", "T"} /\ seen.age \in 0 .. RepeatWindow
      /\ said.state \in {None, "H", "T"} /\ said.age \in 0 .. RepeatWindow
  BY <1>a DEF Belief
<1>1. CASE Repeated(b)
  BY <1>1, <1>a, <1>b DEF handle_halt, Repeated, SaidBefore, None
<1>2. CASE ~ Repeated(b)
  <2>1. PICK x : x = [state |-> b, age |-> 0]
    OBVIOUS
  <2>2. seen' = x /\ said' = IF interested THEN x ELSE said
    BY <1>2, <2>1 DEF handle_halt
  <2>3. x \in Belief /\ x.state = b /\ x.age = 0
    <3>1. 0 \in 0 .. RepeatWindow
      BY HaltAssumption
    <3> QED BY <1>b, <2>1, <3>1 DEF Belief
  <2>4. SaidBefore'
    BY <1>c, <2>2, <2>3, HaltAssumption DEF SaidBefore
  <2>5. ASSUME said' # said, said.state = seen.state, said'.state = said.state PROVE said.age >= RepeatWindow
    <3>1. seen.state = b
      BY <2>2, <2>3, <2>5
    <3>2. seen.age >= RepeatWindow
      BY <1>2, <1>c, <3>1, HaltAssumption DEF Repeated
    <3> QED BY <1>a, <1>c, <3>2, HaltAssumption DEF SaidBefore
  <2>6. (seen'.state = "H") = Halted(s) /\ seen'.state # None
    BY <1>b, <2>2, <2>3 DEF None
  <2> QED BY <1>a, <2>2, <2>3, <2>4, <2>5, <2>6
<1> QED BY <1>1, <1>2

LEMMA OnEventKeeps == ASSUME HaltIInv, OnEvent PROVE HaltIInv'
<1>a. HaltType /\ NothingYet /\ NewestIsBoard
  BY DEF HaltIInv
<1>b. /\ events # <<>> /\ events' = Tail(events) /\ late' = FALSE
      /\ UNCHANGED <<source, actions, last_state, trading, missed, reports>>
  BY DEF OnEvent
<1>c. PICK s \in State : s = Head(events)
  BY <1>a, <1>b, HeadTailProperties DEF HaltType
<1>d. /\ seen' \in Belief /\ said' \in Belief /\ SaidBefore'
      /\ (seen'.state = "H") = Halted(s) /\ seen'.state # None
  <2>1. PICK interested \in BOOLEAN : handle_halt(s, interested)
    BY <1>c DEF OnEvent
  <2> QED BY <2>1, Learned
<1>e. /\ events' \in Seq(State) /\ Len(events) \in Nat \ {0} /\ Len(events') = Len(events) - 1
      /\ \A i \in 1 .. Len(events') : events'[i] = events[i + 1]
      /\ s = events[1]
  BY <1>a, <1>b, <1>c, HeadTailProperties DEF HaltType
<1>1. HaltType'
  BY <1>a, <1>b, <1>d, <1>e DEF HaltType
<1>2. NothingYet'
  BY <1>a, <1>b DEF NothingYet
<1>3. NewestIsBoard'
  <2>1. ASSUME events' # <<>> PROVE events'[Len(events')] = events[Len(events)]
    <3>1. Len(events') \in Nat \ {0}
      BY <2>1, <1>e, EmptySeq
    <3> QED BY <1>e, <3>1
  <2> QED BY <1>a, <1>b, <2>1 DEF NewestIsBoard
<1>4. EngineAgreesWithBoard'
  <2> SUFFICES ASSUME events' = <<>>, ~ missed PROVE (seen'.state = "H") = Halted(trading)
    BY <1>b DEF EngineAgreesWithBoard
  <2>1. Len(events) = 1
    BY <1>e
  <2> QED BY <2>1, <1>a, <1>b, <1>d, <1>e DEF NewestIsBoard
<1> QED BY <1>1, <1>2, <1>3, <1>4, <1>d DEF HaltIInv

LEMMA OnReportKeeps == ASSUME HaltIInv, OnReport PROVE HaltIInv'
<1>a. HaltType /\ NothingYet /\ NewestIsBoard
  BY DEF HaltIInv
<1>b. /\ reports # <<>> /\ reports' = Tail(reports) /\ late' = (Halted(Head(reports)) # Halted(trading))
      /\ UNCHANGED <<source, actions, last_state, trading, events, missed>>
  BY DEF OnReport
<1>c. PICK s \in State : s = Head(reports)
  BY <1>a, <1>b, HeadTailProperties DEF HaltType
<1>d. /\ seen' \in Belief /\ said' \in Belief /\ SaidBefore'
      /\ (seen'.state = "H") = Halted(s) /\ seen'.state # None
  <2>1. PICK interested \in BOOLEAN : handle_halt(s, interested)
    BY <1>c DEF OnReport
  <2> QED BY <2>1, Learned
<1>1. HaltType'
  <2>1. reports' \in Seq(State)
    BY <1>a, <1>b, HeadTailProperties DEF HaltType
  <2>2. late' \in BOOLEAN
    BY <1>b
  <2> QED BY <1>a, <1>b, <1>d, <2>1, <2>2 DEF HaltType
<1>2. NothingYet' /\ NewestIsBoard'
  BY <1>a, <1>b DEF NothingYet, NewestIsBoard
<1>3. EngineAgreesWithBoard'
  BY <1>b, <1>c, <1>d DEF EngineAgreesWithBoard
<1> QED BY <1>1, <1>2, <1>3, <1>d DEF HaltIInv

LEMMA TradingActionKeeps == ASSUME HaltIInv, NEW s \in State, on_trading_action(s) PROVE HaltIInv'
<1>a. HaltType /\ NothingYet /\ NewestIsBoard /\ EngineAgreesWithBoard /\ SaidBefore
  BY DEF HaltIInv
<1>b. /\ trading' = s /\ last_state' = s /\ UNCHANGED <<source, late, seen, said>>
      /\ IF Forward(s) /\ Len(events) < RingCap
           THEN events' = Append(events, s) /\ UNCHANGED missed
           ELSE missed' = (missed \/ Forward(s)) /\ UNCHANGED events
      /\ reports' = IF Halted(s) # Halted(last_state) THEN Append(reports, s) ELSE reports
  BY DEF on_trading_action
<1>c. s # None
  BY DEF State, None
<1>1. HaltType'
  <2>1. events' \in Seq(State) /\ reports' \in Seq(State)
    BY <1>a, <1>b, AppendProperties DEF HaltType
  <2>2. missed' \in BOOLEAN
    BY <1>a, <1>b, Zenon DEF HaltType
  <2> QED BY <1>a, <1>b, <2>1, <2>2 DEF HaltType
<1>2. NothingYet' /\ SaidBefore'
  BY <1>a, <1>b, <1>c DEF NothingYet, SaidBefore
<1>3. CASE Forward(s) /\ Len(events) < RingCap
  <2>1. events' # <<>> /\ events'[Len(events')] = s
    BY <1>a, <1>b, <1>3, AppendProperties DEF HaltType
  <2>2. NewestIsBoard' /\ EngineAgreesWithBoard'
    BY <1>b, <2>1 DEF NewestIsBoard, EngineAgreesWithBoard
  <2> QED BY <1>1, <1>2, <2>2 DEF HaltIInv
<1>4. CASE ~ (Forward(s) /\ Len(events) < RingCap)
  <2>1. ASSUME ~ missed'
        PROVE  ~ missed /\ events' = events /\ (trading # None => Halted(trading') = Halted(trading))
    <3>1. ~ Forward(s) /\ ~ missed /\ events' = events
      BY <1>b, <1>4, <2>1
    <3>2. s = "T" /\ trading \in {None, "T"}
      BY <1>a, <3>1 DEF Forward, interesting, HaltType
    <3> QED BY <1>b, <3>1, <3>2
  <2>2. NewestIsBoard'
    BY <1>a, <2>1 DEF NewestIsBoard, NothingYet
  <2>3. EngineAgreesWithBoard'
    BY <1>a, <1>b, <2>1 DEF EngineAgreesWithBoard, NothingYet
  <2> QED BY <1>1, <1>2, <2>2, <2>3 DEF HaltIInv
<1> QED BY <1>3, <1>4

LEMMA OlderBelief ==
  ASSUME NEW x \in Belief
  PROVE  /\ Older(x) \in Belief /\ Older(x).state = x.state
         /\ Older(x).age = IF x.age < RepeatWindow THEN x.age + 1 ELSE x.age
<1>1. x.age \in 0 .. RepeatWindow
  BY DEF Belief
<1>2. PICK n : n = IF x.age < RepeatWindow THEN x.age + 1 ELSE x.age
  OBVIOUS
<1>3. n \in 0 .. RepeatWindow
  BY <1>1, <1>2, HaltAssumption
<1>4. Older(x) = [x EXCEPT !.age = n]
  BY <1>2 DEF Older
<1> QED BY <1>2, <1>3, <1>4 DEF Belief

LEMMA HaltClockKeeps == ASSUME HaltIInv, HaltClock PROVE HaltIInv'
<1>a. HaltType /\ NothingYet /\ NewestIsBoard /\ EngineAgreesWithBoard /\ SaidBefore
  BY DEF HaltIInv
<1>b. /\ seen' = Older(seen) /\ said' = Older(said)
      /\ UNCHANGED <<source, actions, last_state, trading, events, missed, reports, late>>
  BY DEF HaltClock
<1>c. seen' \in Belief /\ said' \in Belief /\ seen'.state = seen.state
  BY <1>a, <1>b, OlderBelief DEF HaltType
<1>1. SaidBefore'
  <2>1. seen.age \in 0 .. RepeatWindow /\ said.age \in 0 .. RepeatWindow
    BY <1>a DEF HaltType, Belief
  <2>2. /\ seen'.age = IF seen.age < RepeatWindow THEN seen.age + 1 ELSE seen.age
        /\ said'.age = IF said.age < RepeatWindow THEN said.age + 1 ELSE said.age
    BY <1>a, <1>b, OlderBelief DEF HaltType
  <2> QED BY <1>a, <2>1, <2>2, HaltAssumption DEF SaidBefore
<1>2. HaltType'
  BY <1>a, <1>b, <1>c DEF HaltType
<1>3. NothingYet' /\ NewestIsBoard' /\ EngineAgreesWithBoard'
  BY <1>a, <1>b, <1>c DEF NothingYet, NewestIsBoard, EngineAgreesWithBoard
<1> QED BY <1>1, <1>2, <1>3 DEF HaltIInv

-----------------------------------------------------------------------------
\* The stronger invariant holds in every state of the halt path.
THEOREM HaltInductive == HaltSpec => []HaltIInv
<1>1. HaltIInv /\ [HaltNext]_haltVars => HaltIInv'
  <2> SUFFICES ASSUME HaltIInv, [HaltNext]_haltVars PROVE HaltIInv'
    OBVIOUS
  <2>1. CASE UNCHANGED haltVars
    BY <2>1 DEF haltVars, HaltIInv, HaltType, NothingYet, NewestIsBoard, EngineAgreesWithBoard, SaidBefore
  <2> QED BY <2>1, OnEventKeeps, OnReportKeeps, HaltClockKeeps, TradingActionKeeps DEF HaltNext
<1> QED BY <1>1, HaltStart, PTL DEF HaltSpec

\* With the ring drained, nothing missed and no old report handled last, the
\* engine's belief is the state on the board, for any ring and any window: the
\* filter of ItchBook hides nothing that matters (itch_book.hpp, engine.cpp,
\* handle_halt()).
THEOREM EngineIsUpToDate == HaltSpec => []EngineAgreesWithBoard
<1>1. HaltIInv => EngineAgreesWithBoard
  BY DEF HaltIInv
<1> QED BY <1>1, HaltInductive, PTL

\* handle_halt() does not say the same twice within the window unless something
\* else was learned in between, whichever of the two sources it came from.
THEOREM AlertsNotRepeated == HaltSpec => NoRepeatedAlert
<1> DEFINE A == said' # said /\ said'.age = 0 /\ said.state = seen.state =>
                  said'.state # said.state \/ said.age >= RepeatWindow
<1>1. HaltIInv /\ [HaltNext]_haltVars => [A]_haltVars
  <2> SUFFICES ASSUME HaltIInv, HaltNext PROVE A
    OBVIOUS
  <2>a. seen \in Belief /\ said \in Belief /\ events \in Seq(State) /\ reports \in Seq(State)
    BY DEF HaltIInv, HaltType
  <2>1. CASE OnEvent
    <3>1. PICK s \in State : s = Head(events)
      BY <2>1, <2>a, HeadTailProperties DEF OnEvent
    <3>2. PICK interested \in BOOLEAN : handle_halt(s, interested)
      BY <2>1, <3>1 DEF OnEvent
    <3> QED BY <3>2, Learned
  <2>2. CASE OnReport
    <3>1. PICK s \in State : s = Head(reports)
      BY <2>2, <2>a, HeadTailProperties DEF OnReport
    <3>2. PICK interested \in BOOLEAN : handle_halt(s, interested)
      BY <2>2, <3>1 DEF OnReport
    <3> QED BY <3>2, Learned
  <2>3. CASE HaltClock
    <3>1. said'.age = IF said.age < RepeatWindow THEN said.age + 1 ELSE said.age
      BY <2>3, <2>a, OlderBelief DEF HaltClock
    <3>2. said.age \in 0 .. RepeatWindow
      BY <2>a DEF Belief
    <3> QED BY <3>1, <3>2, HaltAssumption
  <2>4. ASSUME NEW s \in State, on_trading_action(s) PROVE A
    BY <2>4 DEF on_trading_action
  <2> QED BY <2>1, <2>2, <2>3, <2>4 DEF HaltNext
<1> QED BY <1>1, HaltInductive, PTL DEF HaltSpec, NoRepeatedAlert
=============================================================================
