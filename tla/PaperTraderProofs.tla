-------------------------- MODULE PaperTraderProofs --------------------------
(***************************************************************************)
(* For any tickers, prices, limits and number of positions: the paper      *)
(* trader's books add up.  The invariant is inductive as it stands; what   *)
(* takes work is that the day's result, a sum over the positions sold, is  *)
(* a number, and that the counters move by the size of disjoint sets.      *)
(***************************************************************************)
EXTENDS PaperTrader, FiniteSetTheorems, WellFoundedInduction, TLAPS

-----------------------------------------------------------------------------
(* Sums over finite sets, as MapThenSumSet computes them *)

Some(s) == CHOOSE x \in s : TRUE

\* g holds the partial sums of v: what the fold computes for every subset.
PartialSums(g, v, D) ==
  \A s \in D : g[s] = IF s = {} THEN 0 ELSE v[Some(s)] + g[s \ {Some(s)}]

UpTo(S, n) == {s \in SUBSET S : Cardinality(s) <= n}

\* A set of natural numbers has a least one.
LEMMA Least ==
  ASSUME NEW T, T \subseteq Nat, T # {}
  PROVE  \E n \in T : \A k \in T : n <= k
<1>1. PICK n \in T : \A k \in T : ~ (<<k, n>> \in OpToRel(<, Nat))
  BY NatLessThanWellFounded, WFMin
<1>2. \A k \in T : ~ (k < n)
  BY <1>1 DEF OpToRel
<1> QED BY <1>2

LEMMA SomeIn == ASSUME NEW s, s # {} PROVE Some(s) \in s
  BY DEF Some

LEMMA Smaller ==
  ASSUME NEW S, IsFiniteSet(S), NEW s \in SUBSET S, s # {}
  PROVE  /\ Some(s) \in S /\ s \ {Some(s)} \in SUBSET S
         /\ Cardinality(s) \in Nat \ {0} /\ Cardinality(s \ {Some(s)}) = Cardinality(s) - 1
<1>1. IsFiniteSet(s)
  BY FS_Subset
<1>2. Some(s) \in s
  BY SomeIn
<1>3. Cardinality(s) \in Nat /\ Cardinality(s) # 0
  BY <1>1, FS_CardinalityType, FS_EmptySet
<1>4. Cardinality(s \ {Some(s)}) = Cardinality(s) - 1
  BY <1>1, <1>2, FS_RemoveElement
<1> QED BY <1>2, <1>3, <1>4

\* The recursion has a solution, built one cardinality at a time.
LEMMA SumsExist ==
  ASSUME NEW S, IsFiniteSet(S), NEW v \in [S -> Int]
  PROVE  \E g \in [SUBSET S -> Int] : PartialSums(g, v, SUBSET S)
<1> DEFINE Bad == {n \in Nat : ~ \E g \in [UpTo(S, n) -> Int] : PartialSums(g, v, UpTo(S, n))}
<1>0. 0 \notin Bad
  <2>1. UpTo(S, 0) = {{}}
    <3>1. ASSUME NEW s \in UpTo(S, 0) PROVE s = {}
      <4>1. s \in SUBSET S /\ Cardinality(s) <= 0
        BY DEF UpTo
      <4>2. ASSUME s # {} PROVE FALSE
        <5>1. Cardinality(s) \in Nat \ {0}
          BY <4>1, <4>2, Smaller
        <5> QED BY <4>1, <5>1
      <4> QED BY <4>2
    <3>2. {} \in UpTo(S, 0)
      BY FS_EmptySet DEF UpTo
    <3> QED BY <3>1, <3>2
  <2>2. [s \in {{}} |-> 0] \in [UpTo(S, 0) -> Int] /\ PartialSums([s \in {{}} |-> 0], v, UpTo(S, 0))
    BY <2>1 DEF PartialSums
  <2> QED BY <2>2
<1>1. ASSUME NEW n \in Nat, n \notin Bad PROVE n + 1 \notin Bad
  <2>1. PICK g \in [UpTo(S, n) -> Int] : PartialSums(g, v, UpTo(S, n))
    BY <1>1
  <2>2. PICK f : f = [s \in UpTo(S, n + 1) |-> IF s = {} THEN 0 ELSE v[Some(s)] + g[s \ {Some(s)}]]
    OBVIOUS
  <2>3. ASSUME NEW s \in UpTo(S, n + 1), s # {}
        PROVE  s \ {Some(s)} \in UpTo(S, n) /\ Some(s) \in S
    <3>1. s \in SUBSET S /\ Cardinality(s) <= n + 1
      BY DEF UpTo
    <3> QED BY <3>1, <2>3, Smaller DEF UpTo
  <2>4. f \in [UpTo(S, n + 1) -> Int]
    <3>1. ASSUME NEW s \in UpTo(S, n + 1), s # {} PROVE v[Some(s)] + g[s \ {Some(s)}] \in Int
      <4>1. v[Some(s)] \in Int /\ g[s \ {Some(s)}] \in Int
        BY <2>3, <3>1
      <4> QED BY <4>1
    <3> QED BY <2>2, <3>1
  <2>5. ASSUME NEW s \in UpTo(S, n) PROVE f[s] = g[s]
    <3>1. s \in UpTo(S, n + 1)
      <4>1. s \in SUBSET S /\ Cardinality(s) <= n /\ Cardinality(s) \in Nat
        BY FS_Subset, FS_CardinalityType DEF UpTo
      <4> QED BY <4>1 DEF UpTo
    <3> QED BY <3>1, <2>1, <2>2 DEF PartialSums
  <2>6. PartialSums(f, v, UpTo(S, n + 1))
    <3>1. ASSUME NEW s \in UpTo(S, n + 1), s # {} PROVE f[s] = v[Some(s)] + f[s \ {Some(s)}]
      BY <3>1, <2>2, <2>3, <2>5
    <3> QED BY <2>2, <3>1 DEF PartialSums
  <2> QED BY <2>4, <2>6
<1>2. Bad = {}
  <2> SUFFICES ASSUME Bad # {} PROVE FALSE
    OBVIOUS
  <2>1. PICK n \in Bad : \A k \in Bad : n <= k
    <3>1. Bad \subseteq Nat
      OBVIOUS
    <3> HIDE DEF Bad
    <3> QED BY <3>1, Least
  <2>2. n \in Nat /\ n # 0
    BY <1>0
  <2>3. n - 1 \in Nat /\ n - 1 \notin Bad
    BY <2>1, <2>2
  <2>4. (n - 1) + 1 \notin Bad
    BY <1>1, <2>3
  <2> QED BY <2>2, <2>4
<1>3. Cardinality(S) \in Nat /\ UpTo(S, Cardinality(S)) = SUBSET S
  <2>1. Cardinality(S) \in Nat /\ \A s \in SUBSET S : Cardinality(s) <= Cardinality(S)
    BY FS_CardinalityType, FS_Subset
  <2> QED BY <2>1 DEF UpTo
<1>4. \E g \in [UpTo(S, Cardinality(S)) -> Int] : PartialSums(g, v, UpTo(S, Cardinality(S)))
  BY <1>2, <1>3
<1> QED BY <1>3, <1>4

\* Every solution is a number at every subset.
LEMMA SumsAreInt ==
  ASSUME NEW S, IsFiniteSet(S), NEW v \in [S -> Int], NEW g, PartialSums(g, v, SUBSET S)
  PROVE  g[S] \in Int
<1> DEFINE Bad == {n \in Nat : \E s \in SUBSET S : Cardinality(s) = n /\ g[s] \notin Int}
<1>1. Bad = {}
  <2> SUFFICES ASSUME Bad # {} PROVE FALSE
    OBVIOUS
  <2>1. PICK n \in Bad : \A k \in Bad : n <= k
    <3>1. Bad \subseteq Nat
      OBVIOUS
    <3> HIDE DEF Bad
    <3> QED BY <3>1, Least
  <2>2. PICK s \in SUBSET S : Cardinality(s) = n /\ g[s] \notin Int
    OBVIOUS
  <2>3. s # {}
    <3>1. {} \in SUBSET S
      OBVIOUS
    <3>2. g[{}] = 0
      BY <3>1 DEF PartialSums
    <3>3. g[{}] \in Int
      BY <3>2
    <3> QED BY <2>2, <3>3, Zenon
  <2>4. /\ Some(s) \in S /\ s \ {Some(s)} \in SUBSET S
        /\ n \in Nat \ {0} /\ Cardinality(s \ {Some(s)}) = n - 1
    BY <2>2, <2>3, Smaller
  <2>5. n - 1 \in Nat /\ n - 1 \notin Bad
    BY <2>1, <2>4
  <2>6. g[s \ {Some(s)}] \in Int
    BY <2>4, <2>5
  <2>7. g[s] = v[Some(s)] + g[s \ {Some(s)}] /\ v[Some(s)] \in Int
    BY <2>3, <2>4 DEF PartialSums
  <2> QED BY <2>2, <2>6, <2>7
<1>2. Cardinality(S) \in Nat /\ S \in SUBSET S
  BY FS_CardinalityType
<1> QED BY <1>1, <1>2

\* What sales bring in is a number (finish()).
LEMMA ProceedsInt ==
  ASSUME NEW S, IsFiniteSet(S), NEW board, \A i \in S : Pnl(pos[i], board[i]) \in Int
  PROVE  Proceeds(S, board) \in Int
<1> DEFINE F(g) == [s \in SUBSET S |-> IF s = {} THEN 0
                                       ELSE Pnl(pos[Some(s)], board[Some(s)]) + g[s \ {Some(s)}]]
           It == CHOOSE g : g = F(g)
<1>1. PICK v \in [S -> Int] : \A i \in S : v[i] = Pnl(pos[i], board[i])
  <2>1. [i \in S |-> Pnl(pos[i], board[i])] \in [S -> Int]
    OBVIOUS
  <2> QED BY <2>1
<1>2. ASSUME NEW s \in SUBSET S, s # {} PROVE v[Some(s)] = Pnl(pos[Some(s)], board[Some(s)])
  BY <1>1, <1>2, Smaller
<1>3. \E g : g = F(g)
  <2>1. PICK g \in [SUBSET S -> Int] : PartialSums(g, v, SUBSET S)
    BY SumsExist
  <2>2. \A s \in SUBSET S : g[s] = IF s = {} THEN 0 ELSE Pnl(pos[Some(s)], board[Some(s)]) + g[s \ {Some(s)}]
    BY <1>2, <2>1 DEF PartialSums
  <2>3. g = [s \in SUBSET S |-> g[s]]
    OBVIOUS
  <2> QED BY <2>2, <2>3
<1>4. It = F(It)
  BY <1>3
<1>5. Proceeds(S, board) = It[S]
  BY DEF Proceeds, MapThenSumSet, MapThenFoldSet, Some
<1>6. PICK g : g = It
  OBVIOUS
<1>7. PartialSums(g, v, SUBSET S)
  <2>1. g = F(g)
    BY <1>4, <1>6
  <2> QED BY <2>1, <1>2 DEF PartialSums
<1> QED BY <1>5, <1>6, <1>7, SumsAreInt

-----------------------------------------------------------------------------
(* Counting slots *)

LEMMA SlotsFinite ==
  ASSUME TypeOK, NEW T, T \subseteq Slot
  PROVE  IsFiniteSet(T) /\ Cardinality(T) \in Nat
<1>1. max_open \in Nat
  BY PaperAssumption DEF TypeOK
<1>2. IsFiniteSet(Slot)
  BY <1>1, FS_Interval DEF Slot
<1> QED BY <1>2, FS_Subset, FS_CardinalityType

\* Two parts that share nothing: the whole has as many as both.
LEMMA Parts ==
  ASSUME NEW A, NEW B, NEW C, IsFiniteSet(A), A = B \cup C, B \cap C = {}
  PROVE  Cardinality(A) = Cardinality(B) + Cardinality(C)
<1>1. IsFiniteSet(B) /\ IsFiniteSet(C)
  BY FS_Subset
<1>2. Cardinality(B) \in Nat /\ Cardinality(C) \in Nat /\ Cardinality({}) = 0
  BY <1>1, FS_CardinalityType, FS_EmptySet
<1>3. Cardinality(B \cup C) = Cardinality(B) + Cardinality(C) - Cardinality(B \cap C)
  BY <1>1, FS_Union
<1>4. Cardinality(B \cap C) = 0
  BY <1>2
<1>5. Cardinality(A) = Cardinality(B) + Cardinality(C) - 0
  BY <1>3, <1>4
<1> QED BY <1>2, <1>5

\* The first free slot exists when any slot is free.
LEMMA FirstFreeIsFree ==
  ASSUME TypeOK, \E i \in Slot : ~ Active(pos[i])
  PROVE  FirstFree \in Slot /\ ~ Active(pos[FirstFree])
<1> DEFINE T == {i \in Slot : ~ Active(pos[i])}
<1>1. T \subseteq Nat /\ T # {} /\ max_open \in Nat
  BY PaperAssumption DEF Slot, TypeOK
<1>2. PICK n \in T : \A k \in T : n <= k
  <2> HIDE DEF T
  <2> QED BY <1>1, Least
<1>3. n \in Slot /\ ~ Active(pos[n]) /\ \A j \in 1 .. n - 1 : Active(pos[j])
  <2>1. ASSUME NEW j \in 1 .. n - 1, ~ Active(pos[j]) PROVE FALSE
    <3>1. n \in Nat /\ j \in Nat /\ j \in Slot /\ j < n
      BY <1>1 DEF Slot
    <3>2. j \in T
      BY <2>1, <3>1
    <3> QED BY <1>2, <3>1, <3>2
  <2> QED BY <2>1
<1>4. \E i \in Slot : ~ Active(pos[i]) /\ \A j \in 1 .. i - 1 : Active(pos[j])
  BY <1>3
<1> QED BY <1>4, Zenon DEF FirstFree

-----------------------------------------------------------------------------
(* What one evaluation makes of a position *)

FieldsOf(p) == /\ p.state \in {"free", "pending", "open"} /\ p.sym \in Sym \cup {NoSym} /\ p.signalPx \in Nat
               /\ p.wait \in 0 .. Latency /\ p.late \in 0 .. EntryTimeout + 1 /\ p.entry \in Nat /\ p.shares \in Nat
               /\ p.best \in Nat /\ p.held \in 0 .. MaxHold /\ p.beforeFlat \in BOOLEAN

LEMMA Fields == ASSUME NEW p \in Position PROVE FieldsOf(p)
  BY DEF Position, FieldsOf

LEMMA FreeIsPosition == Free \in Position /\ Free.state = "free"
<1>1. 0 \in 0 .. Latency /\ 0 \in 0 .. EntryTimeout + 1 /\ 0 \in 0 .. MaxHold
  BY PaperAssumption
<1> QED BY <1>1 DEF Free, Position

LEMMA PxIsNat == ASSUME NEW h \in Snapshot PROVE h.px \in Nat
<1>1. h.px \in Price \cup {0}
  BY DEF Snapshot
<1>2. \A x \in Price : x \in Nat
  BY PaperAssumption
<1>3. CASE h.px \in Price
  BY <1>2, <1>3
<1> QED BY <1>1, <1>3

LEMMA DivNat == ASSUME NEW a \in Nat, NEW b \in Nat, b > 0 PROVE a \div b \in Nat
  BY SMT

LEMMA BuyIsPosition ==
  ASSUME NEW p \in Position, NEW h \in Snapshot, h.px # 0
  PROVE  Buy(p, h) \in Position /\ Buy(p, h).state = "open" /\ Buy(p, h).sym = p.sym
<1>1. h.px \in Nat /\ h.px > 0
  BY PxIsNat
<1>2. h.px + Slip \in Nat /\ h.px + Slip > 0
  BY <1>1, PaperAssumption
<1>3. Shares(h.px + Slip) \in Nat
  BY <1>2, DivNat, PaperAssumption DEF Shares
<1>4. 0 \in 0 .. Latency /\ 0 \in 0 .. EntryTimeout + 1 /\ (minute < FlatBy) \in BOOLEAN
  BY PaperAssumption
<1>5. PICK q, n, b : q = h.px + Slip /\ n = Shares(h.px + Slip) /\ b = (minute < FlatBy)
  OBVIOUS
<1>6. Buy(p, h) = [p EXCEPT !.state = "open", !.entry = q, !.shares = n, !.best = q, !.beforeFlat = b,
                            !.signalPx = 0, !.wait = 0, !.late = 0]
  BY <1>5 DEF Buy
<1>7. q \in Nat /\ n \in Nat /\ b \in BOOLEAN
  BY <1>2, <1>3, <1>4, <1>5
<1>8. Buy(p, h) \in Position
  <2>1. Buy(p, h) = [state |-> "open", sym |-> p.sym, signalPx |-> 0, wait |-> 0, late |-> 0, entry |-> q,
                     shares |-> n, best |-> q, held |-> p.held, beforeFlat |-> b]
    BY <1>6 DEF Position
  <2>2. p.sym \in Sym \cup {NoSym} /\ p.held \in 0 .. MaxHold
    BY Fields DEF FieldsOf
  <2> QED BY <2>1, <2>2, <1>4, <1>7 DEF Position
<1>9. Buy(p, h).state = "open" /\ Buy(p, h).sym = p.sym
  BY <1>6 DEF Position
<1> QED BY <1>8, <1>9

\* The five verdicts of try_fill(); a purchase has a price.
LEMMA FillVerdict ==
  ASSUME NEW p, NEW h
  PROVE  /\ Fill(p, h) \in {"keep", "timeout", "chase", "unfilled", "buy"}
         /\ Fill(p, h) = "buy" => h.px # 0
  BY DEF Fill

LEMMA AfterIsPosition ==
  ASSUME NEW p \in Position, NEW h, Active(p) => h \in Snapshot
  PROVE  /\ After(p, h) \in Position
         /\ After(p, h).state = "pending" <=> p.state = "pending" /\ Fill(p, h) = "keep"
         /\ After(p, h).state = "open" <=> \/ p.state = "pending" /\ Fill(p, h) = "buy"
                                           \/ p.state = "open" /\ ~ Exits(p, h)
         /\ Active(After(p, h)) => Active(p) /\ After(p, h).sym = p.sym
<1>1. CASE p.state = "free"
  <2>1. After(p, h) = p
    BY <1>1 DEF After
  <2> QED BY <1>1, <2>1 DEF Active
<1>2. CASE p.state = "pending"
  <2>1. h \in Snapshot
    BY <1>2 DEF Active
  <2>2. CASE Fill(p, h) = "keep"
    <3>1. After(p, h) = p
      BY <1>2, <2>2 DEF After
    <3> QED BY <1>2, <2>2, <3>1
  <2>3. CASE Fill(p, h) = "buy"
    <3>1. After(p, h) = Buy(p, h)
      BY <1>2, <2>3 DEF After
    <3> QED BY <1>2, <2>1, <2>3, <3>1, BuyIsPosition, FillVerdict DEF Active
  <2>4. CASE Fill(p, h) \notin {"keep", "buy"}
    <3>1. After(p, h) = Free
      BY <1>2, <2>4 DEF After
    <3> QED BY <1>2, <2>4, <3>1, FreeIsPosition DEF Active
  <2> QED BY <2>2, <2>3, <2>4
<1>3. CASE p.state = "open"
  <2>1. h \in Snapshot /\ h.px \in Nat
    BY <1>3, PxIsNat DEF Active
  <2>2. CASE Exits(p, h)
    <3>1. After(p, h) = Free
      BY <1>3, <2>2 DEF After
    <3> QED BY <1>3, <2>2, <3>1, FreeIsPosition DEF Active
  <2>3. CASE ~ Exits(p, h) /\ ~ Readable(h)
    <3>1. After(p, h) = p
      BY <1>3, <2>3 DEF After
    <3> QED BY <1>3, <2>3, <3>1 DEF Active
  <2>4. CASE ~ Exits(p, h) /\ Readable(h)
    <3>1. PICK q : q = Best(p, h)
      OBVIOUS
    <3>2. After(p, h) = [p EXCEPT !.best = q]
      BY <1>3, <2>4, <3>1 DEF After
    <3>3. q \in Nat
      BY <2>1, <3>1, Fields DEF Best, FieldsOf
    <3>4. [p EXCEPT !.best = q] \in Position /\ [p EXCEPT !.best = q].state = "open" /\ [p EXCEPT !.best = q].sym = p.sym
      BY <1>3, <3>3 DEF Position
    <3> QED BY <1>3, <2>4, <3>2, <3>4 DEF Active
  <2> QED BY <2>2, <2>3, <2>4
<1> QED BY <1>1, <1>2, <1>3, Fields DEF FieldsOf

LEMMA PnlInt ==
  ASSUME NEW p \in Position, NEW h \in Snapshot
  PROVE  Pnl(p, h) \in Int
<1>1. h.px \in Int /\ p.entry \in Int /\ p.shares \in Int /\ Slip \in Int /\ Fee \in Int
  BY PaperAssumption, PxIsNat, Fields DEF FieldsOf
<1>2. (h.px - Slip - p.entry) * p.shares \in Int
  BY <1>1
<1> QED BY <1>1, <1>2 DEF Pnl

-----------------------------------------------------------------------------
(* The counters *)

Fieldset == {"signals", "opened", "closed", "dup", "risk", "capacity", "chase", "timeout"}

LEMMA ZeroFields == DOMAIN Zero = Fieldset
  BY DEF Zero, Fieldset

LEMMA CountersAreNat ==
  ASSUME stats \in [DOMAIN Zero -> Nat]
  PROVE  /\ stats.signals \in Nat /\ stats.opened \in Nat /\ stats.closed \in Nat /\ stats.dup \in Nat
         /\ stats.risk \in Nat /\ stats.capacity \in Nat /\ stats.chase \in Nat /\ stats.timeout \in Nat
  BY ZeroFields DEF Fieldset

LEMMA RolledInt == ASSUME TypeOK PROVE Rolled \in Int
  BY DEF TypeOK, Rolled

LEMMA StartAddsUp == Init => TradesAddUp
<1> SUFFICES ASSUME Init PROVE TradesAddUp
  OBVIOUS
<1>1. TypeOK
  <2>1. max_open \in 1 .. MaxOpen /\ pos \in [Slot -> Position]
    BY FreeIsPosition DEF Init
  <2>2. stats \in [DOMAIN Zero -> Nat]
    <3>1. Zero \in [DOMAIN Zero -> Nat]
      BY DEF Zero
    <3> QED BY <3>1 DEF Init
  <2>3. 0 \in 0 .. DayLength - 1
    BY PaperAssumption
  <2>4. midnight \in BOOLEAN /\ stopped \in BOOLEAN
    BY Zenon DEF Init
  <2>5. dayRealized \in Int /\ unfilled \in Nat
    BY DEF Init
  <2>6. minute \in 0 .. DayLength - 1
    BY <2>3 DEF Init
  <2> QED BY <2>1, <2>2, <2>4, <2>5, <2>6 DEF TypeOK
<1>2. \A i \in Slot : pos[i].state = "free"
  BY FreeIsPosition DEF Init
<1>3. OnePerTicker
  BY <1>2 DEF OnePerTicker, Active
<1>4. InState("pending") = 0 /\ InState("open") = 0
  <2>1. {i \in Slot : pos[i].state = "pending"} = {} /\ {i \in Slot : pos[i].state = "open"} = {}
    BY <1>2
  <2> QED BY <2>1, FS_EmptySet DEF InState
<1>5. SignalsAccounted
  BY <1>4 DEF Init, Zero, SignalsAccounted
<1> QED BY <1>1, <1>3, <1>5 DEF TradesAddUp

LEMMA RejectKeeps ==
  ASSUME TradesAddUp, NEW f \in {"dup", "risk", "capacity"}, Signalled, Count(f), UNCHANGED pos
  PROVE  TradesAddUp'
<1>a. TypeOK /\ OnePerTicker /\ SignalsAccounted
  BY DEF TradesAddUp
<1>b. /\ dayRealized' = Rolled /\ midnight' = FALSE /\ UNCHANGED <<max_open, minute, stopped, unfilled, pos>>
      /\ stats' = [stats EXCEPT !.signals = @ + 1, ![f] = @ + 1]
  BY DEF Signalled, Count
<1>c. stats \in [Fieldset -> Nat]
  BY <1>a, ZeroFields DEF TypeOK
<1>1. TypeOK'
  <2>1. stats' \in [DOMAIN Zero -> Nat]
    BY <1>b, <1>c, ZeroFields DEF Fieldset
  <2> QED BY <1>a, <1>b, <2>1, RolledInt DEF TypeOK, Slot
<1>2. OnePerTicker'
  BY <1>a, <1>b DEF OnePerTicker, Slot
<1>3. InState("pending")' = InState("pending") /\ InState("open")' = InState("open")
  BY <1>b DEF InState, Slot
<1>4. /\ stats'.signals = stats.signals + 1 /\ stats'.opened = stats.opened /\ stats'.closed = stats.closed
      /\ stats'.chase = stats.chase /\ stats'.timeout = stats.timeout
      /\ stats'.dup + stats'.risk + stats'.capacity = stats.dup + stats.risk + stats.capacity + 1
  <2>1. /\ stats'.dup = IF f = "dup" THEN stats.dup + 1 ELSE stats.dup
        /\ stats'.risk = IF f = "risk" THEN stats.risk + 1 ELSE stats.risk
        /\ stats'.capacity = IF f = "capacity" THEN stats.capacity + 1 ELSE stats.capacity
    BY <1>b, <1>c DEF Fieldset
  <2>2. /\ stats'.signals = stats.signals + 1 /\ stats'.opened = stats.opened /\ stats'.closed = stats.closed
        /\ stats'.chase = stats.chase /\ stats'.timeout = stats.timeout
    BY <1>b, <1>c DEF Fieldset
  <2>3. stats.dup \in Nat /\ stats.risk \in Nat /\ stats.capacity \in Nat
    BY <1>c DEF Fieldset
  <2> QED BY <2>1, <2>2, <2>3
<1>5. SignalsAccounted'
  <2>1. InState("pending") \in Nat /\ InState("open") \in Nat
    BY <1>a, SlotsFinite DEF InState
  <2>2. unfilled \in Nat /\ stats'.dup \in Nat /\ stats'.risk \in Nat /\ stats'.capacity \in Nat
    BY <1>1, <1>a, ZeroFields DEF TypeOK, Fieldset
  <2> HIDE DEF InState
  <2> QED BY <1>a, <1>b, <1>3, <1>4, <2>1, <2>2, CountersAreNat DEF SignalsAccounted, TypeOK
<1> QED BY <1>1, <1>2, <1>5 DEF TradesAddUp

LEMMA AcceptKeeps ==
  ASSUME TradesAddUp, NEW s \in Sym, NEW px \in Price, Accept(s, px)
  PROVE  TradesAddUp'
<1>a. TypeOK /\ OnePerTicker /\ SignalsAccounted
  BY DEF TradesAddUp
<1>b. /\ dayRealized' = Rolled /\ midnight' = FALSE /\ UNCHANGED <<max_open, minute, stopped, unfilled>>
      /\ stats' = [stats EXCEPT !.signals = @ + 1]
      /\ \A i \in Slot : Active(pos[i]) => pos[i].sym # s
  BY DEF Accept, Signalled
<1>c. PICK f \in Slot : f = FirstFree /\ ~ Active(pos[f])
  BY <1>a, FirstFreeIsFree DEF Accept
<1>d. PICK q : q = Pending(s, px)
  OBVIOUS
<1>e. q \in Position /\ q.state = "pending" /\ q.sym = s
  <2>1. px \in Nat
    BY PaperAssumption
  <2>2. Latency \in 0 .. Latency
    BY PaperAssumption
  <2>3. q = [state |-> "pending", sym |-> s, signalPx |-> px, wait |-> Latency, late |-> 0, entry |-> 0,
             shares |-> 0, best |-> 0, held |-> 0, beforeFlat |-> FALSE]
    BY <1>d DEF Pending, Free
  <2>4. 0 \in 0 .. EntryTimeout + 1 /\ 0 \in 0 .. MaxHold
    BY PaperAssumption
  <2> QED BY <2>1, <2>2, <2>3, <2>4 DEF Position
<1>f. pos \in [Slot -> Position] /\ Slot' = Slot
  BY <1>a, <1>b DEF TypeOK, Slot
<1>g. pos' = [pos EXCEPT ![f] = q]
  BY <1>c, <1>d DEF Accept
<1>h. pos' \in [Slot -> Position] /\ pos'[f] = q /\ \A i \in Slot : i # f => pos'[i] = pos[i]
  BY <1>e, <1>f, <1>g
<1>1. TypeOK'
  <2>1. stats' \in [DOMAIN Zero -> Nat]
    BY <1>a, <1>b, ZeroFields DEF TypeOK, Fieldset
  <2> QED BY <1>a, <1>b, <1>f, <1>h, <2>1, RolledInt DEF TypeOK
<1>2. OnePerTicker'
  <2>1. \A i \in Slot : i # f /\ Active(pos'[i]) => pos'[i].sym # s
    BY <1>b, <1>h
  <2> QED BY <1>a, <1>e, <1>f, <1>h, <2>1 DEF OnePerTicker
<1>3. InState("pending")' = InState("pending") + 1 /\ InState("open")' = InState("open")
  <2>1. pos[f].state # "pending" /\ pos[f].state # "open"
    BY <1>c DEF Active
  <2>2. {i \in Slot : pos'[i].state = "open"} = {i \in Slot : pos[i].state = "open"}
    BY <1>e, <1>h, <2>1
  <2>3. {i \in Slot : pos'[i].state = "pending"} = {i \in Slot : pos[i].state = "pending"} \cup {f}
    BY <1>e, <1>h
  <2>4. IsFiniteSet({i \in Slot : pos[i].state = "pending"})
    BY <1>a, SlotsFinite
  <2>5. Cardinality({i \in Slot : pos[i].state = "pending"} \cup {f})
          = Cardinality({i \in Slot : pos[i].state = "pending"}) + 1
    BY <2>1, <2>4, FS_AddElement
  <2> QED BY <1>f, <2>2, <2>3, <2>5 DEF InState
<1>4. SignalsAccounted'
  <2>1. InState("pending") \in Nat /\ InState("open") \in Nat
    BY <1>a, SlotsFinite DEF InState
  <2>2. /\ stats'.signals = stats.signals + 1 /\ stats'.opened = stats.opened /\ stats'.closed = stats.closed
        /\ stats'.chase = stats.chase /\ stats'.timeout = stats.timeout
        /\ stats'.dup = stats.dup /\ stats'.risk = stats.risk /\ stats'.capacity = stats.capacity
    BY <1>a, <1>b, ZeroFields DEF TypeOK, Fieldset
  <2>3. /\ stats.signals \in Nat /\ stats.opened \in Nat /\ stats.closed \in Nat /\ stats.dup \in Nat
        /\ stats.risk \in Nat /\ stats.capacity \in Nat /\ stats.chase \in Nat /\ stats.timeout \in Nat
        /\ unfilled \in Nat
    BY <1>a, CountersAreNat DEF TypeOK
  <2> QED BY <1>a, <1>b, <1>3, <2>1, <2>2, <2>3 DEF SignalsAccounted
<1> QED BY <1>1, <1>2, <1>4 DEF TradesAddUp

\* Every pending order gets one verdict, every open position is sold or kept.
LEMMA StepKeeps ==
  ASSUME TradesAddUp, NEW board \in Boards, Step(board)
  PROVE  TradesAddUp'
<1>a. TypeOK /\ OnePerTicker /\ SignalsAccounted
  BY DEF TradesAddUp
<1>b. /\ pos' = [i \in Slot |-> After(pos[i], board[i])]
      /\ dayRealized' = Rolled + Proceeds(Sales(board), board) /\ midnight' = FALSE
      /\ stats' = [stats EXCEPT !.opened = @ + Cardinality(Verdicts(board, "buy")),
                                !.closed = @ + Cardinality(Sales(board)),
                                !.chase = @ + Cardinality(Verdicts(board, "chase")),
                                !.timeout = @ + Cardinality(Verdicts(board, "timeout"))]
      /\ unfilled' = unfilled + Cardinality(Verdicts(board, "unfilled"))
      /\ UNCHANGED <<max_open, minute, stopped>>
  BY DEF Step
<1>c. pos \in [Slot -> Position] /\ Slot' = Slot
  BY <1>a, <1>b DEF TypeOK, Slot
<1>d. ASSUME NEW i \in Slot
      PROVE  /\ pos'[i] \in Position
             /\ pos'[i].state = "pending" <=> pos[i].state = "pending" /\ Fill(pos[i], board[i]) = "keep"
             /\ pos'[i].state = "open" <=> \/ pos[i].state = "pending" /\ Fill(pos[i], board[i]) = "buy"
                                           \/ pos[i].state = "open" /\ ~ Exits(pos[i], board[i])
             /\ Active(pos'[i]) => Active(pos[i]) /\ pos'[i].sym = pos[i].sym
  <2>1. Active(pos[i]) => board[i] \in Snapshot
    BY DEF Boards
  <2>2. pos[i] \in Position /\ pos'[i] = After(pos[i], board[i])
    BY <1>b, <1>c
  <2> QED BY <2>1, <2>2, AfterIsPosition
<1>e. /\ Sales(board) \subseteq Slot
      /\ \A v \in {"buy", "chase", "timeout", "unfilled", "keep"} : Verdicts(board, v) \subseteq Slot
  BY DEF Sales, Verdicts
<1>f. /\ Cardinality(Sales(board)) \in Nat
      /\ \A v \in {"buy", "chase", "timeout", "unfilled", "keep"} : Cardinality(Verdicts(board, v)) \in Nat
  BY <1>a, <1>e, SlotsFinite
<1>1. TypeOK'
  <2>1. Proceeds(Sales(board), board) \in Int
    <3>1. PICK S : S = Sales(board)
      OBVIOUS
    <3>2. ASSUME NEW i \in S PROVE Pnl(pos[i], board[i]) \in Int
      <4>1. i \in Slot /\ Active(pos[i])
        BY <3>1 DEF Sales, Active
      <4>2. pos[i] \in Position /\ board[i] \in Snapshot
        BY <4>1, <1>c DEF Boards
      <4> QED BY <4>2, PnlInt
    <3>3. IsFiniteSet(S)
      BY <1>a, <1>e, <3>1, SlotsFinite
    <3> QED BY <3>1, <3>2, <3>3, ProceedsInt
  <2>2. dayRealized' \in Int
    BY <1>a, <1>b, <2>1, RolledInt
  <2>3. stats' \in [DOMAIN Zero -> Nat]
    <3>1. stats \in [Fieldset -> Nat]
      BY <1>a, ZeroFields DEF TypeOK
    <3>2. PICK a, b, c, d : /\ a = stats.opened + Cardinality(Verdicts(board, "buy"))
                            /\ b = stats.closed + Cardinality(Sales(board))
                            /\ c = stats.chase + Cardinality(Verdicts(board, "chase"))
                            /\ d = stats.timeout + Cardinality(Verdicts(board, "timeout"))
      OBVIOUS
    <3>3. stats' = [stats EXCEPT !.opened = a, !.closed = b, !.chase = c, !.timeout = d]
      BY <1>b, <3>2
    <3>4. a \in Nat /\ b \in Nat /\ c \in Nat /\ d \in Nat
      BY <1>a, <1>f, <3>2, CountersAreNat DEF TypeOK
    <3> QED BY <3>1, <3>3, <3>4, ZeroFields DEF Fieldset
  <2>4. unfilled' \in Nat
    BY <1>a, <1>b, <1>f DEF TypeOK
  <2>5. pos' \in [Slot -> Position]
    BY <1>b, <1>d
  <2> QED BY <1>a, <1>b, <1>c, <2>2, <2>3, <2>4, <2>5 DEF TypeOK
<1>2. OnePerTicker'
  BY <1>a, <1>c, <1>d DEF OnePerTicker
<1> DEFINE V(v) == Verdicts(board, v)
           P == {i \in Slot : pos[i].state = "pending"}
           O == {i \in Slot : pos[i].state = "open"}
<1>3. /\ InState("pending")' = Cardinality(V("keep"))
      /\ InState("pending") = Cardinality(V("keep")) + Cardinality(V("buy")) + Cardinality(V("chase"))
                              + Cardinality(V("timeout")) + Cardinality(V("unfilled"))
  <2> DEFINE A1 == V("chase") \cup V("timeout") \cup V("unfilled") \cup V("keep")
             A2 == V("timeout") \cup V("unfilled") \cup V("keep")
             A3 == V("unfilled") \cup V("keep")
  <2>1. P = V("buy") \cup A1
    BY FillVerdict DEF Verdicts
  <2>2. A1 = V("chase") \cup A2 /\ A2 = V("timeout") \cup A3
    OBVIOUS
  <2>3. /\ V("buy") \cap A1 = {} /\ V("chase") \cap A2 = {} /\ V("timeout") \cap A3 = {}
        /\ V("unfilled") \cap V("keep") = {}
    BY DEF Verdicts
  <2>4. IsFiniteSet(P) /\ IsFiniteSet(A1) /\ IsFiniteSet(A2) /\ IsFiniteSet(A3)
    <3>1. P \subseteq Slot /\ A1 \subseteq Slot /\ A2 \subseteq Slot /\ A3 \subseteq Slot
      BY <1>e
    <3> HIDE DEF P, A1, A2, A3
    <3> QED BY <1>a, <3>1, SlotsFinite
  <2>5. {i \in Slot : pos'[i].state = "pending"} = V("keep")
    BY <1>d DEF Verdicts
  <2>6. InState("pending") = Cardinality(P) /\ InState("pending")' = Cardinality(V("keep"))
    BY <2>5, <1>c DEF InState
  <2>7. A3 = V("unfilled") \cup V("keep")
    OBVIOUS
  <2> HIDE DEF P, V, A1, A2, A3
  <2>8. Cardinality(P) = Cardinality(V("buy")) + Cardinality(A1)
    BY <2>1, <2>3, <2>4, Parts
  <2>9. Cardinality(A1) = Cardinality(V("chase")) + Cardinality(A2)
    BY <2>2, <2>3, <2>4, Parts
  <2>10. Cardinality(A2) = Cardinality(V("timeout")) + Cardinality(A3)
    BY <2>2, <2>3, <2>4, Parts
  <2>11. Cardinality(A3) = Cardinality(V("unfilled")) + Cardinality(V("keep"))
    BY <2>3, <2>4, <2>7, Parts
  <2>12. /\ Cardinality(V("buy")) \in Nat /\ Cardinality(V("chase")) \in Nat /\ Cardinality(V("timeout")) \in Nat
         /\ Cardinality(V("unfilled")) \in Nat /\ Cardinality(V("keep")) \in Nat
    BY <1>f DEF V
  <2> QED BY <2>6, <2>8, <2>9, <2>10, <2>11, <2>12
<1>4. InState("open")' = InState("open") - Cardinality(Sales(board)) + Cardinality(V("buy")) /\ InState("open") \in Nat
  <2> DEFINE Kept == {i \in Slot : pos[i].state = "open" /\ ~ Exits(pos[i], board[i])}
             New == {i \in Slot : pos'[i].state = "open"}
  <2>1. O = Sales(board) \cup Kept /\ Sales(board) \cap Kept = {} /\ V("buy") \cap Kept = {}
    BY DEF Sales, Verdicts
  <2>2. New = V("buy") \cup Kept
    BY <1>d DEF Verdicts
  <2>3. IsFiniteSet(O) /\ IsFiniteSet(New) /\ IsFiniteSet(Kept) /\ Cardinality(Kept) \in Nat /\ Cardinality(O) \in Nat
    <3>1. O \subseteq Slot /\ New \subseteq Slot /\ Kept \subseteq Slot
      OBVIOUS
    <3> HIDE DEF O, New, Kept
    <3> QED BY <1>a, <3>1, SlotsFinite
  <2>4. InState("open") = Cardinality(O) /\ InState("open")' = Cardinality(New)
    BY <1>c DEF InState
  <2>5. Cardinality(V("buy")) \in Nat /\ Cardinality(Sales(board)) \in Nat
    BY <1>f
  <2> HIDE DEF O, New, Kept, V
  <2>6. Cardinality(O) = Cardinality(Sales(board)) + Cardinality(Kept)
    BY <2>1, <2>3, Parts
  <2>7. Cardinality(New) = Cardinality(V("buy")) + Cardinality(Kept)
    BY <2>1, <2>2, <2>3, Parts
  <2> QED BY <2>3, <2>4, <2>5, <2>6, <2>7
<1>5. SignalsAccounted'
  <2>1. /\ stats'.opened = stats.opened + Cardinality(V("buy")) /\ stats'.closed = stats.closed + Cardinality(Sales(board))
        /\ stats'.chase = stats.chase + Cardinality(V("chase")) /\ stats'.timeout = stats.timeout + Cardinality(V("timeout"))
        /\ stats'.signals = stats.signals /\ stats'.dup = stats.dup /\ stats'.risk = stats.risk
        /\ stats'.capacity = stats.capacity /\ unfilled' = unfilled + Cardinality(V("unfilled"))
    BY <1>a, <1>b, ZeroFields DEF TypeOK, Fieldset
  <2>2. /\ stats.signals \in Nat /\ stats.opened \in Nat /\ stats.closed \in Nat /\ stats.dup \in Nat
        /\ stats.risk \in Nat /\ stats.capacity \in Nat /\ stats.chase \in Nat /\ stats.timeout \in Nat
        /\ unfilled \in Nat
    BY <1>a, CountersAreNat DEF TypeOK
  <2>3. /\ Cardinality(V("buy")) \in Nat /\ Cardinality(V("chase")) \in Nat /\ Cardinality(V("timeout")) \in Nat
        /\ Cardinality(V("unfilled")) \in Nat /\ Cardinality(V("keep")) \in Nat /\ Cardinality(Sales(board)) \in Nat
    BY <1>f
  <2> HIDE DEF V
  <2> QED BY <1>a, <1>3, <1>4, <2>1, <2>2, <2>3 DEF SignalsAccounted
<1> QED BY <1>1, <1>2, <1>5 DEF TradesAddUp

LEMMA CloseAllKeeps ==
  ASSUME TradesAddUp, NEW board \in Boards, CloseAll(board)
  PROVE  TradesAddUp'
<1> DEFINE P == {i \in Slot : pos[i].state = "pending"}
           O == {i \in Slot : pos[i].state = "open"}
<1>a. TypeOK /\ OnePerTicker /\ SignalsAccounted
  BY DEF TradesAddUp
<1>b. /\ pos' = [i \in Slot |-> Free]
      /\ dayRealized' = dayRealized + Proceeds(O, board)
      /\ stats' = [stats EXCEPT !.closed = @ + Cardinality(O)]
      /\ unfilled' = unfilled + Cardinality(P)
      /\ stopped' = TRUE /\ UNCHANGED <<max_open, minute, midnight>>
  BY DEF CloseAll
<1>c. pos \in [Slot -> Position] /\ Slot' = Slot
  BY <1>a, <1>b DEF TypeOK, Slot
<1>d. Cardinality(P) \in Nat /\ Cardinality(O) \in Nat /\ IsFiniteSet(O)
  <2>1. P \subseteq Slot /\ O \subseteq Slot
    OBVIOUS
  <2> HIDE DEF P, O
  <2> QED BY <1>a, <2>1, SlotsFinite
<1>e. \A i \in Slot : pos'[i].state = "free" /\ pos'[i] \in Position
  BY <1>b, FreeIsPosition
<1>1. TypeOK'
  <2>1. Proceeds(O, board) \in Int
    <3>1. PICK S : S = O
      OBVIOUS
    <3>2. ASSUME NEW i \in S PROVE Pnl(pos[i], board[i]) \in Int
      <4>1. i \in Slot /\ Active(pos[i])
        BY <3>1 DEF Active
      <4>2. pos[i] \in Position /\ board[i] \in Snapshot
        BY <4>1, <1>c DEF Boards
      <4> QED BY <4>2, PnlInt
    <3> HIDE DEF O
    <3> QED BY <1>d, <3>1, <3>2, ProceedsInt
  <2> HIDE DEF O, P
  <2>2. dayRealized' \in Int /\ unfilled' \in Nat
    BY <1>a, <1>b, <1>d, <2>1 DEF TypeOK
  <2>3. stats' \in [DOMAIN Zero -> Nat]
    <3>1. PICK n : n = stats.closed + Cardinality(O)
      OBVIOUS
    <3>2. n \in Nat /\ stats \in [Fieldset -> Nat]
      BY <1>a, <1>d, <3>1, CountersAreNat, ZeroFields DEF TypeOK
    <3> QED BY <1>b, <3>1, <3>2, ZeroFields DEF Fieldset
  <2>4. pos' \in [Slot -> Position] /\ stopped' \in BOOLEAN
    BY <1>b, <1>e
  <2> QED BY <1>a, <1>b, <1>c, <2>2, <2>3, <2>4 DEF TypeOK
<1>2. OnePerTicker'
  BY <1>c, <1>e DEF OnePerTicker, Active
<1>3. InState("pending")' = 0 /\ InState("open")' = 0
  <2>1. {i \in Slot : pos'[i].state = "pending"} = {} /\ {i \in Slot : pos'[i].state = "open"} = {}
    BY <1>e
  <2> QED BY <1>c, <2>1, FS_EmptySet DEF InState
<1>4. InState("pending") = Cardinality(P) /\ InState("open") = Cardinality(O)
  BY DEF InState
<1>5. SignalsAccounted'
  <2> HIDE DEF P, O
  <2>1. /\ stats'.closed = stats.closed + Cardinality(O)
        /\ stats'.signals = stats.signals /\ stats'.opened = stats.opened
        /\ stats'.chase = stats.chase /\ stats'.timeout = stats.timeout
        /\ stats'.dup = stats.dup /\ stats'.risk = stats.risk /\ stats'.capacity = stats.capacity
    BY <1>a, <1>b, ZeroFields DEF TypeOK, Fieldset
  <2>2. /\ stats.signals \in Nat /\ stats.opened \in Nat /\ stats.closed \in Nat /\ stats.dup \in Nat
        /\ stats.risk \in Nat /\ stats.capacity \in Nat /\ stats.chase \in Nat /\ stats.timeout \in Nat
        /\ unfilled \in Nat
    BY <1>a, CountersAreNat DEF TypeOK
  <2> QED BY <1>a, <1>b, <1>d, <1>3, <1>4, <2>1, <2>2 DEF SignalsAccounted
<1> QED BY <1>1, <1>2, <1>5 DEF TradesAddUp

LEMMA OlderIsPosition ==
  ASSUME NEW p \in Position
  PROVE  Older(p) \in Position /\ Older(p).state = p.state /\ Older(p).sym = p.sym
<1>a. FieldsOf(p)
  BY Fields
<1>1. CASE p.state = "free"
  BY <1>1 DEF Older
<1>2. CASE p.state = "pending" /\ p.wait > 0
  <2>1. p.wait - 1 \in 0 .. Latency
    BY <1>a, <1>2, PaperAssumption DEF FieldsOf
  <2>2. Older(p) = [p EXCEPT !.wait = p.wait - 1]
    BY <1>2 DEF Older
  <2> QED BY <2>1, <2>2 DEF Position
<1>3. CASE p.state = "pending" /\ ~ (p.wait > 0)
  <2>1. Min1(p.late + 1, EntryTimeout + 1) \in 0 .. EntryTimeout + 1
    BY <1>a, PaperAssumption DEF FieldsOf, Min1
  <2>2. Older(p) = [p EXCEPT !.late = Min1(p.late + 1, EntryTimeout + 1)]
    BY <1>3 DEF Older
  <2> QED BY <2>1, <2>2 DEF Position
<1>4. CASE p.state = "open"
  <2>1. Min1(p.held + 1, MaxHold) \in 0 .. MaxHold
    BY <1>a, PaperAssumption DEF FieldsOf, Min1
  <2>2. Older(p) = [p EXCEPT !.held = Min1(p.held + 1, MaxHold)]
    BY <1>4 DEF Older
  <2> QED BY <2>1, <2>2 DEF Position
<1> QED BY <1>1, <1>2, <1>3, <1>4, <1>a DEF FieldsOf

\* Any step that keeps the counters, and of every position its state and ticker.
LEMMA SameBooks ==
  ASSUME TradesAddUp, pos' \in [Slot -> Position], UNCHANGED <<max_open, stats, unfilled>>, TypeOK',
         \A i \in Slot : pos'[i].state = pos[i].state /\ pos'[i].sym = pos[i].sym
  PROVE  TradesAddUp'
<1>1. Slot' = Slot
  BY DEF Slot
<1>2. OnePerTicker'
  BY <1>1 DEF TradesAddUp, OnePerTicker, Active
<1>3. InState("pending")' = InState("pending") /\ InState("open")' = InState("open")
  <2>1. /\ {i \in Slot : pos'[i].state = "pending"} = {i \in Slot : pos[i].state = "pending"}
        /\ {i \in Slot : pos'[i].state = "open"} = {i \in Slot : pos[i].state = "open"}
    OBVIOUS
  <2> QED BY <1>1, <2>1 DEF InState
<1>4. SignalsAccounted'
  BY <1>3 DEF TradesAddUp, SignalsAccounted
<1> QED BY <1>2, <1>4 DEF TradesAddUp

LEMMA ClockKeeps ==
  ASSUME TradesAddUp, Clock
  PROVE  TradesAddUp'
<1>a. TypeOK /\ pos \in [Slot -> Position] /\ minute \in 0 .. DayLength - 1
  BY DEF TradesAddUp, TypeOK
<1>b. /\ pos' = [i \in Slot |-> Older(pos[i])] /\ minute' = (minute + 1) % DayLength
      /\ midnight' = (midnight \/ minute + 1 = DayLength)
      /\ UNCHANGED <<max_open, dayRealized, stats, stopped, unfilled>>
  BY DEF Clock
<1>1. ASSUME NEW i \in Slot
      PROVE  pos'[i] \in Position /\ pos'[i].state = pos[i].state /\ pos'[i].sym = pos[i].sym
  BY <1>a, <1>b, OlderIsPosition
<1>2. pos' \in [Slot -> Position] /\ Slot' = Slot
  BY <1>1, <1>b DEF Slot
<1>3. minute' \in 0 .. DayLength - 1
  <2>1. minute + 1 \in Nat /\ DayLength \in Nat /\ DayLength > 0
    BY <1>a, PaperAssumption
  <2> QED BY <1>b, <2>1
<1>4. midnight' \in BOOLEAN
  BY <1>b
<1>5. TypeOK'
  BY <1>a, <1>b, <1>2, <1>3, <1>4 DEF TypeOK
<1> QED BY <1>1, <1>2, <1>5, <1>b, SameBooks

-----------------------------------------------------------------------------
\* The trader's books: one position per ticker, and every signal is an order, a
\* trade or a rejection that exactly one counter shows, whatever the prices,
\* the halts and the order of signals, evaluations and shutdown (paper.cpp:45,
\* 94).
THEOREM BooksAddUp == Spec => []TradesAddUp
<1>1. TradesAddUp /\ [Next]_vars => TradesAddUp'
  <2> SUFFICES ASSUME TradesAddUp, [Next]_vars PROVE TradesAddUp'
    OBVIOUS
  <2>1. ASSUME NEW s \in Sym, RejectDuplicate(s) \/ RejectRisk(s) \/ RejectCapacity(s) PROVE TradesAddUp'
    BY <2>1, RejectKeeps DEF RejectDuplicate, RejectRisk, RejectCapacity
  <2>2. ASSUME NEW s \in Sym, NEW px \in Price, Accept(s, px) PROVE TradesAddUp'
    BY <2>2, AcceptKeeps
  <2>3. CASE Evaluate
    BY <2>3, StepKeeps DEF Evaluate
  <2>4. CASE Shutdown
    BY <2>4, CloseAllKeeps DEF Shutdown
  <2>5. CASE Clock
    BY <2>5, ClockKeeps
  <2>6. CASE UNCHANGED vars
    <3>1. TypeOK' /\ pos' \in [Slot -> Position]
      BY <2>6 DEF vars, TradesAddUp, TypeOK, Slot
    <3> QED BY <2>6, <3>1, SameBooks DEF vars
  <2> QED BY <2>1, <2>2, <2>3, <2>4, <2>5, <2>6 DEF Next, OnSignal
<1> QED BY <1>1, StartAddsUp, PTL DEF Spec
=============================================================================
