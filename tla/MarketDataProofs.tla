-------------------------- MODULE MarketDataProofs --------------------------
(***************************************************************************)
(* The order book, for any stream of messages, stocks and prices: ladders, *)
(* top of book and statistics agree with the order table and the trades    *)
(* printed. The volume baseline, for any tickers, boards and dates: the    *)
(* files tell of the latest sessions, wherever the process dies. The       *)
(* recorder, for any messages, sizes, ring and buffer: what is read back   *)
(* is what was written.                                                    *)
(***************************************************************************)
EXTENDS ItchBook, Baseline, Recorder, FiniteSetTheorems, SequenceTheorems, WellFoundedInduction, TLAPS

-----------------------------------------------------------------------------
(* Totals over finite sets *)

Some(s) == CHOOSE x \in s : TRUE

\* g holds the partial sums of v: what the fold computes for every subset.
PartialSums(g, v, D) ==
  \A s \in D : g[s] = IF s = {} THEN 0 ELSE v[Some(s)] + g[s \ {Some(s)}]

UpTo(S, n) == {s \in SUBSET S : Cardinality(s) <= n}

\* A set of natural numbers has a least one.
LEMMA Least ==
  ASSUME NEW T, T \subseteq Nat, T # {}
  PROVE  \E n \in T : \A k \in T : n <= k
<1>1. PICK n \in T : \A k \in T : ~ (<<k, n>> \in OpToRel(<, Nat))
  BY NatLessThanWellFounded, WFMin
<1>2. \A k \in T : ~ (k < n)
  BY <1>1 DEF OpToRel
<1> QED BY <1>2

LEMMA SomeIn == ASSUME NEW s, s # {} PROVE Some(s) \in s
  BY DEF Some

LEMMA Smaller ==
  ASSUME NEW S, IsFiniteSet(S), NEW s \in SUBSET S, s # {}
  PROVE  /\ Some(s) \in S /\ s \ {Some(s)} \in SUBSET S
         /\ Cardinality(s) \in Nat \ {0} /\ Cardinality(s \ {Some(s)}) = Cardinality(s) - 1
<1>1. IsFiniteSet(s)
  BY FS_Subset
<1>2. Some(s) \in s
  BY SomeIn
<1>3. Cardinality(s) \in Nat /\ Cardinality(s) # 0
  BY <1>1, FS_CardinalityType, FS_EmptySet
<1>4. Cardinality(s \ {Some(s)}) = Cardinality(s) - 1
  BY <1>1, <1>2, FS_RemoveElement
<1> QED BY <1>2, <1>3, <1>4

\* The recursion has a solution, built one cardinality at a time.
LEMMA SumsExist ==
  ASSUME NEW S, IsFiniteSet(S), NEW v \in [S -> Int]
  PROVE  \E g \in [SUBSET S -> Int] : PartialSums(g, v, SUBSET S)
<1> DEFINE Bad == {n \in Nat : ~ \E g \in [UpTo(S, n) -> Int] : PartialSums(g, v, UpTo(S, n))}
<1>0. 0 \notin Bad
  <2>1. UpTo(S, 0) = {{}}
    <3>1. ASSUME NEW s \in UpTo(S, 0) PROVE s = {}
      <4>1. s \in SUBSET S /\ Cardinality(s) <= 0
        BY DEF UpTo
      <4>2. ASSUME s # {} PROVE FALSE
        <5>1. Cardinality(s) \in Nat \ {0}
          BY <4>1, <4>2, Smaller
        <5> QED BY <4>1, <5>1
      <4> QED BY <4>2
    <3>2. {} \in UpTo(S, 0)
      BY FS_EmptySet DEF UpTo
    <3> QED BY <3>1, <3>2
  <2>2. [s \in {{}} |-> 0] \in [UpTo(S, 0) -> Int] /\ PartialSums([s \in {{}} |-> 0], v, UpTo(S, 0))
    BY <2>1 DEF PartialSums
  <2> QED BY <2>2
<1>1. ASSUME NEW n \in Nat, n \notin Bad PROVE n + 1 \notin Bad
  <2>1. PICK g \in [UpTo(S, n) -> Int] : PartialSums(g, v, UpTo(S, n))
    BY <1>1
  <2>2. PICK f : f = [s \in UpTo(S, n + 1) |-> IF s = {} THEN 0 ELSE v[Some(s)] + g[s \ {Some(s)}]]
    OBVIOUS
  <2>3. ASSUME NEW s \in UpTo(S, n + 1), s # {}
        PROVE  s \ {Some(s)} \in UpTo(S, n) /\ Some(s) \in S
    <3>1. s \in SUBSET S /\ Cardinality(s) <= n + 1
      BY DEF UpTo
    <3> QED BY <3>1, <2>3, Smaller DEF UpTo
  <2>4. f \in [UpTo(S, n + 1) -> Int]
    <3>1. ASSUME NEW s \in UpTo(S, n + 1), s # {} PROVE v[Some(s)] + g[s \ {Some(s)}] \in Int
      <4>1. v[Some(s)] \in Int /\ g[s \ {Some(s)}] \in Int
        BY <2>3, <3>1
      <4> QED BY <4>1
    <3> QED BY <2>2, <3>1
  <2>5. ASSUME NEW s \in UpTo(S, n) PROVE f[s] = g[s]
    <3>1. s \in UpTo(S, n + 1)
      <4>1. s \in SUBSET S /\ Cardinality(s) <= n /\ Cardinality(s) \in Nat
        BY FS_Subset, FS_CardinalityType DEF UpTo
      <4> QED BY <4>1 DEF UpTo
    <3> QED BY <3>1, <2>1, <2>2 DEF PartialSums
  <2>6. PartialSums(f, v, UpTo(S, n + 1))
    <3>1. ASSUME NEW s \in UpTo(S, n + 1), s # {} PROVE f[s] = v[Some(s)] + f[s \ {Some(s)}]
      BY <3>1, <2>2, <2>3, <2>5
    <3> QED BY <2>2, <3>1 DEF PartialSums
  <2> QED BY <2>4, <2>6
<1>2. Bad = {}
  <2> SUFFICES ASSUME Bad # {} PROVE FALSE
    OBVIOUS
  <2>1. PICK n \in Bad : \A k \in Bad : n <= k
    <3>1. Bad \subseteq Nat
      OBVIOUS
    <3> HIDE DEF Bad
    <3> QED BY <3>1, Least
  <2>2. n \in Nat /\ n # 0
    BY <1>0
  <2>3. n - 1 \in Nat /\ n - 1 \notin Bad
    BY <2>1, <2>2
  <2>4. (n - 1) + 1 \notin Bad
    BY <1>1, <2>3
  <2> QED BY <2>2, <2>4
<1>3. Cardinality(S) \in Nat /\ UpTo(S, Cardinality(S)) = SUBSET S
  <2>1. Cardinality(S) \in Nat /\ \A s \in SUBSET S : Cardinality(s) <= Cardinality(S)
    BY FS_CardinalityType, FS_Subset
  <2> QED BY <2>1 DEF UpTo
<1>4. \E g \in [UpTo(S, Cardinality(S)) -> Int] : PartialSums(g, v, UpTo(S, Cardinality(S)))
  BY <1>2, <1>3
<1> QED BY <1>3, <1>4

\* In whatever order the elements are taken.
LEMMA AnyFirst ==
  ASSUME NEW S, IsFiniteSet(S), NEW v \in [S -> Int], NEW g \in [SUBSET S -> Int], PartialSums(g, v, SUBSET S),
         NEW t \in SUBSET S, NEW z \in t
  PROVE  g[t] = v[z] + g[t \ {z}]
<1> DEFINE Ok(s) == \A x \in s : g[s] = v[x] + g[s \ {x}]
           Bad == {n \in Nat : \E s \in SUBSET S : Cardinality(s) = n /\ ~ Ok(s)}
<1>1. Bad = {}
  <2> SUFFICES ASSUME Bad # {} PROVE FALSE
    OBVIOUS
  <2>1. PICK n \in Bad : \A k \in Bad : n <= k
    <3>1. Bad \subseteq Nat
      OBVIOUS
    <3> HIDE DEF Bad
    <3> QED BY <3>1, Least
  <2>2. PICK s \in SUBSET S : Cardinality(s) = n /\ ~ Ok(s)
    OBVIOUS
  <2>3. PICK x \in s : g[s] # v[x] + g[s \ {x}]
    BY <2>2
  <2>4. PICK y : y = Some(s)
    OBVIOUS
  <2>5. /\ y \in s /\ s \ {y} \in SUBSET S /\ s \ {x} \in SUBSET S
        /\ n \in Nat /\ IsFiniteSet(s)
        /\ Cardinality(s \ {y}) = n - 1 /\ Cardinality(s \ {x}) = n - 1 /\ n - 1 \in Nat
    <3>1. IsFiniteSet(s) /\ y \in s
      BY <2>3, <2>4, FS_Subset, SomeIn
    <3>2. Cardinality(s \ {y}) = n - 1 /\ Cardinality(s \ {x}) = n - 1
      BY <3>1, <2>2, <2>3, FS_RemoveElement
    <3>3. n # 0 /\ n \in Nat
      BY <3>1, <2>2, FS_EmptySet
    <3> QED BY <3>1, <3>2, <3>3
  <2>6. Ok(s \ {y}) /\ Ok(s \ {x})
    <3>1. n - 1 \notin Bad
      BY <2>1, <2>5
    <3> QED BY <3>1, <2>5
  <2>7. g[s] = v[y] + g[s \ {y}]
    BY <2>4, <2>5 DEF PartialSums
  <2>8. x # y
    BY <2>3, <2>7
  <2>9. g[s \ {y}] = v[x] + g[(s \ {y}) \ {x}] /\ g[s \ {x}] = v[y] + g[(s \ {x}) \ {y}]
    BY <2>3, <2>5, <2>6, <2>8
  <2>10. (s \ {y}) \ {x} = (s \ {x}) \ {y} /\ (s \ {y}) \ {x} \in SUBSET S
    OBVIOUS
  <2>11. PICK r, a, b : r = g[(s \ {y}) \ {x}] /\ a = v[x] /\ b = v[y]
    OBVIOUS
  <2>12. r \in Int /\ a \in Int /\ b \in Int
    BY <2>3, <2>5, <2>10, <2>11
  <2>13. g[s] = b + (a + r) /\ g[s \ {x}] = b + r
    BY <2>7, <2>9, <2>10, <2>11
  <2> QED BY <2>3, <2>11, <2>12, <2>13
<1>2. ASSUME NEW s \in SUBSET S PROVE Ok(s)
  <2>1. Cardinality(s) \in Nat
    BY FS_Subset, FS_CardinalityType
  <2>2. Cardinality(s) \notin Bad
    BY <1>1
  <2> QED BY <2>1, <2>2
<1> QED BY <1>2

\* Two solutions agree everywhere.
LEMMA SumsAgree ==
  ASSUME NEW S, IsFiniteSet(S), NEW v \in [S -> Int], NEW w \in [S -> Int], \A x \in S : v[x] = w[x],
         NEW f, NEW g, PartialSums(f, v, SUBSET S), PartialSums(g, w, SUBSET S)
  PROVE  \A s \in SUBSET S : f[s] = g[s]
<1> DEFINE Bad == {n \in Nat : \E s \in SUBSET S : Cardinality(s) = n /\ f[s] # g[s]}
<1>1. Bad = {}
  <2> SUFFICES ASSUME Bad # {} PROVE FALSE
    OBVIOUS
  <2>1. PICK n \in Bad : \A k \in Bad : n <= k
    <3>1. Bad \subseteq Nat
      OBVIOUS
    <3> HIDE DEF Bad
    <3> QED BY <3>1, Least
  <2>2. PICK s \in SUBSET S : Cardinality(s) = n /\ f[s] # g[s]
    OBVIOUS
  <2>3. s # {}
    <3>1. {} \in SUBSET S
      OBVIOUS
    <3> QED BY <3>1, <2>2 DEF PartialSums
  <2>4. /\ Some(s) \in S /\ s \ {Some(s)} \in SUBSET S
        /\ n \in Nat \ {0} /\ Cardinality(s \ {Some(s)}) = n - 1
    BY <2>2, <2>3, Smaller
  <2>5. n - 1 \in Nat /\ n - 1 \notin Bad
    BY <2>1, <2>4
  <2>6. f[s \ {Some(s)}] = g[s \ {Some(s)}]
    BY <2>4, <2>5
  <2>7. f[s] = v[Some(s)] + f[s \ {Some(s)}] /\ g[s] = w[Some(s)] + g[s \ {Some(s)}]
    BY <2>3 DEF PartialSums
  <2> QED BY <2>2, <2>4, <2>6, <2>7
<1>2. ASSUME NEW s \in SUBSET S PROVE Cardinality(s) \in Nat
  BY FS_Subset, FS_CardinalityType
<1> QED BY <1>1, <1>2

\* Total is the solution at the whole set.
LEMMA TotalIs ==
  ASSUME NEW S, IsFiniteSet(S), NEW v \in [S -> Int]
  PROVE  \E g \in [SUBSET S -> Int] : PartialSums(g, v, SUBSET S) /\ Total(v) = g[S]
<1> DEFINE F(g) == [s \in SUBSET S |-> IF s = {} THEN 0 ELSE v[Some(s)] + g[s \ {Some(s)}]]
           It == CHOOSE g : g = F(g)
<1>1. PICK f \in [SUBSET S -> Int] : PartialSums(f, v, SUBSET S)
  BY SumsExist
<1>2. \E g : g = F(g)
  <2>1. f = [s \in SUBSET S |-> f[s]]
    OBVIOUS
  <2>2. \A s \in SUBSET S : f[s] = IF s = {} THEN 0 ELSE v[Some(s)] + f[s \ {Some(s)}]
    BY <1>1 DEF PartialSums
  <2> QED BY <2>1, <2>2
<1>3. It = F(It)
  BY <1>2
<1>4. Total(v) = It[S]
  <2>1. DOMAIN v = S
    OBVIOUS
  <2> QED BY <2>1 DEF Total, MapThenSumSet, MapThenFoldSet, Some
<1>5. PICK g : g = It
  OBVIOUS
<1>6. PartialSums(g, v, SUBSET S)
  <2>1. g = F(g)
    BY <1>3, <1>5
  <2> QED BY <2>1 DEF PartialSums
<1>7. \A s \in SUBSET S : f[s] = g[s]
  BY <1>1, <1>6, SumsAgree
<1>8. Total(v) = f[S]
  BY <1>4, <1>5, <1>7
<1> QED BY <1>1, <1>8

\* One element set apart.
LEMMA TotalSplit ==
  ASSUME NEW S, IsFiniteSet(S), NEW v \in [S -> Int], NEW x \in S
  PROVE  /\ Total(v) \in Int /\ Total([y \in S \ {x} |-> v[y]]) \in Int
         /\ Total(v) = v[x] + Total([y \in S \ {x} |-> v[y]])
<1> DEFINE R == S \ {x}
           w == [y \in R |-> v[y]]
<1>1. PICK g \in [SUBSET S -> Int] : PartialSums(g, v, SUBSET S) /\ Total(v) = g[S]
  BY TotalIs
<1>2. IsFiniteSet(R) /\ w \in [R -> Int]
  BY FS_Subset
<1>3. PICK h \in [SUBSET R -> Int] : PartialSums(h, w, SUBSET R) /\ Total(w) = h[R]
  <2> HIDE DEF R, w
  <2> QED BY <1>2, TotalIs
<1>4. PartialSums(g, w, SUBSET R)
  <2>1. ASSUME NEW s \in SUBSET R, s # {} PROVE v[Some(s)] = w[Some(s)]
    BY <2>1, SomeIn
  <2>2. \A s \in SUBSET R : s \in SUBSET S
    OBVIOUS
  <2> QED BY <1>1, <2>1, <2>2 DEF PartialSums
<1>5. \A s \in SUBSET R : g[s] = h[s]
  <2> HIDE DEF R, w
  <2> QED BY <1>2, <1>3, <1>4, SumsAgree
<1>6. g[S] = v[x] + g[R]
  BY <1>1, AnyFirst
<1>7. R \in SUBSET R /\ R \in SUBSET S /\ S \in SUBSET S
  OBVIOUS
<1>8. g[R] = Total(w) /\ g[S] \in Int /\ g[R] \in Int
  BY <1>3, <1>5, <1>7
<1> QED BY <1>1, <1>6, <1>8

LEMMA TotalEmpty == ASSUME NEW v, DOMAIN v = {}, v = [x \in {} |-> v[x]] PROVE Total(v) = 0
<1>1. v \in [{} -> Int]
  OBVIOUS
<1>2. PICK g \in [SUBSET {} -> Int] : PartialSums(g, v, SUBSET {}) /\ Total(v) = g[{}]
  BY <1>1, FS_EmptySet, TotalIs
<1> QED BY <1>2 DEF PartialSums

\* An element more.
Grown(S, v, x, T, w) ==
  /\ IsFiniteSet(S) /\ v \in [S -> Int] /\ x \notin S
  /\ T = S \union {x} /\ w \in [T -> Int] /\ \A y \in S : w[y] = v[y]

LEMMA TotalGrown ==
  ASSUME NEW S, NEW v, NEW x, NEW T, NEW w, Grown(S, v, x, T, w)
  PROVE  Total(v) \in Int /\ Total(w) \in Int /\ Total(w) = Total(v) + w[x]
<1>1. IsFiniteSet(T) /\ x \in T /\ T \ {x} = S /\ w \in [T -> Int]
  BY FS_AddElement DEF Grown
<1>2. [y \in T \ {x} |-> w[y]] = v
  BY <1>1 DEF Grown
<1>3. /\ Total(w) \in Int /\ Total([y \in T \ {x} |-> w[y]]) \in Int
      /\ Total(w) = w[x] + Total([y \in T \ {x} |-> w[y]])
  BY <1>1, TotalSplit
<1>4. w[x] \in Int
  BY <1>1
<1> QED BY <1>2, <1>3, <1>4

\* One value changed.
LEMMA TotalChange ==
  ASSUME NEW S, IsFiniteSet(S), NEW v \in [S -> Int], NEW w \in [S -> Int], NEW x \in S,
         \A y \in S \ {x} : w[y] = v[y]
  PROVE  Total(v) \in Int /\ Total(w) \in Int /\ Total(w) = Total(v) + w[x] - v[x]
<1>1. [y \in S \ {x} |-> w[y]] = [y \in S \ {x} |-> v[y]]
  OBVIOUS
<1>2. PICK r : r = Total([y \in S \ {x} |-> v[y]])
  OBVIOUS
<1>3. r \in Int /\ Total(v) = v[x] + r /\ Total(w) = w[x] + r /\ Total(v) \in Int /\ Total(w) \in Int
  <2>1. Total(v) \in Int /\ r \in Int /\ Total(v) = v[x] + r
    BY <1>2, TotalSplit
  <2>2. /\ Total(w) \in Int
        /\ Total(w) = w[x] + Total([y \in S \ {x} |-> w[y]])
    BY TotalSplit
  <2> QED BY <1>1, <1>2, <2>1, <2>2
<1>4. v[x] \in Int /\ w[x] \in Int
  OBVIOUS
<1> QED BY <1>3, <1>4

LEMMA SumsAreNat ==
  ASSUME NEW S, IsFiniteSet(S), NEW v \in [S -> Int], \A x \in S : v[x] \in Nat,
         NEW g \in [SUBSET S -> Int], PartialSums(g, v, SUBSET S)
  PROVE  g[S] \in Nat /\ \A x \in S : v[x] <= g[S]
<1>a. \A s \in SUBSET S : \A x \in s : g[s] = v[x] + g[s \ {x}]
  <2>1. ASSUME NEW s \in SUBSET S, NEW x \in s PROVE g[s] = v[x] + g[s \ {x}]
    BY AnyFirst, SMTT(60)
  <2> QED BY <2>1
<1> DEFINE Bad == {n \in Nat : \E s \in SUBSET S : Cardinality(s) = n /\ ~ (g[s] >= 0)}
<1>2. Bad = {}
  <2> SUFFICES ASSUME Bad # {} PROVE FALSE
    OBVIOUS
  <2>1. PICK n \in Bad : \A k \in Bad : n <= k
    <3>1. Bad \subseteq Nat
      OBVIOUS
    <3> HIDE DEF Bad
    <3> QED BY <3>1, Least
  <2>2. PICK s \in SUBSET S : Cardinality(s) = n /\ ~ (g[s] >= 0)
    OBVIOUS
  <2>3. s # {}
    <3>1. {} \in SUBSET S
      OBVIOUS
    <3>2. g[{}] = 0
      BY <3>1 DEF PartialSums
    <3>3. g[{}] >= 0
      BY <3>2
    <3> QED BY <3>3, <2>2, Zenon
  <2>4. /\ Some(s) \in S /\ Some(s) \in s /\ s \ {Some(s)} \in SUBSET S
        /\ n \in Nat \ {0} /\ Cardinality(s \ {Some(s)}) = n - 1
    BY <2>2, <2>3, Smaller, SomeIn
  <2>5. n - 1 \in Nat /\ n - 1 \notin Bad
    BY <2>1, <2>4
  <2>6. g[s \ {Some(s)}] >= 0 /\ g[s \ {Some(s)}] \in Int /\ v[Some(s)] \in Nat
    BY <2>4, <2>5
  <2>7. g[s] = v[Some(s)] + g[s \ {Some(s)}]
    BY <2>4, <1>a
  <2> QED BY <2>2, <2>6, <2>7
<1>3. ASSUME NEW s \in SUBSET S PROVE g[s] \in Nat
  <2>1. Cardinality(s) \in Nat
    BY FS_Subset, FS_CardinalityType
  <2> QED BY <1>2, <2>1
<1>4. S \in SUBSET S
  OBVIOUS
<1>5. ASSUME NEW x \in S PROVE v[x] <= g[S]
  <2>1. g[S] = v[x] + g[S \ {x}] /\ g[S \ {x}] \in Nat /\ v[x] \in Nat
    BY <1>a, <1>3, <1>4
  <2> QED BY <2>1
<1> QED BY <1>3, <1>4, <1>5

\* A total of natural numbers is one, and no less than any of them.
LEMMA TotalNat ==
  ASSUME NEW S, IsFiniteSet(S), NEW v \in [S -> Nat]
  PROVE  Total(v) \in Nat /\ \A x \in S : v[x] <= Total(v)
<1>0. v \in [S -> Int] /\ \A x \in S : v[x] \in Nat
  OBVIOUS
<1>1. PICK g \in [SUBSET S -> Int] : PartialSums(g, v, SUBSET S) /\ Total(v) = g[S]
  BY <1>0, TotalIs
<1> QED BY <1>0, <1>1, SumsAreNat

-----------------------------------------------------------------------------
(* The price ladder as a function from prices to quantities *)

\* On either side prices are ordered by how good they are.
LEMMA WorseOrders ==
  ASSUME NEW side \in Side
  PROVE  \A p, q, r \in Nat : /\ ~ Worse(side, p, p)
                              /\ Worse(side, p, q) \/ Worse(side, q, p) \/ p = q
                              /\ ~ (Worse(side, p, q) /\ Worse(side, q, p))
                              /\ Worse(side, p, q) /\ Worse(side, q, r) => Worse(side, p, r)
<1>1. CASE side = "B"
  BY <1>1 DEF Worse
<1>2. CASE side = "S"
  BY <1>2 DEF Worse
<1> QED BY <1>1, <1>2 DEF Side

Sorted(side, lv) == \A i, j \in 1 .. Len(lv) : i < j => Worse(side, lv[i].price, lv[j].price)

\* The ladder has the prices where there is a quantity, each once, best last.
Represents(side, lv, q) ==
  /\ lv \in Seq(Level)
  /\ Sorted(side, lv)
  /\ \A i \in 1 .. Len(lv) : lv[i].qty = q[lv[i].price] /\ lv[i].qty # 0
  /\ \A p \in Prices : q[p] # 0 => \E i \in 1 .. Len(lv) : lv[i].price = p

LEMMA LevelAt ==
  ASSUME NEW lv \in Seq(Level), NEW i \in 1 .. Len(lv)
  PROVE  /\ lv[i] \in Level /\ lv[i].price \in Prices /\ lv[i].price \in Nat /\ lv[i].qty \in Nat
         /\ lv[i] = [price |-> lv[i].price, qty |-> lv[i].qty]
<1>1. lv[i] \in Level
  BY ElementOfSeq
<1> QED BY <1>1, BookAssumption DEF Level

\* Binary search finds the first level that is not worse (lower_bound).
LEMMA PositionIs ==
  ASSUME NEW side \in Side, NEW lv \in Seq(Level), Sorted(side, lv), NEW price \in Prices
  PROVE  /\ position(side, lv, price) \in 1 .. Len(lv) + 1
         /\ \A i \in 1 .. Len(lv) : i < position(side, lv, price) <=> Worse(side, lv[i].price, price)
<1> DEFINE n == Len(lv)
           W(i) == Worse(side, lv[i].price, price)
           T == {i \in 1 .. n + 1 : i = n + 1 \/ ~ W(i)}
<1>1. n \in Nat /\ DOMAIN lv = 1 .. n /\ price \in Nat
  BY LenProperties, BookAssumption
<1>2. T \subseteq Nat /\ n + 1 \in T
  BY <1>1
<1>3. PICK k \in T : \A j \in T : k <= j
  <2> HIDE DEF T
  <2> QED BY <1>2, Least
<1>4. k \in 1 .. n + 1 /\ \A i \in 1 .. n : i < k => W(i)
  <2>1. ASSUME NEW i \in 1 .. n, i < k PROVE W(i)
    BY <1>1, <1>3, <2>1
  <2> QED BY <1>1, <1>3, <2>1
<1>5. \A i \in 1 .. n : W(i) => i < k
  <2> SUFFICES ASSUME NEW i \in 1 .. n, W(i), k <= i PROVE FALSE
    BY <1>1, <1>4
  <2>1. k \in 1 .. n /\ ~ W(k)
    BY <1>1, <1>3
  <2>2. k # i /\ k < i
    BY <1>1, <2>1
  <2>3. Worse(side, lv[k].price, lv[i].price)
    BY <2>1, <2>2 DEF Sorted
  <2>4. lv[k].price \in Nat /\ lv[i].price \in Nat
    BY <2>1, LevelAt
  <2> QED BY <2>1, <2>3, <2>4, <1>1, WorseOrders
<1>6. {i \in DOMAIN lv : Worse(side, lv[i].price, price)} = 1 .. k - 1
  <2>1. \A i \in 1 .. n : W(i) <=> i < k
    BY <1>4, <1>5
  <2> QED BY <1>1, <1>4, <2>1
<1>7. Cardinality(1 .. k - 1) = k - 1
  <2>1. k - 1 \in Nat
    BY <1>1, <1>4
  <2> QED BY <2>1, FS_Interval
<1>8. position(side, lv, price) = k
  <2>1. position(side, lv, price) = Cardinality(1 .. k - 1) + 1
    BY <1>6, Zenon DEF position
  <2> QED BY <2>1, <1>1, <1>4, <1>7
<1> QED BY <1>4, <1>5, <1>8

\* InsertAt and RemoveAt, element by element.
LEMMA InsertedAt ==
  ASSUME NEW lv \in Seq(Level), NEW k \in 1 .. Len(lv) + 1, NEW e \in Level
  PROVE  /\ InsertAt(lv, k, e) \in Seq(Level) /\ Len(InsertAt(lv, k, e)) = Len(lv) + 1
         /\ \A j \in 1 .. Len(lv) + 1 : InsertAt(lv, k, e)[j] = IF j < k THEN lv[j] ELSE IF j = k THEN e ELSE lv[j - 1]
<1>1. Len(lv) \in Nat
  OBVIOUS
<1>2. /\ SubSeq(lv, 1, k - 1) \in Seq(Level) /\ Len(SubSeq(lv, 1, k - 1)) = k - 1
      /\ \A j \in 1 .. k - 1 : SubSeq(lv, 1, k - 1)[j] = lv[j]
  BY <1>1
<1>3. /\ SubSeq(lv, k, Len(lv)) \in Seq(Level) /\ Len(SubSeq(lv, k, Len(lv))) = Len(lv) + 1 - k
      /\ \A j \in 1 .. Len(lv) + 1 - k : SubSeq(lv, k, Len(lv))[j] = lv[k + j - 1]
  BY <1>1
<1>4. PICK a, b : a = SubSeq(lv, 1, k - 1) /\ b = SubSeq(lv, k, Len(lv))
  OBVIOUS
<1>5. InsertAt(lv, k, e) = a \o <<e>> \o b
  BY <1>4 DEF InsertAt
<1>6. a \in Seq(Level) /\ b \in Seq(Level) /\ Len(a) = k - 1 /\ Len(b) = Len(lv) + 1 - k
  BY <1>2, <1>3, <1>4
<1>7. PICK c : c = a \o <<e>>
  OBVIOUS
<1>8. c \in Seq(Level) /\ Len(c) = k /\ \A j \in 1 .. k : c[j] = IF j < k THEN lv[j] ELSE e
  <2>1. <<e>> \in Seq(Level) /\ Len(<<e>>) = 1 /\ <<e>>[1] = e
    OBVIOUS
  <2>2. /\ c \in Seq(Level) /\ Len(c) = Len(a) + Len(<<e>>)
        /\ \A j \in 1 .. Len(a) + Len(<<e>>) : c[j] = IF j <= Len(a) THEN a[j] ELSE <<e>>[j - Len(a)]
    BY <1>6, <1>7, <2>1, ConcatProperties
  <2>3. \A j \in 1 .. k : c[j] = IF j <= k - 1 THEN a[j] ELSE <<e>>[j - (k - 1)]
    <3>1. Len(a) + Len(<<e>>) = k /\ Len(a) = k - 1
      BY <1>1, <1>6, <2>1
    <3> QED BY <3>1, <2>2
  <2>4. ASSUME NEW j \in 1 .. k PROVE c[j] = IF j < k THEN lv[j] ELSE e
    <3>1. CASE j < k
      <4>1. c[j] = a[j] /\ j \in 1 .. k - 1
        BY <2>3, <3>1, <1>1
      <4> QED BY <3>1, <4>1, <1>2, <1>4
    <3>2. CASE j = k
      BY <2>1, <2>3, <3>2, <1>1
    <3> QED BY <3>1, <3>2, <1>1
  <2> QED BY <1>1, <1>6, <2>1, <2>2, <2>4
<1>9. /\ c \o b \in Seq(Level) /\ Len(c \o b) = Len(lv) + 1
      /\ \A j \in 1 .. Len(lv) + 1 : (c \o b)[j] = IF j <= k THEN c[j] ELSE b[j - k]
  <2>1. /\ c \o b \in Seq(Level) /\ Len(c \o b) = Len(c) + Len(b)
        /\ \A j \in 1 .. Len(c) + Len(b) : (c \o b)[j] = IF j <= Len(c) THEN c[j] ELSE b[j - Len(c)]
    BY <1>6, <1>8, ConcatProperties
  <2>2. Len(c) + Len(b) = Len(lv) + 1 /\ Len(c) = k
    BY <1>1, <1>6, <1>8
  <2> QED BY <2>1, <2>2
<1>10. ASSUME NEW j \in 1 .. Len(lv) + 1
       PROVE  (c \o b)[j] = IF j < k THEN lv[j] ELSE IF j = k THEN e ELSE lv[j - 1]
  <2>1. j \in Nat /\ k \in Nat /\ (j <= k \/ j > k)
    BY <1>1
  <2>2. CASE j <= k
    <3>1. (c \o b)[j] = c[j] /\ j \in 1 .. k
      BY <1>1, <1>9, <2>2
    <3> QED BY <3>1, <1>8, <2>1, <2>2
  <2>3. CASE j > k
    <3>1. (c \o b)[j] = b[j - k] /\ j - k \in 1 .. Len(lv) + 1 - k
      BY <1>1, <1>9, <2>1, <2>3
    <3>2. b[j - k] = lv[k + (j - k) - 1] /\ k + (j - k) - 1 = j - 1
      BY <3>1, <2>1, <1>3, <1>4
    <3> QED BY <3>1, <3>2, <2>1, <2>3
  <2> QED BY <2>1, <2>2, <2>3
<1> QED BY <1>5, <1>7, <1>9, <1>10

LEMMA RemovedAt ==
  ASSUME NEW lv \in Seq(Level), NEW k \in 1 .. Len(lv)
  PROVE  /\ RemoveAt(lv, k) \in Seq(Level) /\ Len(RemoveAt(lv, k)) = Len(lv) - 1
         /\ \A j \in 1 .. Len(lv) - 1 : RemoveAt(lv, k)[j] = IF j < k THEN lv[j] ELSE lv[j + 1]
<1>1. Len(lv) \in Nat
  OBVIOUS
<1>2. /\ SubSeq(lv, 1, k - 1) \in Seq(Level) /\ Len(SubSeq(lv, 1, k - 1)) = k - 1
      /\ \A j \in 1 .. k - 1 : SubSeq(lv, 1, k - 1)[j] = lv[j]
  BY <1>1
<1>3. /\ SubSeq(lv, k + 1, Len(lv)) \in Seq(Level) /\ Len(SubSeq(lv, k + 1, Len(lv))) = Len(lv) - k
      /\ \A j \in 1 .. Len(lv) - k : SubSeq(lv, k + 1, Len(lv))[j] = lv[k + j]
  BY <1>1
<1>4. PICK a, b : a = SubSeq(lv, 1, k - 1) /\ b = SubSeq(lv, k + 1, Len(lv))
  OBVIOUS
<1>5. RemoveAt(lv, k) = a \o b
  BY <1>4 DEF RemoveAt
<1>6. a \in Seq(Level) /\ b \in Seq(Level) /\ Len(a) = k - 1 /\ Len(b) = Len(lv) - k
  BY <1>2, <1>3, <1>4
<1>7. /\ a \o b \in Seq(Level) /\ Len(a \o b) = Len(lv) - 1
      /\ \A j \in 1 .. Len(lv) - 1 : (a \o b)[j] = IF j <= k - 1 THEN a[j] ELSE b[j - (k - 1)]
  <2>1. /\ a \o b \in Seq(Level) /\ Len(a \o b) = Len(a) + Len(b)
        /\ \A j \in 1 .. Len(a) + Len(b) : (a \o b)[j] = IF j <= Len(a) THEN a[j] ELSE b[j - Len(a)]
    BY <1>6, ConcatProperties
  <2>2. Len(a) + Len(b) = Len(lv) - 1 /\ Len(a) = k - 1
    BY <1>1, <1>6
  <2> QED BY <2>1, <2>2
<1>8. ASSUME NEW j \in 1 .. Len(lv) - 1 PROVE (a \o b)[j] = IF j < k THEN lv[j] ELSE lv[j + 1]
  <2>1. j \in Nat /\ k \in Nat /\ (j < k \/ j >= k)
    BY <1>1
  <2>2. CASE j < k
    <3>1. (a \o b)[j] = a[j] /\ j \in 1 .. k - 1
      BY <1>1, <1>7, <2>1, <2>2
    <3> QED BY <3>1, <1>2, <1>4, <2>2
  <2>3. CASE j >= k
    <3>0. j - (k - 1) \in 1 .. Len(lv) - k
      BY <1>1, <2>1, <2>3
    <3>1. (a \o b)[j] = b[j - (k - 1)] /\ j - (k - 1) \in 1 .. Len(lv) - k
      <4>1. ~(j <= k - 1)
        BY <1>1, <2>1, <2>3
      <4> QED BY <1>7, <3>0, <4>1
    <3>2. b[j - (k - 1)] = lv[k + (j - (k - 1))] /\ k + (j - (k - 1)) = j + 1
      BY <3>1, <2>1, <1>3, <1>4
    <3> QED BY <3>1, <3>2, <2>1, <2>3
  <2> QED BY <2>1, <2>2, <2>3
<1> QED BY <1>5, <1>7, <1>8

\* add(): a level grows or a new one is put in its place.
LEMMA AddRepresents ==
  ASSUME NEW side \in Side, NEW lv, NEW q \in [Prices -> Nat], Represents(side, lv, q),
         NEW price \in Prices, NEW n \in Nat \ {0}
  PROVE  Represents(side, add(side, lv, price, n), [q EXCEPT ![price] = @ + n])
<1> DEFINE k == position(side, lv, price)
           r == add(side, lv, price, n)
           q2 == [q EXCEPT ![price] = @ + n]
<1>1. /\ lv \in Seq(Level) /\ Len(lv) \in Nat /\ Sorted(side, lv)
      /\ k \in 1 .. Len(lv) + 1 /\ k \in Nat /\ price \in Nat
      /\ \A i \in 1 .. Len(lv) : i < k <=> Worse(side, lv[i].price, price)
  <2>1. lv \in Seq(Level) /\ Sorted(side, lv)
    BY DEF Represents
  <2> QED BY <2>1, PositionIs, BookAssumption
<1>2. /\ q2 \in [Prices -> Nat] /\ q2[price] = q[price] + n /\ q2[price] # 0
      /\ \A p \in Prices : p # price => q2[p] = q[p]
  OBVIOUS
<1>3. /\ \A i \in 1 .. Len(lv) : lv[i].qty = q[lv[i].price] /\ lv[i].qty # 0
      /\ \A p \in Prices : q[p] # 0 => \E i \in 1 .. Len(lv) : lv[i].price = p
  BY DEF Represents
<1>4. \A i \in 1 .. Len(lv) : lv[i] \in Level /\ lv[i].price \in Prices /\ lv[i].price \in Nat
  BY <1>1, LevelAt
<1> HIDE DEF k, q2
<1>5. CASE AtLevel(side, lv, price)
  <2>1. k \in 1 .. Len(lv) /\ lv[k].price = price
    BY <1>1, <1>5 DEF AtLevel, k
  <2>2. r = [lv EXCEPT ![k].qty = @ + n]
    BY <1>5 DEF add, k
  <2>3. PICK e : e = [price |-> price, qty |-> lv[k].qty + n]
    OBVIOUS
  <2>4. lv[k] = [price |-> lv[k].price, qty |-> lv[k].qty] /\ lv[k].qty \in Nat
    BY <1>1, <2>1, LevelAt
  <2>5. e \in Level /\ e.price = price /\ e.qty = q2[price]
    BY <1>2, <1>3, <2>1, <2>3, <2>4 DEF Level
  <2>6. r = [lv EXCEPT ![k] = e]
    BY <1>1, <2>1, <2>2, <2>3, <2>4
  <2>7. r \in Seq(Level) /\ Len(r) = Len(lv) /\ r[k] = e /\ \A i \in 1 .. Len(lv) : i # k => r[i] = lv[i]
    BY <1>1, <2>1, <2>5, <2>6
  <2> HIDE DEF r
  <2>8. \A i \in 1 .. Len(lv) : r[i].price = lv[i].price
    BY <2>1, <2>5, <2>7
  <2>9. Sorted(side, r)
    BY <1>1, <2>7, <2>8 DEF Sorted
  <2>10. ASSUME NEW i \in 1 .. Len(r) PROVE r[i].qty = q2[r[i].price] /\ r[i].qty # 0
    <3>1. CASE i = k
      BY <3>1, <2>5, <2>7, <1>2
    <3>2. CASE i # k
      <4>1. lv[i].price # lv[k].price
        <5>1. i < k \/ k < i
          BY <3>2, <2>1, <2>7
        <5> QED BY <5>1, <1>1, <1>4, <2>1, <2>7, WorseOrders DEF Sorted
      <4> QED BY <4>1, <3>2, <2>1, <2>7, <1>2, <1>3, <1>4
    <3> QED BY <3>1, <3>2
  <2>11. ASSUME NEW p \in Prices, q2[p] # 0 PROVE \E i \in 1 .. Len(r) : r[i].price = p
    <3>1. CASE p = price
      BY <3>1, <2>1, <2>5, <2>7
    <3>2. CASE p # price
      <4>1. PICK i \in 1 .. Len(lv) : lv[i].price = p
        BY <3>2, <2>11, <1>2, <1>3
      <4> QED BY <4>1, <2>7, <2>8
    <3> QED BY <3>1, <3>2
  <2> QED BY <2>7, <2>9, <2>10, <2>11 DEF Represents, r, q2
<1>6. CASE ~ AtLevel(side, lv, price)
  <2>1. \A i \in 1 .. Len(lv) : lv[i].price # price
    <3> SUFFICES ASSUME NEW i \in 1 .. Len(lv), lv[i].price = price PROVE FALSE
      OBVIOUS
    <3>1. ~ (i < k)
      BY <1>1, WorseOrders
    <3>2. k \in 1 .. Len(lv) /\ lv[k].price # price
      BY <3>1, <1>1, <1>6 DEF AtLevel, k
    <3>3. k < i /\ Worse(side, lv[k].price, price)
      BY <3>1, <3>2, <1>1 DEF Sorted
    <3> QED BY <3>2, <3>3, <1>1
  <2>2. PICK e : e = [price |-> price, qty |-> n]
    OBVIOUS
  <2>3. e \in Level /\ e.price = price /\ e.qty = n
    BY <2>2 DEF Level
  <2>4. r = InsertAt(lv, k, e)
    BY <1>6, <2>2 DEF add, k
  <2>5. /\ r \in Seq(Level) /\ Len(r) = Len(lv) + 1
        /\ \A j \in 1 .. Len(lv) + 1 : r[j] = IF j < k THEN lv[j] ELSE IF j = k THEN e ELSE lv[j - 1]
    BY <1>1, <2>3, <2>4, InsertedAt
  <2> HIDE DEF r
  <2>6. /\ \A j \in 1 .. Len(r) : j < k => j \in 1 .. Len(lv) /\ r[j] = lv[j]
        /\ k \in 1 .. Len(r) /\ r[k] = e
        /\ \A j \in 1 .. Len(r) : j > k => j - 1 \in 1 .. Len(lv) /\ r[j] = lv[j - 1]
    BY <1>1, <2>5
  <2>7. \A i \in 1 .. Len(lv) : ~ (i < k) => Worse(side, price, lv[i].price)
    BY <1>1, <1>4, <2>1, WorseOrders
  <2>8. ASSUME NEW i \in 1 .. Len(r), NEW j \in 1 .. Len(r), i < j
        PROVE  Worse(side, r[i].price, r[j].price)
    <3>0. i \in Nat /\ j \in Nat /\ Len(r) \in Nat
      BY <2>5
    <3>1. CASE i < k /\ j < k
      BY <3>1, <2>6, <2>8, <1>1 DEF Sorted
    <3>2. CASE i < k /\ j = k
      BY <3>2, <2>3, <2>6, <1>1
    <3>3. CASE i < k /\ j > k
      <4>1. i \in 1 .. Len(lv) /\ j - 1 \in 1 .. Len(lv) /\ i < j - 1 /\ r[i] = lv[i] /\ r[j] = lv[j - 1]
        BY <3>0, <3>3, <2>6, <1>1
      <4> QED BY <4>1, <1>1 DEF Sorted
    <3>4. CASE i = k
      <4>1. j - 1 \in 1 .. Len(lv) /\ ~ (j - 1 < k) /\ r[j] = lv[j - 1] /\ r[i] = e
        BY <3>0, <3>4, <2>6, <2>8, <1>1
      <4> QED BY <4>1, <2>3, <2>7
    <3>5. CASE i > k
      <4>1. i - 1 \in 1 .. Len(lv) /\ j - 1 \in 1 .. Len(lv) /\ i - 1 < j - 1 /\ r[i] = lv[i - 1] /\ r[j] = lv[j - 1]
        BY <3>0, <3>5, <2>6, <2>8, <1>1
      <4> QED BY <4>1, <1>1 DEF Sorted
    <3> QED BY <3>0, <3>1, <3>2, <3>3, <3>4, <3>5, <1>1
  <2>9. q[price] = 0 /\ q2[price] = n
    BY <1>2, <1>3, <2>1
  <2>10. ASSUME NEW j \in 1 .. Len(r) PROVE r[j].qty = q2[r[j].price] /\ r[j].qty # 0
    <3>1. CASE j = k
      BY <3>1, <2>3, <2>6, <2>9
    <3>2. CASE j # k
      <4>1. PICK i \in 1 .. Len(lv) : r[j] = lv[i]
        BY <3>2, <2>5, <2>6, <1>1
      <4> QED BY <4>1, <2>1, <1>2, <1>3, <1>4
    <3> QED BY <3>1, <3>2
  <2>11. ASSUME NEW p \in Prices, q2[p] # 0 PROVE \E i \in 1 .. Len(r) : r[i].price = p
    <3>1. CASE p = price
      <4>1. k \in 1 .. Len(r) /\ r[k] = e
        BY <1>1, <2>5
      <4> QED BY <3>1, <4>1, <2>3
    <3>2. CASE p # price
      <4>1. PICK i \in 1 .. Len(lv) : lv[i].price = p
        BY <3>2, <2>11, <1>2, <1>3
      <4>2. CASE i < k
        <5>1. i \in 1 .. Len(r) /\ r[i] = lv[i]
          BY <4>2, <1>1, <2>5
        <5> QED BY <5>1, <4>1
      <4>3. CASE ~ (i < k)
        <5>1. i + 1 \in 1 .. Len(r) /\ r[i + 1] = lv[i]
          BY <4>3, <1>1, <2>5
        <5> QED BY <5>1, <4>1
      <4> QED BY <4>2, <4>3
    <3> QED BY <3>1, <3>2
  <2>12. Sorted(side, r)
    BY <2>8 DEF Sorted
  <2> QED BY <2>5, <2>10, <2>11, <2>12 DEF Represents, r, q2
<1> QED BY <1>5, <1>6

\* remove(): a level shrinks, and disappears with its last share.
LEMMA RemoveRepresents ==
  ASSUME NEW side \in Side, NEW lv, NEW q \in [Prices -> Nat], Represents(side, lv, q),
         NEW price \in Prices, NEW n \in Nat \ {0}, n <= q[price]
  PROVE  Represents(side, remove(side, lv, price, n), [q EXCEPT ![price] = @ - n])
<1> DEFINE k == position(side, lv, price)
           r == remove(side, lv, price, n)
           q2 == [q EXCEPT ![price] = @ - n]
<1>1. /\ lv \in Seq(Level) /\ Len(lv) \in Nat /\ Sorted(side, lv)
      /\ k \in 1 .. Len(lv) + 1 /\ k \in Nat /\ price \in Nat
      /\ \A i \in 1 .. Len(lv) : i < k <=> Worse(side, lv[i].price, price)
  <2>1. lv \in Seq(Level) /\ Sorted(side, lv)
    BY DEF Represents
  <2> QED BY <2>1, PositionIs, BookAssumption
<1>2. /\ q2 \in [Prices -> Nat] /\ q2[price] = q[price] - n /\ q[price] \in Nat
      /\ \A p \in Prices : p # price => q2[p] = q[p]
  <2>1. q[price] \in Nat /\ q[price] - n \in Nat
    OBVIOUS
  <2> QED BY <2>1
<1>3. /\ \A i \in 1 .. Len(lv) : lv[i].qty = q[lv[i].price] /\ lv[i].qty # 0
      /\ \A p \in Prices : q[p] # 0 => \E i \in 1 .. Len(lv) : lv[i].price = p
  BY DEF Represents
<1>4. \A i \in 1 .. Len(lv) : lv[i] \in Level /\ lv[i].price \in Prices /\ lv[i].price \in Nat
  BY <1>1, LevelAt
<1> HIDE DEF k, q2
<1>5. k \in 1 .. Len(lv) /\ lv[k].price = price /\ AtLevel(side, lv, price)
  <2>1. PICK i \in 1 .. Len(lv) : lv[i].price = price
    BY <1>2, <1>3
  <2>2. ~ (i < k)
    BY <2>1, <1>1, WorseOrders
  <2>3. ~ (k < i)
    <3> SUFFICES ASSUME k < i PROVE FALSE
      OBVIOUS
    <3>1. k \in 1 .. Len(lv) /\ Worse(side, lv[k].price, lv[i].price)
      BY <1>1 DEF Sorted
    <3> QED BY <3>1, <2>1, <1>1
  <2>4. i = k
    BY <2>2, <2>3, <1>1
  <2> QED BY <2>1, <2>4, <1>1 DEF AtLevel, k
<1>6. lv[k].qty = q[price] /\ lv[k] = [price |-> price, qty |-> q[price]]
  BY <1>1, <1>3, <1>5, LevelAt
<1>7. \A i \in 1 .. Len(lv) : i # k => lv[i].price # price
  <2> SUFFICES ASSUME NEW i \in 1 .. Len(lv), i # k, lv[i].price = price PROVE FALSE
    OBVIOUS
  <2>1. i < k \/ k < i
    BY <1>1
  <2> QED BY <2>1, <1>1, <1>5, WorseOrders DEF Sorted
<1>8. CASE n >= lv[k].qty
  <2>1. q2[price] = 0
    BY <1>2, <1>6, <1>8
  <2>2. r = RemoveAt(lv, k)
    BY <1>5, <1>8 DEF remove, k
  <2>3. /\ r \in Seq(Level) /\ Len(r) = Len(lv) - 1
        /\ \A j \in 1 .. Len(lv) - 1 : r[j] = IF j < k THEN lv[j] ELSE lv[j + 1]
    BY <1>1, <1>5, <2>2, RemovedAt
  <2> HIDE DEF r
  <2>4. /\ \A j \in 1 .. Len(r) : j < k => j \in 1 .. Len(lv) /\ j # k /\ r[j] = lv[j]
        /\ \A j \in 1 .. Len(r) : ~ (j < k) => j + 1 \in 1 .. Len(lv) /\ j + 1 # k /\ r[j] = lv[j + 1]
    <3>1. ASSUME NEW j \in 1 .. Len(r), j < k PROVE j \in 1 .. Len(lv) /\ j # k /\ r[j] = lv[j]
      <4>1. j \in 1 .. Len(lv) - 1 /\ j \in Nat
        BY <1>1, <2>3
      <4>2. r[j] = lv[j]
        BY <2>3, <3>1, <4>1
      <4> QED BY <3>1, <4>1, <4>2, <1>1
    <3>2. ASSUME NEW j \in 1 .. Len(r), ~ (j < k) PROVE j + 1 \in 1 .. Len(lv) /\ j + 1 # k /\ r[j] = lv[j + 1]
      <4>1. j \in 1 .. Len(lv) - 1 /\ j \in Nat
        BY <1>1, <2>3
      <4> QED BY <4>1, <1>1, <1>5, <2>3, <3>2
    <3> QED BY <3>1, <3>2
  <2>5. ASSUME NEW i \in 1 .. Len(r), NEW j \in 1 .. Len(r), i < j
        PROVE  Worse(side, r[i].price, r[j].price)
    <3>0. i \in Nat /\ j \in Nat
      BY <2>3
    <3>1. CASE i < k /\ j < k
      BY <3>1, <2>4, <2>5, <1>1 DEF Sorted
    <3>2. CASE i < k /\ ~ (j < k)
      <4>1. i \in 1 .. Len(lv) /\ j + 1 \in 1 .. Len(lv) /\ i < j + 1 /\ r[i] = lv[i] /\ r[j] = lv[j + 1]
        BY <3>0, <3>2, <2>4, <2>5, <1>1
      <4> QED BY <4>1, <1>1 DEF Sorted
    <3>3. CASE ~ (i < k) /\ ~ (j < k)
      <4>1. i + 1 \in 1 .. Len(lv) /\ j + 1 \in 1 .. Len(lv) /\ i + 1 < j + 1 /\ r[i] = lv[i + 1] /\ r[j] = lv[j + 1]
        BY <3>0, <3>3, <2>4, <2>5
      <4> QED BY <4>1, <1>1 DEF Sorted
    <3>4. ~ (~ (i < k) /\ j < k)
      BY <3>0, <2>5, <1>1
    <3> QED BY <3>1, <3>2, <3>3, <3>4
  <2>6. ASSUME NEW j \in 1 .. Len(r) PROVE r[j].qty = q2[r[j].price] /\ r[j].qty # 0
    <3>1. PICK i \in 1 .. Len(lv) : i # k /\ r[j] = lv[i]
      BY <2>4
    <3> QED BY <3>1, <1>2, <1>3, <1>4, <1>7
  <2>7. ASSUME NEW p \in Prices, q2[p] # 0 PROVE \E i \in 1 .. Len(r) : r[i].price = p
    <3>1. p # price /\ q[p] # 0
      BY <2>1, <2>7, <1>2
    <3>2. PICK i \in 1 .. Len(lv) : lv[i].price = p
      BY <3>1, <1>3
    <3>3. i # k
      BY <3>1, <3>2, <1>5
    <3>4. CASE i < k
      <4>1. i \in 1 .. Len(r) /\ r[i] = lv[i]
        BY <3>4, <1>1, <1>5, <2>3
      <4> QED BY <4>1, <3>2
    <3>5. CASE ~ (i < k)
      <4>1. i - 1 \in 1 .. Len(r) /\ ~ (i - 1 < k) /\ (i - 1) + 1 = i
        BY <3>3, <3>5, <1>1, <1>5, <2>3
      <4>2. r[i - 1] = lv[i]
        BY <4>1, <2>4
      <4> QED BY <4>1, <4>2, <3>2
    <3> QED BY <3>4, <3>5
  <2>8. Sorted(side, r)
    BY <2>5 DEF Sorted
  <2> QED BY <2>3, <2>6, <2>7, <2>8 DEF Represents, r, q2
<1>9. CASE ~ (n >= lv[k].qty)
  <2>1. r = [lv EXCEPT ![k].qty = @ - n]
    BY <1>5, <1>9 DEF remove, k
  <2>2. PICK e : e = [price |-> price, qty |-> q[price] - n]
    OBVIOUS
  <2>3. e \in Level /\ e.price = price /\ e.qty = q2[price] /\ e.qty # 0
    BY <1>2, <1>6, <1>9, <2>2 DEF Level
  <2>4. r = [lv EXCEPT ![k] = e]
    BY <1>1, <1>5, <1>6, <2>1, <2>2
  <2>5. r \in Seq(Level) /\ Len(r) = Len(lv) /\ r[k] = e /\ \A i \in 1 .. Len(lv) : i # k => r[i] = lv[i]
    BY <1>1, <1>5, <2>3, <2>4
  <2> HIDE DEF r
  <2>6. \A i \in 1 .. Len(lv) : r[i].price = lv[i].price
    BY <1>5, <2>3, <2>5
  <2>7. Sorted(side, r)
    BY <1>1, <2>5, <2>6 DEF Sorted
  <2>8. ASSUME NEW i \in 1 .. Len(r) PROVE r[i].qty = q2[r[i].price] /\ r[i].qty # 0
    <3>1. CASE i = k
      BY <3>1, <2>3, <2>5
    <3>2. CASE i # k
      BY <3>2, <1>2, <1>3, <1>4, <1>7, <2>5
    <3> QED BY <3>1, <3>2
  <2>9. ASSUME NEW p \in Prices, q2[p] # 0 PROVE \E i \in 1 .. Len(r) : r[i].price = p
    <3>1. q[p] # 0
      BY <2>9, <1>2
    <3>2. PICK i \in 1 .. Len(lv) : lv[i].price = p
      BY <3>1, <1>3
    <3> QED BY <3>2, <2>5, <2>6
  <2> QED BY <2>5, <2>7, <2>8, <2>9 DEF Represents, r, q2
<1> QED BY <1>8, <1>9

\* The last level is the best price there is.
LEMMA BestIs ==
  ASSUME NEW side \in Side, NEW lv, NEW q \in [Prices -> Nat], Represents(side, lv, q)
  PROVE  LET b == Best(lv) IN
         /\ b \in [price : Nat, qty : Nat]
         /\ (\A p \in Prices : q[p] = 0) => b.price = 0 /\ b.qty = 0
         /\ (\E p \in Prices : q[p] # 0) =>
              /\ b.price \in Prices /\ b.qty = q[b.price] /\ q[b.price] # 0
              /\ \A p \in Prices : q[p] # 0 => p = b.price \/ Worse(side, p, b.price)
<1>1. /\ lv \in Seq(Level) /\ Len(lv) \in Nat /\ Sorted(side, lv)
      /\ \A i \in 1 .. Len(lv) : lv[i].qty = q[lv[i].price] /\ lv[i].qty # 0
      /\ \A p \in Prices : q[p] # 0 => \E i \in 1 .. Len(lv) : lv[i].price = p
  BY DEF Represents
<1>2. \A i \in 1 .. Len(lv) : lv[i] \in Level /\ lv[i].price \in Prices /\ lv[i].price \in Nat
  BY <1>1, LevelAt
<1>3. CASE lv = <<>>
  <2>1. Best(lv) = [price |-> 0, qty |-> 0] /\ Len(lv) = 0
    BY <1>3 DEF Best
  <2>2. ~ \E p \in Prices : q[p] # 0
    BY <2>1, <1>1
  <2> QED BY <2>1, <2>2
<1>4. CASE lv # <<>>
  <2>1. Len(lv) \in 1 .. Len(lv)
    BY <1>1, <1>4
  <2>2. Best(lv) = lv[Len(lv)]
    BY <1>4 DEF Best, Last
  <2>3. PICK b : b = Best(lv)
    OBVIOUS
  <2>4. b \in Level /\ b.price \in Prices /\ b.price \in Nat /\ b.qty = q[b.price] /\ b.qty # 0
    BY <1>1, <1>2, <2>1, <2>2, <2>3
  <2>5. b \in [price : Nat, qty : Nat]
    BY <2>4, BookAssumption DEF Level
  <2>6. ASSUME NEW p \in Prices, q[p] # 0 PROVE p = b.price \/ Worse(side, p, b.price)
    <3>1. PICK i \in 1 .. Len(lv) : lv[i].price = p
      BY <1>1, <2>6
    <3>2. CASE i = Len(lv)
      BY <3>1, <3>2, <2>2, <2>3
    <3>3. CASE i < Len(lv)
      BY <3>1, <3>3, <1>1, <2>1, <2>2, <2>3 DEF Sorted
    <3> QED BY <3>2, <3>3, <1>1
  <2> QED BY <2>3, <2>4, <2>5, <2>6
<1> QED BY <1>3, <1>4

-----------------------------------------------------------------------------
(* The shares of the live orders at each price *)

LiveIn(os, ls, s, side, p) ==
  {r \in DOMAIN os : ls[os[r].locate] = s /\ os[r].side = side /\ os[r].price = p}

RestIn(os, ls, s, side) == [p \in Prices |-> Total([r \in LiveIn(os, ls, s, side, p) |-> os[r].shares])]

Table(os) == IsFiniteSet(DOMAIN os) /\ os \in [DOMAIN os -> Order]

\* What an order adds to, or takes from, the side it is on.
Plus(q, o, s, side, ls) == IF ls[o.locate] = s /\ o.side = side THEN [q EXCEPT ![o.price] = @ + o.shares] ELSE q
Minus(q, o, s, side, ls, n) == IF ls[o.locate] = s /\ o.side = side THEN [q EXCEPT ![o.price] = @ - n] ELSE q

LEMMA OrderFields ==
  ASSUME NEW o \in Order
  PROVE  /\ o.price \in Prices /\ o.price \in Nat /\ o.shares \in 1 .. MaxShares /\ o.shares \in Nat \ {0}
         /\ o.locate \in Locate /\ o.side \in Side
         /\ o = [price |-> o.price, shares |-> o.shares, locate |-> o.locate, side |-> o.side]
<1>1. o = [price |-> o.price, shares |-> o.shares, locate |-> o.locate, side |-> o.side]
  BY DEF Order
<1>2. o.price \in Prices /\ o.shares \in 1 .. MaxShares /\ o.locate \in Locate /\ o.side \in Side
  BY DEF Order
<1>3. o.price \in Nat /\ o.shares \in Nat \ {0}
  <2>1. PICK p, n : p = o.price /\ n = o.shares
    OBVIOUS
  <2>2. p \in Prices /\ n \in 1 .. MaxShares /\ Prices \subseteq Nat /\ MaxShares \in Nat
    BY <1>2, <2>1, BookAssumption
  <2>3. p \in Nat /\ n \in Nat \ {0}
    BY <2>2
  <2> QED BY <2>1, <2>3
<1> QED BY <1>1, <1>2, <1>3

LEMMA RestType ==
  ASSUME NEW os, Table(os), NEW ls, NEW s, NEW side
  PROVE  /\ RestIn(os, ls, s, side) \in [Prices -> Nat]
         /\ \A p \in Prices : RestIn(os, ls, s, side)[p] # 0 <=> LiveIn(os, ls, s, side, p) # {}
         /\ \A p \in Prices : \A r \in LiveIn(os, ls, s, side, p) : os[r].shares <= RestIn(os, ls, s, side)[p]
<1>1. ASSUME NEW p \in Prices
      PROVE  /\ RestIn(os, ls, s, side)[p] \in Nat
             /\ RestIn(os, ls, s, side)[p] # 0 <=> LiveIn(os, ls, s, side, p) # {}
             /\ \A r \in LiveIn(os, ls, s, side, p) : os[r].shares <= RestIn(os, ls, s, side)[p]
  <2>1. PICK L, v : L = LiveIn(os, ls, s, side, p) /\ v = [r \in L |-> os[r].shares]
    OBVIOUS
  <2>2. RestIn(os, ls, s, side)[p] = Total(v)
    BY <2>1 DEF RestIn
  <2>3. L \subseteq DOMAIN os
    BY <2>1 DEF LiveIn
  <2>4. IsFiniteSet(L) /\ v \in [L -> Nat] /\ \A r \in L : v[r] = os[r].shares /\ v[r] # 0
    <3>1. ASSUME NEW r \in L PROVE os[r].shares \in Nat \ {0}
      <4>1. os[r] \in Order
        BY <2>3 DEF Table
      <4> QED BY <4>1, OrderFields
    <3>2. IsFiniteSet(L)
      BY <2>3, FS_Subset DEF Table
    <3> QED BY <3>1, <3>2, <2>1
  <2>5. Total(v) \in Nat /\ \A r \in L : v[r] <= Total(v)
    BY <2>4, TotalNat
  <2>6. CASE L = {}
    <3>1. DOMAIN v = {} /\ v = [r \in {} |-> v[r]]
      BY <2>1, <2>6
    <3>2. Total(v) = 0
      BY <3>1, TotalEmpty
    <3> QED BY <2>1, <2>2, <2>6, <3>2
  <2>7. CASE L # {}
    <3>1. PICK r \in L : TRUE
      BY <2>7
    <3>2. v[r] \in Nat /\ v[r] # 0 /\ v[r] <= Total(v)
      BY <2>4, <2>5
    <3>3. Total(v) # 0
      BY <2>5, <3>2
    <3> QED BY <2>1, <2>2, <2>4, <2>5, <2>7, <3>3
  <2> QED BY <2>6, <2>7
<1>2. RestIn(os, ls, s, side) = [p \in Prices |-> RestIn(os, ls, s, side)[p]]
  BY DEF RestIn
<1>3. RestIn(os, ls, s, side) \in [Prices -> Nat]
  BY <1>1, <1>2
<1> QED BY <1>1, <1>3

\* An order entered in the table.
Entered(os, ref, o, os2) == os2 = With(os, ref, o)

LEMMA TableAdded ==
  ASSUME NEW os, Table(os), NEW ref, ref \notin DOMAIN os, NEW o \in Order, NEW os2, Entered(os, ref, o, os2)
  PROVE  /\ Table(os2) /\ DOMAIN os2 = DOMAIN os \union {ref} /\ os2[ref] = o
         /\ \A r \in DOMAIN os : os2[r] = os[r]
<1>1. /\ DOMAIN os2 = DOMAIN os \union {ref} /\ os2[ref] = o /\ \A r \in DOMAIN os : os2[r] = os[r]
      /\ os2 = [r \in DOMAIN os \union {ref} |-> os2[r]]
  BY DEF Entered, With
<1>2. IsFiniteSet(DOMAIN os \union {ref})
  BY FS_AddElement DEF Table
<1>3. \A r \in DOMAIN os \union {ref} : os2[r] \in Order
  BY <1>1 DEF Table
<1> QED BY <1>1, <1>2, <1>3 DEF Table

LEMMA RestAdded ==
  ASSUME NEW os, Table(os), NEW ref, ref \notin DOMAIN os, NEW o \in Order, NEW os2, Entered(os, ref, o, os2),
         NEW ls, NEW s, NEW side
  PROVE  RestIn(os2, ls, s, side) = Plus(RestIn(os, ls, s, side), o, s, side, ls)
<1> DEFINE q == RestIn(os, ls, s, side)
           q2 == RestIn(os2, ls, s, side)
           mine == ls[o.locate] = s /\ o.side = side
<1>0. o.price \in Prices /\ o.shares \in Nat
  BY OrderFields
<1>1. /\ Table(os2) /\ DOMAIN os2 = DOMAIN os \union {ref} /\ os2[ref] = o
      /\ \A r \in DOMAIN os : os2[r] = os[r]
  <2>1. Table(os2)
    BY TableAdded
  <2> QED BY <2>1 DEF Entered, With
<1>2. q \in [Prices -> Nat] /\ q2 \in [Prices -> Nat]
  BY <1>1, RestType
<1>3. ASSUME NEW p \in Prices, ~ (mine /\ p = o.price) PROVE q2[p] = q[p]
  <2>1. LiveIn(os2, ls, s, side, p) = LiveIn(os, ls, s, side, p)
    BY <1>1, <1>3 DEF LiveIn
  <2>2. PICK L : L = LiveIn(os, ls, s, side, p)
    OBVIOUS
  <2>3. L \subseteq DOMAIN os
    BY <2>2 DEF LiveIn
  <2>4. [r \in L |-> os2[r].shares] = [r \in L |-> os[r].shares]
    BY <1>1, <2>3
  <2>5. q2[p] = Total([r \in L |-> os2[r].shares]) /\ q[p] = Total([r \in L |-> os[r].shares])
    BY <2>1, <2>2 DEF RestIn
  <2> QED BY <2>4, <2>5
<1>4. ASSUME mine PROVE q2[o.price] = q[o.price] + o.shares
  <2>1. PICK L, L2, v, w : /\ L = LiveIn(os, ls, s, side, o.price) /\ L2 = LiveIn(os2, ls, s, side, o.price)
                           /\ v = [r \in L |-> os[r].shares] /\ w = [r \in L2 |-> os2[r].shares]
    OBVIOUS
  <2>2. L2 = L \union {ref} /\ ref \notin L /\ L \subseteq DOMAIN os
    BY <1>1, <1>4, <2>1 DEF LiveIn
  <2>3. IsFiniteSet(L)
    BY <2>2, FS_Subset DEF Table
  <2>4. v \in [L -> Int]
    <3>1. ASSUME NEW r \in L PROVE os[r].shares \in Int
      <4>1. os[r] \in Order
        BY <2>2 DEF Table
      <4> QED BY <4>1, OrderFields
    <3> QED BY <2>1, <3>1
  <2>5. w \in [L2 -> Int] /\ w[ref] = o.shares /\ \A r \in L : w[r] = v[r]
    <3>1. ASSUME NEW r \in L PROVE w[r] = v[r] /\ w[r] \in Int
      BY <1>1, <2>1, <2>2, <2>4
    <3>2. w[ref] = o.shares /\ w[ref] \in Int
      BY <1>0, <1>1, <2>1, <2>2
    <3> QED BY <2>1, <2>2, <3>1, <3>2
  <2>6. Total(w) = Total(v) + w[ref]
    <3>1. Grown(L, v, ref, L2, w)
      BY <2>2, <2>3, <2>4, <2>5 DEF Grown
    <3> QED BY <3>1, TotalGrown
  <2>7. q2[o.price] = Total(w) /\ q[o.price] = Total(v)
    BY <1>0, <2>1 DEF RestIn
  <2> QED BY <2>5, <2>6, <2>7
<1> HIDE DEF q, q2
<1>5. CASE mine
  <2>1. [q EXCEPT ![o.price] = @ + o.shares] = q2
    BY <1>0, <1>2, <1>3, <1>4, <1>5
  <2> QED BY <1>5, <2>1 DEF Plus, q, q2
<1>6. CASE ~ mine
  <2>1. q = q2
    BY <1>2, <1>3, <1>6
  <2> QED BY <1>6, <2>1 DEF Plus, q, q2
<1> QED BY <1>5, <1>6

\* An order taken out of the table.
LeftOf(os, ref, os2) == os2 = [r \in DOMAIN os \ {ref} |-> os[r]]

LEMMA TableRemoved ==
  ASSUME NEW os, Table(os), NEW ref \in DOMAIN os, NEW os2, LeftOf(os, ref, os2)
  PROVE  Table(os2) /\ os[ref] \in Order /\ Entered(os2, ref, os[ref], os)
<1>1. DOMAIN os2 = DOMAIN os \ {ref} /\ \A r \in DOMAIN os2 : os2[r] = os[r]
  BY DEF LeftOf
<1>2. Table(os2)
  <2>1. IsFiniteSet(DOMAIN os \ {ref})
    BY FS_Subset DEF Table
  <2> QED BY <1>1, <2>1 DEF Table, LeftOf
<1>3. Entered(os2, ref, os[ref], os)
  <2>1. os = [r \in DOMAIN os |-> os[r]]
    BY DEF Table
  <2>2. DOMAIN os = DOMAIN os2 \union {ref}
    BY <1>1
  <2> QED BY <1>1, <2>1, <2>2 DEF Entered, With, LeftOf
<1> QED BY <1>1, <1>2, <1>3 DEF Table

LEMMA RestRemoved ==
  ASSUME NEW os, Table(os), NEW ref \in DOMAIN os, NEW os2, LeftOf(os, ref, os2),
         NEW ls, NEW s, NEW side
  PROVE  RestIn(os2, ls, s, side) = Minus(RestIn(os, ls, s, side), os[ref], s, side, ls, os[ref].shares)
<1>1. Table(os2) /\ ref \notin DOMAIN os2 /\ os[ref] \in Order /\ Entered(os2, ref, os[ref], os)
  BY TableRemoved DEF LeftOf
<1>2. PICK o : o = os[ref]
  OBVIOUS
<1>3. o \in Order /\ o.price \in Prices /\ o.shares \in Nat /\ Entered(os2, ref, o, os)
  BY <1>1, <1>2, OrderFields
<1>4. PICK q, q2 : q = RestIn(os, ls, s, side) /\ q2 = RestIn(os2, ls, s, side)
  OBVIOUS
<1>5. q = Plus(q2, o, s, side, ls)
  <2>1. RestIn(os, ls, s, side) = Plus(RestIn(os2, ls, s, side), o, s, side, ls)
    BY <1>1, <1>3, RestAdded
  <2> QED BY <2>1, <1>4
<1>6. q2 \in [Prices -> Nat]
  BY <1>1, <1>4, RestType
<1>7. q2 = Minus(q, o, s, side, ls, o.shares)
  BY <1>3, <1>5, <1>6 DEF Plus, Minus
<1> QED BY <1>2, <1>4, <1>7

\* An order with fewer shares.
Reduced(os, ref, n, os2) == os2 = [os EXCEPT ![ref].shares = @ - n]

LEMMA RestReduced ==
  ASSUME NEW os, Table(os), NEW ref \in DOMAIN os, NEW n \in Nat \ {0}, n < os[ref].shares,
         NEW os2, Reduced(os, ref, n, os2), NEW ls, NEW s, NEW side
  PROVE  /\ Table(os2) /\ DOMAIN os2 = DOMAIN os
         /\ \A r \in DOMAIN os : os2[r].locate = os[r].locate
         /\ RestIn(os2, ls, s, side) = Minus(RestIn(os, ls, s, side), os[ref], s, side, ls, n)
<1>1. PICK o, o2, mid : /\ o = os[ref] /\ o2 = [o EXCEPT !.shares = @ - n]
                        /\ LeftOf(os, ref, mid)
  BY DEF LeftOf
<1>2. /\ Table(mid) /\ DOMAIN mid = DOMAIN os \ {ref} /\ ref \notin DOMAIN mid /\ o \in Order
      /\ \A r \in DOMAIN mid : mid[r] = os[r]
  <2>1. Table(mid) /\ os[ref] \in Order
    BY <1>1, TableRemoved
  <2> QED BY <1>1, <2>1 DEF LeftOf
<1>3. o.price \in Prices /\ o.shares \in 1 .. MaxShares /\ o.shares \in Nat /\ n < o.shares /\ MaxShares \in Nat
  BY <1>1, <1>2, OrderFields, BookAssumption
<1>4. /\ o2 \in Order /\ o2.price = o.price /\ o2.shares = o.shares - n /\ o2.locate = o.locate /\ o2.side = o.side
  <2>1. PICK m : m = o.shares - n
    OBVIOUS
  <2>2. m \in 1 .. MaxShares
    BY <1>3, <2>1
  <2>3. o2 = [o EXCEPT !.shares = m]
    BY <1>1, <2>1
  <2> QED BY <1>2, <2>1, <2>2, <2>3 DEF Order
<1>5. os2 = [os EXCEPT ![ref] = o2]
  BY <1>1 DEF Reduced
<1>6. Entered(mid, ref, o2, os2)
  <2>1. os = [r \in DOMAIN os |-> os[r]]
    BY DEF Table
  <2>2. os2 = [r \in DOMAIN os |-> IF r = ref THEN o2 ELSE os[r]]
    BY <1>5, <2>1
  <2>3. DOMAIN mid \union {ref} = DOMAIN os
    BY <1>2
  <2> QED BY <1>2, <2>2, <2>3 DEF Entered, With
<1>7. /\ Table(os2) /\ DOMAIN os2 = DOMAIN os /\ os2[ref] = o2 /\ \A r \in DOMAIN mid : os2[r] = mid[r]
  <2>1. Table(os2)
    BY <1>2, <1>4, <1>6, TableAdded
  <2> QED BY <2>1, <1>2, <1>6 DEF Entered, With
<1>8. \A r \in DOMAIN os : os2[r].locate = os[r].locate
  BY <1>1, <1>2, <1>4, <1>7
<1>9. RestIn(os2, ls, s, side) = Minus(RestIn(os, ls, s, side), os[ref], s, side, ls, n)
  <2>1. PICK q, qm, q2 : /\ q = RestIn(os, ls, s, side) /\ qm = RestIn(mid, ls, s, side)
                         /\ q2 = RestIn(os2, ls, s, side)
    OBVIOUS
  <2>2. qm = Minus(q, o, s, side, ls, o.shares)
    BY <1>1, <2>1, RestRemoved
  <2>3. q2 = Plus(qm, o2, s, side, ls)
    BY <1>2, <1>4, <1>6, <2>1, RestAdded
  <2>4. q \in [Prices -> Nat] /\ qm \in [Prices -> Nat]
    BY <1>2, <2>1, RestType
  <2>5. CASE ls[o.locate] = s /\ o.side = side
    <3>1. qm = [q EXCEPT ![o.price] = @ - o.shares] /\ q2 = [qm EXCEPT ![o.price] = @ + (o.shares - n)]
      BY <2>2, <2>3, <2>5, <1>4 DEF Plus, Minus
    <3>2. q2 = [q EXCEPT ![o.price] = @ - n]
      BY <3>1, <2>4, <1>3
    <3> QED BY <3>2, <2>1, <2>5, <1>1 DEF Minus
  <2>6. CASE ~ (ls[o.locate] = s /\ o.side = side)
    <3>1. q2 = q
      BY <2>2, <2>3, <2>6, <1>4 DEF Plus, Minus
    <3> QED BY <3>1, <2>1, <2>6, <1>1 DEF Minus
  <2> QED BY <2>5, <2>6
<1> QED BY <1>7, <1>8, <1>9

-----------------------------------------------------------------------------
(* The minute bars and the statistics of one stock *)

Slots == 0 .. BarRing - 1
Bar == [minute : Nat \union {-1}, high : Nat, low : Nat, close : Nat, volume : Nat]
State == [last : Nat, high : Nat, low : Nat, open : Nat, rth_last : Nat, close : Nat, pm_high : Nat,
          volume : Nat, notional : Nat, trades : Nat, bid : Nat, ask : Nat, bid_sz : Nat, ask_sz : Nat,
          bars : [Slots -> Bar]]

\* A bar is in the slot of its minute, which is not in the future.
Ring(bs, now) == \A j \in Slots : bs[j].minute = -1 \/ (bs[j].minute \in 0 .. now /\ bs[j].minute % BarRing = j)

Since(bs, m) == Total([i \in {j \in DOMAIN bs : bs[j].minute >= m} |-> bs[i].volume])

\* Two minutes of one slot are a ring apart.
LEMMA SameSlot ==
  ASSUME NEW R \in Nat \ {0}, NEW a \in Nat, NEW b \in Nat, a % R = b % R, a < b
  PROVE  a <= b - R
<1>1. PICK x, y, r : x = a \div R /\ y = b \div R /\ r = a % R
  OBVIOUS
<1>2. x \in Int /\ y \in Int /\ r \in Int /\ a = R * x + r /\ b = R * y + r
  BY <1>1
<1>3. PICK d \in Int : d = y - x
  BY <1>2
<1>4. b - a = R * d
  BY <1>2, <1>3
<1>5. d >= 1
  <2>1. CASE d <= 0
    BY <1>4, <2>1
  <2> QED BY <2>1
<1>6. R * d >= R
  BY <1>5
<1> QED BY <1>4, <1>6

LEMMA SlotOf == ASSUME NEW now \in Nat PROVE now % BarRing \in Slots /\ IsFiniteSet(Slots)
<1>1. BarRing \in Nat \ {0} /\ BarRing - 1 \in Nat
  BY BoardAssumption
<1>2. now % BarRing \in 0 .. BarRing - 1
  BY <1>1
<1>3. IsFiniteSet(0 .. BarRing - 1)
  BY <1>1, FS_Interval
<1> QED BY <1>2, <1>3 DEF Slots

\* What a trade does to the bar of its minute.
LEMMA BarAfterIs ==
  ASSUME NEW b \in Bar, NEW px \in Nat, NEW n \in Nat, NEW now \in Nat
  PROVE  /\ BarAfter(b, px, n, now) \in Bar /\ BarAfter(b, px, n, now).minute = now
         /\ BarAfter(b, px, n, now).close = px
         /\ BarAfter(b, px, n, now).volume = IF b.minute = now THEN b.volume + n ELSE n
<1>1. b.volume + n \in Nat /\ Higher(b.high, px) \in Nat /\ Lower(b.low, px) \in Nat
  BY DEF Bar, Higher, Lower
<1>2. CASE b.minute = now
  <2>1. BarAfter(b, px, n, now) = [b EXCEPT !.high = Higher(b.high, px), !.low = Lower(b.low, px), !.close = px,
                                            !.volume = b.volume + n]
    BY <1>2 DEF BarAfter
  <2> QED BY <1>1, <1>2, <2>1 DEF Bar
<1>3. CASE b.minute # now
  BY <1>1, <1>3 DEF BarAfter, Bar
<1> QED BY <1>2, <1>3

\* A trade of n shares now counts in every minute that has come, and the bar
\* it pushes out of the ring in none that the ring still covers.
LEMMA RingAfter ==
  ASSUME NEW bs \in [Slots -> Bar], NEW now \in Nat, Ring(bs, now), NEW px \in Nat, NEW n \in Nat,
         NEW bs2, bs2 = [bs EXCEPT ![now % BarRing] = BarAfter(bs[now % BarRing], px, n, now)]
  PROVE  /\ bs2 \in [Slots -> Bar] /\ Ring(bs2, now)
         /\ bs2[now % BarRing].minute = now /\ bs2[now % BarRing].close = px
         /\ \A m \in Nat : m > now - BarRing => Since(bs2, m) = IF m <= now THEN Since(bs, m) + n ELSE 0
<1>1. PICK k \in Slots : k = now % BarRing
  BY SlotOf
<1>2. PICK b, c : b = bs[k] /\ c = BarAfter(b, px, n, now)
  OBVIOUS
<1>3. b \in Bar /\ c \in Bar /\ c.minute = now /\ c.close = px /\ c.volume = IF b.minute = now THEN b.volume + n ELSE n
  <2>1. b \in Bar
    BY <1>2
  <2>2. /\ BarAfter(b, px, n, now) \in Bar /\ BarAfter(b, px, n, now).minute = now
        /\ BarAfter(b, px, n, now).close = px
        /\ BarAfter(b, px, n, now).volume = IF b.minute = now THEN b.volume + n ELSE n
    BY <2>1, BarAfterIs
  <2> QED BY <1>2, <2>1, <2>2
<1>4. bs2 = [bs EXCEPT ![k] = c]
  BY <1>1, <1>2
<1>5. bs2 \in [Slots -> Bar] /\ bs2[k] = c /\ \A j \in Slots : j # k => bs2[j] = bs[j]
  BY <1>3, <1>4
<1>6. \A j \in Slots : /\ bs[j].minute \in Int /\ bs[j].volume \in Nat /\ bs[j].minute <= now
                       /\ bs2[j].minute \in Int /\ bs2[j].volume \in Nat /\ bs2[j].minute <= now
  <2>1. \A x \in Bar : x.minute \in Int /\ x.volume \in Nat
    BY DEF Bar
  <2>2. \A j \in Slots : bs[j] \in Bar /\ bs2[j] \in Bar
    BY <1>5
  <2>3. \A j \in Slots : bs[j].minute <= now
    BY DEF Ring
  <2> QED BY <2>1, <2>2, <2>3, <1>3, <1>5
<1>7. Ring(bs2, now)
  BY <1>1, <1>3, <1>5 DEF Ring
<1>8. ASSUME NEW m \in Nat, m > now - BarRing PROVE Since(bs2, m) = IF m <= now THEN Since(bs, m) + n ELSE 0
  <2>1. PICK S, T, v, w : /\ S = {j \in Slots : bs[j].minute >= m} /\ T = {j \in Slots : bs2[j].minute >= m}
                          /\ v = [i \in S |-> bs[i].volume] /\ w = [i \in T |-> bs2[i].volume]
    OBVIOUS
  <2>2. Since(bs, m) = Total(v) /\ Since(bs2, m) = Total(w)
    <3>1. DOMAIN bs = Slots /\ DOMAIN bs2 = Slots
      BY <1>5
    <3> QED BY <2>1, <3>1 DEF Since
  <2>3. S \subseteq Slots /\ IsFiniteSet(S)
    BY <2>1, SlotOf, FS_Subset
  <2>4. v \in [S -> Int] /\ w \in [T -> Int] /\ (\A i \in S : v[i] = bs[i].volume) /\ \A i \in T : w[i] = bs2[i].volume
    BY <1>6, <2>1
  <2>5. CASE m > now
    <3>1. T = {}
      BY <1>6, <2>1, <2>5
    <3>2. DOMAIN w = {} /\ w = [i \in {} |-> w[i]]
      BY <2>1, <3>1
    <3>3. Total(w) = 0
      BY <3>2, TotalEmpty
    <3> QED BY <2>2, <2>5, <3>3
  <2>6. CASE m <= now
    <3>1. k \in T /\ \A j \in Slots : j # k => (j \in S <=> j \in T)
      BY <1>3, <1>5, <2>1, <2>6
    <3>2. CASE b.minute = now
      <4>1. S = T /\ k \in S
        BY <1>2, <2>1, <2>6, <3>1, <3>2
      <4>2. w[k] = v[k] + n /\ \A j \in S \ {k} : w[j] = v[j]
        BY <1>2, <1>3, <1>5, <2>3, <2>4, <3>2, <4>1
      <4>3. Total(v) \in Int /\ Total(w) = Total(v) + w[k] - v[k] /\ v[k] \in Int
        BY <2>3, <2>4, <4>1, <4>2, TotalChange
      <4> QED BY <2>2, <2>6, <4>2, <4>3
    <3>3. CASE b.minute # now
      <4>1. k \notin S
        <5> SUFFICES ASSUME k \in S PROVE FALSE
          OBVIOUS
        <5>1. b.minute >= m
          BY <1>2, <2>1
        <5>2. b.minute \in 0 .. now /\ b.minute % BarRing = now % BarRing
          BY <1>1, <1>2, <5>1 DEF Ring
        <5>3. BarRing \in Nat \ {0}
          BY BoardAssumption
        <5>4. b.minute \in Nat /\ b.minute < now
          BY <3>3, <5>2
        <5>5. b.minute <= now - BarRing
          BY <5>2, <5>3, <5>4, SameSlot
        <5> QED BY <1>8, <5>1, <5>3, <5>4, <5>5
      <4>2. T = S \union {k}
        BY <2>1, <3>1, <2>3
      <4>3. w[k] = n /\ \A j \in S : w[j] = v[j]
        BY <1>3, <1>5, <2>3, <2>4, <3>1, <3>3, <4>1, <4>2
      <4>4. Grown(S, v, k, T, w)
        BY <2>3, <2>4, <4>1, <4>2, <4>3 DEF Grown
      <4>5. Total(w) = Total(v) + n
        BY <4>3, <4>4, TotalGrown
      <4> QED BY <2>2, <2>6, <4>5
    <3> QED BY <3>2, <3>3
  <2> QED BY <2>5, <2>6
<1> QED BY <1>1, <1>3, <1>5, <1>7, <1>8

SameQuote(st, t) == st.bid = t.bid /\ st.ask = t.ask /\ st.bid_sz = t.bid_sz /\ st.ask_sz = t.ask_sz
SameStats(st, t) ==
  /\ st.last = t.last /\ st.high = t.high /\ st.low = t.low
  /\ st.volume = t.volume /\ st.notional = t.notional /\ st.trades = t.trades /\ st.bars = t.bars

\* apply_trade(), field by field.
AfterTrade(st, px, n, now, t) ==
  /\ t \in State /\ SameQuote(st, t)
  /\ t.last = px /\ t.high = Higher(st.high, px) /\ t.low = Lower(st.low, px)
  /\ t.volume = st.volume + n /\ t.notional = st.notional + px * n /\ t.trades = st.trades + 1
  /\ t.bars = [st.bars EXCEPT ![now % BarRing] = BarAfter(st.bars[now % BarRing], px, n, now)]

LEMMA TradeFields ==
  ASSUME NEW st \in State, NEW px \in Nat, NEW n \in Nat, NEW now \in Nat, NEW t, t = apply_trade(st, px, n, now)
  PROVE  AfterTrade(st, px, n, now, t)
<1>1. PICK h, l, v, nt, ph, op, rl, bs :
        /\ h = Higher(st.high, px) /\ l = Lower(st.low, px) /\ v = st.volume + n /\ nt = st.notional + px * n
        /\ ph = (IF now < RthOpen /\ px > st.pm_high THEN px ELSE st.pm_high)
        /\ op = (IF now >= RthOpen /\ now < RthClose /\ st.open = 0 THEN px ELSE st.open)
        /\ rl = (IF now >= RthOpen /\ now < RthClose THEN px ELSE st.rth_last)
        /\ bs = [st.bars EXCEPT ![now % BarRing] = BarAfter(st.bars[now % BarRing], px, n, now)]
  OBVIOUS
<1>2. t = [st EXCEPT !.last = px, !.high = h, !.low = l, !.volume = v, !.notional = nt, !.trades = st.trades + 1,
                     !.pm_high = ph, !.open = op, !.rth_last = rl, !.bars = bs]
  BY <1>1 DEF apply_trade
<1>3. /\ st.high \in Nat /\ st.low \in Nat /\ st.volume \in Nat /\ st.notional \in Nat /\ st.trades \in Nat
      /\ st.pm_high \in Nat /\ st.open \in Nat /\ st.rth_last \in Nat /\ st.bars \in [Slots -> Bar]
  BY DEF State
<1>4. px * n \in Nat
  OBVIOUS
<1>5. h \in Nat /\ l \in Nat /\ v \in Nat /\ nt \in Nat /\ ph \in Nat /\ op \in Nat /\ rl \in Nat
  BY <1>1, <1>3, <1>4 DEF Higher, Lower
<1>6. bs \in [Slots -> Bar]
  <2>1. PICK k \in Slots : k = now % BarRing
    BY SlotOf
  <2>2. BarAfter(st.bars[k], px, n, now) \in Bar
    BY <1>3, BarAfterIs
  <2> QED BY <1>1, <1>3, <2>1, <2>2
<1>7. st.trades + 1 \in Nat
  BY <1>3
<1>8. /\ t \in State /\ SameQuote(st, t)
      /\ t.last = px /\ t.high = h /\ t.low = l /\ t.volume = v /\ t.notional = nt /\ t.trades = st.trades + 1
      /\ t.bars = bs
  <2>1. st = [last |-> st.last, high |-> st.high, low |-> st.low, open |-> st.open, rth_last |-> st.rth_last,
              close |-> st.close, pm_high |-> st.pm_high, volume |-> st.volume, notional |-> st.notional,
              trades |-> st.trades, bid |-> st.bid, ask |-> st.ask, bid_sz |-> st.bid_sz, ask_sz |-> st.ask_sz,
              bars |-> st.bars]
    BY DEF State
  <2>2. PICK t1, t2, t3 :
          /\ t1 = [st EXCEPT !.last = px, !.high = h, !.low = l]
          /\ t2 = [t1 EXCEPT !.volume = v, !.notional = nt, !.trades = st.trades + 1]
          /\ t3 = [t2 EXCEPT !.pm_high = ph, !.open = op, !.rth_last = rl]
    OBVIOUS
  <2>3. t = [t3 EXCEPT !.bars = bs]
    BY <1>2, <2>2
  <2>4. t1 = [last |-> px, high |-> h, low |-> l, open |-> st.open, rth_last |-> st.rth_last,
              close |-> st.close, pm_high |-> st.pm_high, volume |-> st.volume, notional |-> st.notional,
              trades |-> st.trades, bid |-> st.bid, ask |-> st.ask, bid_sz |-> st.bid_sz,
              ask_sz |-> st.ask_sz, bars |-> st.bars]
    BY <2>1, <2>2
  <2>5. t2 = [last |-> px, high |-> h, low |-> l, open |-> st.open, rth_last |-> st.rth_last,
              close |-> st.close, pm_high |-> st.pm_high, volume |-> v, notional |-> nt,
              trades |-> st.trades + 1, bid |-> st.bid, ask |-> st.ask, bid_sz |-> st.bid_sz,
              ask_sz |-> st.ask_sz, bars |-> st.bars]
    BY <2>4, <2>2
  <2>6. t3 = [last |-> px, high |-> h, low |-> l, open |-> op, rth_last |-> rl, close |-> st.close,
              pm_high |-> ph, volume |-> v, notional |-> nt, trades |-> st.trades + 1, bid |-> st.bid,
              ask |-> st.ask, bid_sz |-> st.bid_sz, ask_sz |-> st.ask_sz, bars |-> st.bars]
    BY <2>5, <2>2
  <2>7. t = [last |-> px, high |-> h, low |-> l, open |-> op, rth_last |-> rl, close |-> st.close,
             pm_high |-> ph, volume |-> v, notional |-> nt, trades |-> st.trades + 1, bid |-> st.bid,
             ask |-> st.ask, bid_sz |-> st.bid_sz, ask_sz |-> st.ask_sz, bars |-> bs]
    BY <2>6, <2>3
  <2>8. st.close \in Nat /\ st.bid \in Nat /\ st.ask \in Nat /\ st.bid_sz \in Nat /\ st.ask_sz \in Nat
    BY DEF State
  <2>9. t \in State
    BY <2>7, <2>8, <1>5, <1>6, <1>7 DEF State
  <2> QED BY <2>7, <2>9 DEF SameQuote
<1> QED BY <1>1, <1>8 DEF AfterTrade

LEMMA MinOfTwo == ASSUME NEW a \in Nat, NEW b \in Nat PROVE Min({a, b}) = IF a <= b THEN a ELSE b
<1>1. PICK c \in {a, b} : c = IF a <= b THEN a ELSE b
  OBVIOUS
<1>2. \A y \in {a, b} : c <= y
  BY <1>1
<1>3. \A x \in {a, b} : (\A y \in {a, b} : x <= y) => x = c
  BY <1>1
<1> QED BY <1>1, <1>2, <1>3 DEF Min

\* quote() leaves the statistics alone.
AfterQuote(st, bid, bsz, ask, asz, t) ==
  /\ t \in State /\ SameStats(st, t) /\ t.bid = bid /\ t.ask = ask
  /\ t.bid_sz = Min({bsz, MaxSize}) /\ t.ask_sz = Min({asz, MaxSize})

LEMMA QuoteFields ==
  ASSUME NEW st \in State, NEW bid \in Nat, NEW bsz \in Nat, NEW ask \in Nat, NEW asz \in Nat,
         NEW t, t = quote(st, bid, bsz, ask, asz)
  PROVE  AfterQuote(st, bid, bsz, ask, asz, t)
<1>1. PICK b, a : b = Min({bsz, MaxSize}) /\ a = Min({asz, MaxSize})
  OBVIOUS
<1>2. b \in Nat /\ a \in Nat
  BY <1>1, MinOfTwo, BoardAssumption
<1>3. t = [st EXCEPT !.bid = bid, !.ask = ask, !.bid_sz = b, !.ask_sz = a]
  BY <1>1 DEF quote
<1>4. t \in State /\ t.bid = bid /\ t.ask = ask /\ t.bid_sz = b /\ t.ask_sz = a
  <2>1. st = [last |-> st.last, high |-> st.high, low |-> st.low, open |-> st.open, rth_last |-> st.rth_last,
              close |-> st.close, pm_high |-> st.pm_high, volume |-> st.volume, notional |-> st.notional,
              trades |-> st.trades, bid |-> st.bid, ask |-> st.ask, bid_sz |-> st.bid_sz, ask_sz |-> st.ask_sz,
              bars |-> st.bars]
    BY DEF State
  <2>2. t = [last |-> st.last, high |-> st.high, low |-> st.low, open |-> st.open, rth_last |-> st.rth_last,
             close |-> st.close, pm_high |-> st.pm_high, volume |-> st.volume, notional |-> st.notional,
             trades |-> st.trades, bid |-> bid, ask |-> ask, bid_sz |-> b, ask_sz |-> a, bars |-> st.bars]
    BY <2>1, <1>3
  <2>3. /\ st.last \in Nat /\ st.high \in Nat /\ st.low \in Nat /\ st.open \in Nat /\ st.rth_last \in Nat
        /\ st.close \in Nat /\ st.pm_high \in Nat /\ st.volume \in Nat /\ st.notional \in Nat
        /\ st.trades \in Nat /\ st.bars \in [Slots -> Bar]
    BY DEF State
  <2>4. t \in State
    BY <1>2, <2>2, <2>3 DEF State
  <2> QED BY <2>2, <2>4
<1>5. SameStats(st, t)
  BY <1>3 DEF State, SameStats
<1> QED BY <1>1, <1>4, <1>5 DEF AfterQuote

\* The state a print leaves, as far as the statistics are concerned.
Counted(px, n) == px > 0 /\ n > 0
AfterPrint(st, px, n, now, t) ==
  /\ t \in State /\ SameQuote(st, t)
  /\ SameStats(IF Counted(px, n) THEN apply_trade(st, px, n, now) ELSE st, t)

LEMMA TradePrints ==
  ASSUME NEW st \in State, NEW px \in Nat, NEW n \in Nat, NEW now \in Nat
  PROVE  AfterPrint(st, px, n, now, trade(st, px, n, now))
<1>1. PICK u : u = apply_trade(st, px, n, now)
  OBVIOUS
<1>2. u \in State /\ SameQuote(st, u)
  BY <1>1, TradeFields DEF AfterTrade
<1>3. CASE Counted(px, n)
  <2>1. trade(st, px, n, now) = u
    BY <1>1, <1>3 DEF trade, Counted
  <2> QED BY <1>1, <1>2, <1>3, <2>1 DEF AfterPrint, SameStats
<1>4. CASE ~ Counted(px, n)
  <2>1. trade(st, px, n, now) = st
    BY <1>4 DEF trade, Counted
  <2> QED BY <1>4, <2>1 DEF AfterPrint, SameStats, SameQuote
<1> QED BY <1>3, <1>4

LEMMA CrossPrints ==
  ASSUME NEW st \in State, NEW px \in Nat, NEW n \in Nat, NEW now \in Nat, NEW type
  PROVE  AfterPrint(st, px, n, now, cross(st, px, n, now, type))
<1>1. PICK u : u = IF n > 0 THEN apply_trade(st, px, n, now) ELSE st
  OBVIOUS
<1>2. u \in State /\ SameQuote(st, u)
  <2>1. CASE n > 0
    BY <1>1, <2>1, TradeFields DEF AfterTrade
  <2>2. CASE ~ (n > 0)
    BY <1>1, <2>2 DEF SameQuote
  <2> QED BY <2>1, <2>2
<1>3. CASE px > 0
  <2>1. PICK op, cl : /\ op = (IF type = "O" THEN px ELSE u.open)
                      /\ cl = (IF type = "C" THEN px ELSE u.close)
    OBVIOUS
  <2>2. PICK t : t = [u EXCEPT !.open = op, !.close = cl]
    OBVIOUS
  <2>3. cross(st, px, n, now, type) = t
    BY <1>1, <1>3, <2>1, <2>2 DEF cross
  <2>4. op \in Nat /\ cl \in Nat
    BY <1>2, <2>1 DEF State
  <2>5. t \in State
    BY <1>2, <2>2, <2>4 DEF State
  <2>6. SameQuote(st, t)
    BY <1>2, <2>2 DEF State, SameQuote
  <2>7. SameStats(u, t)
    BY <1>2, <2>2 DEF State, SameStats
  <2>8. u = IF Counted(px, n) THEN apply_trade(st, px, n, now) ELSE st
    BY <1>1, <1>3 DEF Counted
  <2> QED BY <2>3, <2>5, <2>6, <2>7, <2>8 DEF AfterPrint
<1>4. CASE ~ (px > 0)
  <2>1. cross(st, px, n, now, type) = st /\ ~ Counted(px, n)
    BY <1>4 DEF cross, Counted
  <2> QED BY <2>1 DEF AfterPrint, SameStats, SameQuote
<1> QED BY <1>3, <1>4

-----------------------------------------------------------------------------
(* The statistics of a stock against the trades printed of it *)

PrintRec == [sym : Sym, price : Nat, shares : Nat, minute : Nat]
Of(prs, s) == {i \in DOMAIN prs : prs[i].sym = s /\ prs[i].shares > 0 /\ prs[i].price > 0}
SharesFrom(prs, ps, m) == Total([i \in {j \in ps : prs[j].minute >= m} |-> prs[i].shares])

TotalsAre(st, prs, ps) ==
  /\ st.trades = Cardinality(ps)
  /\ st.volume = Total([i \in ps |-> prs[i].shares])
  /\ st.notional = Total([i \in ps |-> prs[i].price * prs[i].shares])

\* Stated without Max and Min, so that a further print is compared with the
\* extremes so far and not with every print.
ExtremesAre(st, prs, ps) ==
  /\ ps = {} => st.high = 0 /\ st.low = 0 /\ st.last = 0
  /\ ps # {} => /\ \E i \in ps : prs[i].price = st.high
                /\ \E i \in ps : prs[i].price = st.low
                /\ \E i \in ps : prs[i].price = st.last /\ \A j \in ps : j <= i
  /\ \A i \in ps : st.low <= prs[i].price /\ prs[i].price <= st.high

\* The newest bar closes at the last price.
BarsAre(st, prs, ps, now) ==
  /\ Ring(st.bars, now)
  /\ ps = {} => \A j \in Slots : st.bars[j].minute = -1
  /\ ps # {} => \E k \in Slots : /\ st.bars[k].minute >= 0 /\ st.bars[k].close = st.last
                                 /\ \A j \in Slots : st.bars[j].minute <= st.bars[k].minute
  /\ \A m \in Nat : m > now - BarRing => Since(st.bars, m) = SharesFrom(prs, ps, m)

Stats(st, prs, s, now) ==
  TotalsAre(st, prs, Of(prs, s)) /\ ExtremesAre(st, prs, Of(prs, s)) /\ BarsAre(st, prs, Of(prs, s), now)

Printing(prs, now) == prs \in Seq(PrintRec) /\ \A i \in DOMAIN prs : prs[i].minute <= now

LEMMA StatsAlike ==
  ASSUME NEW st, NEW t, SameStats(st, t), NEW prs, NEW s, NEW now, Stats(st, prs, s, now)
  PROVE  Stats(t, prs, s, now)
  BY DEF SameStats, Stats, TotalsAre, ExtremesAre, BarsAre

\* A later minute asks for less of the ring.
LEMMA StatsLater ==
  ASSUME NEW st \in State, NEW prs, NEW s, NEW now \in Nat, Stats(st, prs, s, now)
  PROVE  Stats(st, prs, s, now + 1)
<1>1. BarRing \in Nat /\ BarsAre(st, prs, Of(prs, s), now)
  BY BoardAssumption DEF Stats
<1>2. Ring(st.bars, now + 1)
  BY <1>1 DEF BarsAre, Ring
<1>3. BarsAre(st, prs, Of(prs, s), now + 1)
  BY <1>1, <1>2 DEF BarsAre
<1> QED BY <1>3 DEF Stats

LEMMA PrintFields ==
  ASSUME NEW e \in PrintRec
  PROVE  e.sym \in Sym /\ e.price \in Nat /\ e.shares \in Nat /\ e.minute \in Nat
  BY DEF PrintRec

Appended(prs, e, prs2) == prs2 = Append(prs, e)

LEMMA AppendIs ==
  ASSUME NEW prs \in Seq(PrintRec), NEW e \in PrintRec, NEW prs2, Appended(prs, e, prs2)
  PROVE  /\ prs2 \in Seq(PrintRec) /\ Len(prs) \in Nat /\ Len(prs2) = Len(prs) + 1 /\ prs2[Len(prs) + 1] = e
         /\ DOMAIN prs = 1 .. Len(prs) /\ DOMAIN prs2 = 1 .. Len(prs) + 1
         /\ \A i \in DOMAIN prs : prs2[i] = prs[i]
  BY DEF Appended

\* The prints of a stock when one more has been made.
LEMMA OfAppend ==
  ASSUME NEW prs \in Seq(PrintRec), NEW e \in PrintRec, NEW prs2, Appended(prs, e, prs2), NEW s
  PROVE  /\ prs2 \in Seq(PrintRec) /\ Len(prs) \in Nat /\ Len(prs2) = Len(prs) + 1 /\ prs2[Len(prs) + 1] = e
         /\ DOMAIN prs = 1 .. Len(prs) /\ DOMAIN prs2 = 1 .. Len(prs) + 1
         /\ \A i \in DOMAIN prs : prs2[i] = prs[i]
         /\ Of(prs, s) \subseteq 1 .. Len(prs) /\ IsFiniteSet(Of(prs, s))
         /\ Of(prs2, s) = IF e.sym = s /\ Counted(e.price, e.shares) THEN Of(prs, s) \union {Len(prs) + 1}
                                                                      ELSE Of(prs, s)
<1>1. /\ prs2 \in Seq(PrintRec) /\ Len(prs) \in Nat /\ Len(prs2) = Len(prs) + 1 /\ prs2[Len(prs) + 1] = e
      /\ DOMAIN prs = 1 .. Len(prs) /\ DOMAIN prs2 = 1 .. Len(prs) + 1
      /\ \A i \in 1 .. Len(prs) : prs2[i] = prs[i]
  BY AppendIs
<1>2. Of(prs, s) \subseteq 1 .. Len(prs)
  BY <1>1 DEF Of
<1>3. IsFiniteSet(Of(prs, s))
  <2>1. IsFiniteSet(1 .. Len(prs))
    BY <1>1, FS_Interval
  <2> QED BY <1>2, <2>1, FS_Subset
<1>4. \A i \in 1 .. Len(prs) + 1 : i \in 1 .. Len(prs) \/ i = Len(prs) + 1
  BY <1>1
<1>5. \A i \in 1 .. Len(prs) : i \in Of(prs2, s) <=> i \in Of(prs, s)
  BY <1>1 DEF Of
<1>6. Len(prs) + 1 \in Of(prs2, s) <=> e.sym = s /\ Counted(e.price, e.shares)
  <2>1. Len(prs) + 1 \in DOMAIN prs2
    BY <1>1
  <2> QED BY <1>1, <2>1 DEF Of, Counted
<1>7. Of(prs2, s) \subseteq 1 .. Len(prs) + 1
  BY <1>1 DEF Of
<1>8. Of(prs2, s) = IF e.sym = s /\ Counted(e.price, e.shares) THEN Of(prs, s) \union {Len(prs) + 1} ELSE Of(prs, s)
  <2>1. CASE e.sym = s /\ Counted(e.price, e.shares)
    <3>1. Of(prs2, s) = Of(prs, s) \union {Len(prs) + 1}
      BY <1>2, <1>4, <1>5, <1>6, <1>7, <2>1
    <3> QED BY <2>1, <3>1
  <2>2. CASE ~ (e.sym = s /\ Counted(e.price, e.shares))
    <3>1. Of(prs2, s) = Of(prs, s)
      BY <1>2, <1>4, <1>5, <1>6, <1>7, <2>2
    <3> QED BY <2>2, <3>1
  <2> QED BY <2>1, <2>2
<1> QED BY <1>1, <1>2, <1>3, <1>8

\* Statistics that the new print is not part of.
LEMMA StatsOther ==
  ASSUME NEW st, NEW prs \in Seq(PrintRec), NEW e \in PrintRec, NEW prs2, Appended(prs, e, prs2), NEW s, NEW now,
         ~ (e.sym = s /\ Counted(e.price, e.shares)), Stats(st, prs, s, now)
  PROVE  Stats(st, prs2, s, now)
<1>1. PICK ps : ps = Of(prs, s)
  OBVIOUS
<1>2. Of(prs2, s) = ps /\ \A i \in ps : prs2[i] = prs[i]
  <2>1. Of(prs2, s) = Of(prs, s)
    BY OfAppend
  <2>2. Of(prs, s) \subseteq DOMAIN prs /\ \A i \in DOMAIN prs : prs2[i] = prs[i]
    BY OfAppend
  <2> QED BY <1>1, <2>1, <2>2
<1>3. TotalsAre(st, prs2, ps)
  <2>1. /\ [i \in ps |-> prs2[i].shares] = [i \in ps |-> prs[i].shares]
        /\ [i \in ps |-> prs2[i].price * prs2[i].shares] = [i \in ps |-> prs[i].price * prs[i].shares]
    BY <1>2
  <2> QED BY <1>1, <2>1 DEF Stats, TotalsAre
<1>4. ExtremesAre(st, prs2, ps)
  BY <1>1, <1>2 DEF Stats, ExtremesAre
<1>5. BarsAre(st, prs2, ps, now)
  <2>1. ASSUME NEW m PROVE SharesFrom(prs2, ps, m) = SharesFrom(prs, ps, m)
    <3>1. {j \in ps : prs2[j].minute >= m} = {j \in ps : prs[j].minute >= m}
      BY <1>2
    <3>2. PICK S : S = {j \in ps : prs[j].minute >= m}
      OBVIOUS
    <3>3. [i \in S |-> prs2[i].shares] = [i \in S |-> prs[i].shares]
      BY <1>2, <3>2
    <3> QED BY <3>1, <3>2, <3>3 DEF SharesFrom
  <2> QED BY <1>1, <2>1 DEF Stats, BarsAre
<1> QED BY <1>2, <1>3, <1>4, <1>5 DEF Stats

\* A trade counted: totals, extremes and bars follow the prints.
LEMMA StatsCounted ==
  ASSUME NEW st \in State, NEW prs, NEW now \in Nat, Printing(prs, now), NEW e \in PrintRec,
         e.minute = now, Counted(e.price, e.shares), NEW prs2, Appended(prs, e, prs2),
         Stats(st, prs, e.sym, now), NEW t, t = apply_trade(st, e.price, e.shares, now)
  PROVE  Stats(t, prs2, e.sym, now)
<1>1. PICK s, px, n, z, ps, ps2 : /\ s = e.sym /\ px = e.price /\ n = e.shares /\ z = Len(prs) + 1
                                  /\ ps = Of(prs, e.sym) /\ ps2 = Of(prs2, e.sym)
  OBVIOUS
<1>2. px \in Nat /\ n \in Nat /\ px > 0 /\ n > 0
  BY <1>1, PrintFields DEF Counted
<1>3. /\ prs \in Seq(PrintRec) /\ prs2 \in Seq(PrintRec) /\ Len(prs) \in Nat /\ prs2[z] = e
      /\ DOMAIN prs = 1 .. Len(prs) /\ \A i \in DOMAIN prs : prs2[i] = prs[i]
  <2>1. prs \in Seq(PrintRec)
    BY DEF Printing
  <2> QED BY <1>1, <2>1, OfAppend
<1>4. ps \subseteq 1 .. Len(prs) /\ IsFiniteSet(ps)
  BY <1>1, <1>3, OfAppend
<1>5. ps2 = ps \union {z}
  <2>1. Of(prs2, e.sym) = Of(prs, e.sym) \union {Len(prs) + 1}
    BY <1>3, OfAppend
  <2> QED BY <1>1, <2>1
<1>6. z \in Nat /\ z \notin ps /\ \A i \in ps : i \in Nat /\ i < z /\ prs2[i] = prs[i]
  BY <1>1, <1>3, <1>4
<1>7. \A i \in ps : /\ prs[i].price \in Nat /\ prs[i].shares \in Nat /\ prs[i].minute \in Nat
                    /\ prs[i].price * prs[i].shares \in Nat /\ prs[i].minute <= now
  <2>1. ASSUME NEW i \in ps PROVE prs[i] \in PrintRec /\ prs[i].minute <= now
    BY <1>3, <1>4 DEF Printing
  <2>2. ASSUME NEW i \in ps PROVE prs[i].price \in Nat /\ prs[i].shares \in Nat /\ prs[i].minute \in Nat
    BY <2>1, PrintFields
  <2>3. \A a, b \in Nat : a * b \in Nat
    OBVIOUS
  <2> QED BY <2>1, <2>2, <2>3
<1>8. TotalsAre(st, prs, ps) /\ ExtremesAre(st, prs, ps) /\ BarsAre(st, prs, ps, now)
  BY <1>1 DEF Stats
<1>9. /\ t \in State /\ t.last = px /\ t.high = Higher(st.high, px) /\ t.low = Lower(st.low, px)
      /\ t.volume = st.volume + n /\ t.notional = st.notional + px * n /\ t.trades = st.trades + 1
      /\ t.bars = [st.bars EXCEPT ![now % BarRing] = BarAfter(st.bars[now % BarRing], px, n, now)]
  <2>1. t = apply_trade(st, px, n, now)
    BY <1>1
  <2>2. AfterTrade(st, px, n, now, t)
    BY <1>2, <2>1, TradeFields
  <2> QED BY <2>2 DEF AfterTrade
<1>10. st.high \in Nat /\ st.low \in Nat /\ st.bars \in [Slots -> Bar]
  BY DEF State
<1>11. TotalsAre(t, prs2, ps2)
  <2>1. Cardinality(ps2) = Cardinality(ps) + 1
    BY <1>4, <1>5, <1>6, FS_AddElement
  <2>2. Total([i \in ps2 |-> prs2[i].shares]) = Total([i \in ps |-> prs[i].shares]) + n
    <3>1. PICK v, w : v = [i \in ps |-> prs[i].shares] /\ w = [i \in ps2 |-> prs2[i].shares]
      OBVIOUS
    <3>2. v \in [ps -> Nat] /\ w \in [ps2 -> Nat] /\ w[z] = n /\ \A i \in ps : w[i] = v[i]
      BY <1>1, <1>2, <1>3, <1>5, <1>6, <1>7, <3>1
    <3>3. Total(w) = Total(v) + w[z]
      <4>1. Grown(ps, v, z, ps2, w)
        BY <1>4, <1>5, <1>6, <3>2 DEF Grown
      <4> QED BY <4>1, TotalGrown
    <3> QED BY <3>1, <3>2, <3>3
  <2>3. Total([i \in ps2 |-> prs2[i].price * prs2[i].shares]) = Total([i \in ps |-> prs[i].price * prs[i].shares]) + px * n
    <3>1. PICK v, w : /\ v = [i \in ps |-> prs[i].price * prs[i].shares]
                      /\ w = [i \in ps2 |-> prs2[i].price * prs2[i].shares]
      OBVIOUS
    <3>2. px * n \in Nat
      BY <1>2
    <3>3. w[z] = px * n /\ \A i \in ps : w[i] = v[i] /\ w[i] \in Nat
      BY <1>1, <1>3, <1>5, <1>6, <1>7, <3>1
    <3>4. v \in [ps -> Nat] /\ w \in [ps2 -> Nat]
      BY <1>5, <1>7, <3>1, <3>2, <3>3
    <3>5. Total(w) = Total(v) + w[z]
      <4>1. Grown(ps, v, z, ps2, w)
        BY <1>4, <1>5, <1>6, <3>3, <3>4 DEF Grown
      <4> QED BY <4>1, TotalGrown
    <3> QED BY <3>1, <3>3, <3>5
  <2> QED BY <2>1, <2>2, <2>3, <1>8, <1>9 DEF TotalsAre
<1>12. ExtremesAre(t, prs2, ps2)
  <2>1. z \in ps2 /\ prs2[z].price = px /\ \A j \in ps2 : j <= z
    BY <1>1, <1>3, <1>5, <1>6
  <2>2. \A i \in ps2 : i = z \/ (i \in ps /\ prs2[i] = prs[i] /\ prs[i].price \in Nat /\ prs[i].price > 0)
    BY <1>1, <1>5, <1>6, <1>7 DEF Of
  <2>3. CASE ps = {}
    <3>1. t.high = px /\ t.low = px
      BY <1>8, <1>9, <2>3 DEF ExtremesAre, Higher, Lower
    <3> QED BY <1>2, <1>9, <2>1, <2>2, <2>3, <3>1 DEF ExtremesAre
  <2>4. CASE ps # {}
    <3>1. PICK h \in ps : prs[h].price = st.high
      BY <1>8, <2>4 DEF ExtremesAre
    <3>2. PICK l \in ps : prs[l].price = st.low
      BY <1>8, <2>4 DEF ExtremesAre
    <3>3. st.high > 0 /\ st.low > 0 /\ prs2[h].price = st.high /\ prs2[l].price = st.low /\ h \in ps2 /\ l \in ps2
      BY <1>5, <1>6, <2>2, <3>1, <3>2
    <3>4. t.high = (IF px > st.high THEN px ELSE st.high) /\ t.low = (IF px < st.low THEN px ELSE st.low)
      BY <1>9, <3>3 DEF Higher, Lower
    <3>5. \A i \in ps2 : t.low <= prs2[i].price /\ prs2[i].price <= t.high
      BY <1>2, <1>8, <1>10, <2>1, <2>2, <3>4 DEF ExtremesAre
    <3>6. (\E i \in ps2 : prs2[i].price = t.high) /\ \E i \in ps2 : prs2[i].price = t.low
      BY <2>1, <3>3, <3>4
    <3>7. ps2 # {} /\ \E i \in ps2 : prs2[i].price = t.last /\ \A j \in ps2 : j <= i
      BY <1>9, <2>1
    <3> QED BY <3>5, <3>6, <3>7 DEF ExtremesAre
  <2> QED BY <2>3, <2>4
<1>13. BarsAre(t, prs2, ps2, now)
  <2>1. PICK k \in Slots : k = now % BarRing
    BY SlotOf
  <2>2. Ring(st.bars, now)
    BY <1>8 DEF BarsAre
  <2>3. /\ t.bars \in [Slots -> Bar] /\ Ring(t.bars, now) /\ t.bars[k].minute = now /\ t.bars[k].close = px
        /\ \A m \in Nat : m > now - BarRing => Since(t.bars, m) = IF m <= now THEN Since(st.bars, m) + n ELSE 0
    BY <1>2, <1>9, <1>10, <2>1, <2>2, RingAfter
  <2>4. \A j \in Slots : t.bars[j].minute <= t.bars[k].minute
    BY <2>3 DEF Ring
  <2>5. ASSUME NEW m \in Nat, m > now - BarRing PROVE Since(t.bars, m) = SharesFrom(prs2, ps2, m)
    <3>1. PICK S, T, v, w : /\ S = {j \in ps : prs[j].minute >= m} /\ T = {j \in ps2 : prs2[j].minute >= m}
                            /\ v = [i \in S |-> prs[i].shares] /\ w = [i \in T |-> prs2[i].shares]
      OBVIOUS
    <3>2. SharesFrom(prs, ps, m) = Total(v) /\ SharesFrom(prs2, ps2, m) = Total(w)
      BY <3>1 DEF SharesFrom
    <3>3. Since(st.bars, m) = Total(v)
      BY <1>8, <2>5, <3>2 DEF BarsAre
    <3>4. CASE m > now
      <4>1. T = {}
        <5>1. ASSUME NEW j \in ps2 PROVE ~ (prs2[j].minute >= m)
          <6>1. CASE j = z
            BY <1>3, <3>4, <6>1
          <6>2. CASE j \in ps
            BY <1>6, <1>7, <3>4, <6>2
          <6> QED BY <1>5, <6>1, <6>2
        <5> QED BY <3>1, <5>1
      <4>2. DOMAIN w = {} /\ w = [i \in {} |-> w[i]]
        BY <3>1, <4>1
      <4>3. Total(w) = 0
        BY <4>2, TotalEmpty
      <4> QED BY <2>3, <2>5, <3>2, <3>4, <4>3
    <3>5. CASE m <= now
      <4>1. T = S \union {z} /\ z \notin S
        BY <1>3, <1>5, <1>6, <3>1, <3>5
      <4>2. S \subseteq ps /\ IsFiniteSet(S)
        BY <1>4, <3>1, FS_Subset
      <4>3. v \in [S -> Nat] /\ w \in [T -> Nat] /\ w[z] = n /\ \A i \in S : w[i] = v[i]
        BY <1>1, <1>2, <1>3, <1>6, <1>7, <3>1, <4>1, <4>2
      <4>4. Total(w) = Total(v) + n
        <5>1. Grown(S, v, z, T, w)
          BY <4>1, <4>2, <4>3 DEF Grown
        <5> QED BY <4>3, <5>1, TotalGrown
      <4> QED BY <2>3, <2>5, <3>2, <3>3, <3>5, <4>4
    <3> QED BY <3>4, <3>5
  <2>6. ps2 # {}
    BY <1>5
  <2>7. t.bars[k].minute >= 0 /\ t.bars[k].close = t.last
    BY <1>9, <2>3
  <2> QED BY <2>3, <2>4, <2>5, <2>6, <2>7 DEF BarsAre
<1> QED BY <1>1, <1>11, <1>12, <1>13 DEF Stats

LEMMA MaxIs == ASSUME NEW S, S \subseteq Int, NEW x \in S, \A y \in S : y <= x PROVE Max(S) = x
<1>1. \A z \in S : (\A y \in S : z >= y) => z = x
  OBVIOUS
<1>2. \A y \in S : x >= y
  OBVIOUS
<1> QED BY <1>1, <1>2 DEF Max

LEMMA MinIs == ASSUME NEW S, S \subseteq Int, NEW x \in S, \A y \in S : x <= y PROVE Min(S) = x
<1>1. \A z \in S : (\A y \in S : z <= y) => z = x
  OBVIOUS
<1> QED BY <1>1 DEF Min

\* A reader of the ring is given the last price.
LEMMA PriceIsLast ==
  ASSUME NEW st \in State, NEW prs, NEW ps, NEW now \in Nat, BarsAre(st, prs, ps, now), ps = {} => st.last = 0
  PROVE  price_at_minute(st, now) = st.last
<1> DEFINE upTo == {i \in DOMAIN st.bars : st.bars[i].minute \in 0 .. now}
<1>1. st.bars \in [Slots -> Bar] /\ DOMAIN st.bars = Slots
  BY DEF State
<1>2. CASE ps = {}
  <2>1. upTo = {}
    BY <1>1, <1>2 DEF BarsAre
  <2> QED BY <1>2, <2>1 DEF price_at_minute
<1>3. CASE ps # {}
  <2>1. PICK k \in Slots : /\ st.bars[k].minute >= 0 /\ st.bars[k].close = st.last
                           /\ \A j \in Slots : st.bars[j].minute <= st.bars[k].minute
    BY <1>3 DEF BarsAre
  <2>2. \A j \in Slots : st.bars[j].minute = -1 \/ (st.bars[j].minute \in 0 .. now /\ st.bars[j].minute % BarRing = j)
    BY DEF BarsAre, Ring
  <2>3. k \in upTo /\ \A j \in upTo : st.bars[j].minute <= st.bars[k].minute
    BY <1>1, <2>1, <2>2
  <2>4. ASSUME NEW i \in upTo, \A j \in upTo : st.bars[j].minute <= st.bars[i].minute PROVE i = k
    <3>1. i \in Slots /\ st.bars[i].minute \in 0 .. now /\ st.bars[k].minute \in 0 .. now
      BY <1>1, <2>1, <2>2
    <3>2. st.bars[i].minute = st.bars[k].minute
      BY <2>3, <2>4, <3>1
    <3>3. st.bars[i].minute % BarRing = i /\ st.bars[k].minute % BarRing = k
      BY <2>2, <3>1
    <3> QED BY <3>2, <3>3
  <2>5. (CHOOSE i \in upTo : \A j \in upTo : st.bars[j].minute <= st.bars[i].minute) = k
    BY <2>3, <2>4
  <2>6. upTo # {}
    BY <2>3
  <2> QED BY <2>1, <2>5, <2>6 DEF price_at_minute
<1> QED BY <1>2, <1>3

\* The statistics and the trades as BoardIsPrints compares them.
Agree(st, prs, ps, now) ==
  /\ st.trades = Cardinality(ps)
  /\ st.volume = Total([i \in ps |-> prs[i].shares])
  /\ st.notional = Total([i \in ps |-> prs[i].price * prs[i].shares])
  /\ st.high = IF ps = {} THEN 0 ELSE Max({prs[i].price : i \in ps})
  /\ st.low = IF ps = {} THEN 0 ELSE Min({prs[i].price : i \in ps})
  /\ st.last = IF ps = {} THEN 0 ELSE prs[Max(ps)].price
  /\ price_at_minute(st, now) = st.last
  /\ \A m \in Nat : m > now - BarRing => volume_since_minute(st, m) = SharesFrom(prs, ps, m)

LEMMA StatsGive ==
  ASSUME NEW st \in State, NEW prs, NEW now \in Nat, Printing(prs, now), NEW s, Stats(st, prs, s, now),
         NEW ps, ps = Of(prs, s)
  PROVE  Agree(st, prs, ps, now)
<1>1. TotalsAre(st, prs, ps) /\ ExtremesAre(st, prs, ps) /\ BarsAre(st, prs, ps, now)
  BY DEF Stats
<1>2. \A i \in ps : i \in Int /\ prs[i].price \in Int
  <2>1. prs \in Seq(PrintRec)
    BY DEF Printing
  <2>2. ps \subseteq DOMAIN prs
    BY DEF Of
  <2>3. \A i \in DOMAIN prs : i \in Int /\ prs[i] \in PrintRec
    BY <2>1
  <2> QED BY <2>2, <2>3, PrintFields
<1>3. PICK px : px = {prs[i].price : i \in ps}
  OBVIOUS
<1>4. px \subseteq Int /\ ps \subseteq Int
  BY <1>2, <1>3
<1>5. ASSUME ps # {}
      PROVE  st.high = Max({prs[j].price : j \in ps}) /\ st.low = Min({prs[j].price : j \in ps}) /\ st.last = prs[Max(ps)].price
  <2>1. st.high \in px /\ \A y \in px : y <= st.high
    BY <1>1, <1>3, <1>5 DEF ExtremesAre
  <2>2. st.low \in px /\ \A y \in px : st.low <= y
    BY <1>1, <1>3, <1>5 DEF ExtremesAre
  <2>3. Max(px) = st.high /\ Min(px) = st.low
    BY <1>4, <2>1, <2>2, MaxIs, MinIs
  <2>4. PICK i \in ps : prs[i].price = st.last /\ \A j \in ps : j <= i
    BY <1>1, <1>5 DEF ExtremesAre
  <2>5. Max(ps) = i
    BY <1>4, <2>4, MaxIs
  <2> QED BY <1>3, <2>3, <2>4, <2>5
<1>6. ps = {} => st.high = 0 /\ st.low = 0 /\ st.last = 0
  BY <1>1 DEF ExtremesAre
<1>7. price_at_minute(st, now) = st.last
  BY <1>1, <1>6, PriceIsLast
<1>8. \A m : volume_since_minute(st, m) = Since(st.bars, m)
  BY DEF volume_since_minute, Since
<1>9. /\ st.trades = Cardinality(ps)
      /\ st.volume = Total([i \in ps |-> prs[i].shares])
      /\ st.notional = Total([i \in ps |-> prs[i].price * prs[i].shares])
  BY <1>1 DEF TotalsAre
<1>10. \A m \in Nat : m > now - BarRing => volume_since_minute(st, m) = SharesFrom(prs, ps, m)
  BY <1>1, <1>8 DEF BarsAre
<1>11. /\ st.high = IF ps = {} THEN 0 ELSE Max({prs[i].price : i \in ps})
       /\ st.low = IF ps = {} THEN 0 ELSE Min({prs[i].price : i \in ps})
       /\ st.last = IF ps = {} THEN 0 ELSE prs[Max(ps)].price
  BY <1>5, <1>6
<1> QED BY <1>7, <1>9, <1>10, <1>11 DEF Agree

-----------------------------------------------------------------------------
(* The board as a whole *)

BoardStats(brd, prs, now) ==
  brd \in [Sym -> State] /\ Printing(prs, now) /\ \A s \in Sym : Stats(brd[s], prs, s, now)

SetAt(f, x, v, g) == g = [f EXCEPT ![x] = v]

\* A print changes the statistics of its stock and nobody's quote.
LEMMA PrintKeeps ==
  ASSUME NEW brd, NEW prs, NEW now \in Nat, BoardStats(brd, prs, now), NEW e \in PrintRec, e.minute = now,
         NEW prs2, Appended(prs, e, prs2), NEW t, AfterPrint(brd[e.sym], e.price, e.shares, now, t),
         NEW brd2, SetAt(brd, e.sym, t, brd2)
  PROVE  BoardStats(brd2, prs2, now) /\ \A s \in Sym : SameQuote(brd[s], brd2[s])
<1>1. /\ brd \in [Sym -> State] /\ prs \in Seq(PrintRec) /\ Printing(prs, now)
      /\ \A s \in Sym : Stats(brd[s], prs, s, now)
  BY DEF BoardStats, Printing
<1>2. e.sym \in Sym /\ e.price \in Nat /\ e.shares \in Nat
  BY PrintFields
<1>3. t \in State /\ SameQuote(brd[e.sym], t)
  BY DEF AfterPrint
<1>4. brd2 \in [Sym -> State] /\ brd2[e.sym] = t /\ \A s \in Sym : s # e.sym => brd2[s] = brd[s]
  BY <1>1, <1>2, <1>3 DEF SetAt
<1>5. Printing(prs2, now)
  <2>1. /\ prs2 \in Seq(PrintRec) /\ Len(prs) \in Nat /\ prs2[Len(prs) + 1] = e
        /\ DOMAIN prs = 1 .. Len(prs) /\ DOMAIN prs2 = 1 .. Len(prs) + 1
        /\ \A i \in DOMAIN prs : prs2[i] = prs[i]
    BY <1>1, AppendIs
  <2>2. ASSUME NEW i \in DOMAIN prs2 PROVE prs2[i].minute <= now
    <3>1. CASE i = Len(prs) + 1
      BY <2>1, <3>1
    <3>2. CASE i \in DOMAIN prs
      BY <1>1, <2>1, <3>2 DEF Printing
    <3> QED BY <2>1, <3>1, <3>2
  <2> QED BY <2>1, <2>2 DEF Printing
<1>6. ASSUME NEW s \in Sym PROVE Stats(brd2[s], prs2, s, now)
  <2>1. CASE s = e.sym /\ Counted(e.price, e.shares)
    <3>1. PICK u : u = apply_trade(brd[e.sym], e.price, e.shares, now)
      OBVIOUS
    <3>2. brd[e.sym] \in State /\ Stats(brd[e.sym], prs, e.sym, now)
      BY <1>1, <1>2
    <3>3. Stats(u, prs2, e.sym, now)
      BY <1>1, <2>1, <3>1, <3>2, StatsCounted
    <3>4. SameStats(u, t)
      BY <2>1, <3>1 DEF AfterPrint
    <3>5. Stats(t, prs2, e.sym, now)
      BY <3>3, <3>4, StatsAlike
    <3> QED BY <1>4, <2>1, <3>5
  <2>2. CASE s = e.sym /\ ~ Counted(e.price, e.shares)
    <3>1. SameStats(brd[s], t) /\ Stats(brd[s], prs, s, now)
      BY <1>1, <2>2 DEF AfterPrint
    <3>2. Stats(t, prs, s, now)
      BY <3>1, StatsAlike
    <3>3. Stats(t, prs2, s, now)
      BY <1>1, <2>2, <3>2, StatsOther
    <3> QED BY <1>4, <2>2, <3>3
  <2>3. CASE s # e.sym
    <3>1. Stats(brd[s], prs2, s, now)
      BY <1>1, <2>3, StatsOther
    <3> QED BY <1>4, <2>3, <3>1
  <2> QED BY <2>1, <2>2, <2>3
<1>7. \A s \in Sym : SameQuote(brd[s], brd2[s])
  BY <1>3, <1>4 DEF SameQuote
<1> QED BY <1>4, <1>5, <1>6, <1>7 DEF BoardStats

-----------------------------------------------------------------------------
(* The ladders and the top of book *)

TopRec == [bid : Nat, ask : Nat, bid_sz : Nat, ask_sz : Nat]
BookRec == [B : Seq(Level), S : Seq(Level), pub : TopRec]
TopOf(b) == [bid |-> Best(b.B).price, ask |-> Best(b.S).price, bid_sz |-> Best(b.B).qty, ask_sz |-> Best(b.S).qty]

\* The ladders of a symbol stand for its live orders and their top is published.
LadderOf(b, os, ls, s) ==
  /\ b \in BookRec /\ b.pub = TopOf(b)
  /\ \A side \in Side : Represents(side, b[side], RestIn(os, ls, s, side))

Ladders(bks, os, ls) == bks \in [Quoted -> BookRec] /\ \A s \in Quoted : LadderOf(bks[s], os, ls, s)

\* What is published is what the board shows.
Shows(pub, st) == /\ st.bid = pub.bid /\ st.bid_sz = Min({pub.bid_sz, MaxSize})
                  /\ st.ask = pub.ask /\ st.ask_sz = Min({pub.ask_sz, MaxSize})
Quotes(bks, brd) == \A s \in Quoted : Shows(bks[s].pub, brd[s])

\* Only the orders of one side of one symbol have changed.
Elsewhere(os, os2, ls, sym, side) ==
  \A s \in Quoted, x \in Side : (s = sym /\ x = side) \/ RestIn(os2, ls, s, x) = RestIn(os, ls, s, x)

LEMMA TopTyped ==
  ASSUME NEW s, NEW os, Table(os), NEW ls, NEW b,
         \A side \in Side : Represents(side, b[side], RestIn(os, ls, s, side)), b.B = b["B"], b.S = b["S"]
  PROVE  TopOf(b) \in TopRec
<1>1. ASSUME NEW side \in Side PROVE Best(b[side]) \in [price : Nat, qty : Nat]
  <2>1. RestIn(os, ls, s, side) \in [Prices -> Nat] /\ Represents(side, b[side], RestIn(os, ls, s, side))
    BY RestType
  <2> QED BY <2>1, BestIs
<1>2. Best(b.B) \in [price : Nat, qty : Nat] /\ Best(b.S) \in [price : Nat, qty : Nat]
  BY <1>1 DEF Side
<1> QED BY <1>2 DEF TopOf, TopRec

\* publish_top() after one side has been changed: what was published already
\* is still on the board, and the rest of the board is left alone.
LEMMA RelevelKeeps ==
  ASSUME NEW os, NEW os2, Table(os2), NEW ls, NEW s \in Quoted, NEW side \in Side, NEW lv, NEW brd \in [Sym -> State],
         Ladders(books, os, ls), Quotes(books, brd), Elsewhere(os, os2, ls, s, side),
         Represents(side, lv, RestIn(os2, ls, s, side)), Relevel(s, side, lv, brd)
  PROVE  /\ Ladders(books', os2, ls) /\ Quotes(books', board')
         /\ board' \in [Sym -> State] /\ \A x \in Sym : SameStats(brd[x], board'[x])
<1>1. PICK b : b = [books[s] EXCEPT ![side] = lv]
  OBVIOUS
<1>2. books \in [Quoted -> BookRec] /\ books[s] \in BookRec /\ \A x \in Quoted : LadderOf(books[x], os, ls, x)
  BY DEF Ladders
<1>3. lv \in Seq(Level)
  BY DEF Represents
<1>4. /\ b \in BookRec /\ b[side] = lv /\ b.pub = books[s].pub /\ b.B = b["B"] /\ b.S = b["S"]
      /\ \A x \in Side : x # side => b[x] = books[s][x]
  BY <1>1, <1>2, <1>3 DEF BookRec, Side
<1>5. ASSUME NEW x \in Side PROVE Represents(x, b[x], RestIn(os2, ls, s, x))
  <2>1. CASE x = side
    BY <1>4, <2>1
  <2>2. CASE x # side
    <3>1. Represents(x, books[s][x], RestIn(os, ls, s, x))
      BY <1>2 DEF LadderOf
    <3>2. RestIn(os2, ls, s, x) = RestIn(os, ls, s, x)
      BY <2>2 DEF Elsewhere
    <3> QED BY <1>4, <2>2, <3>1, <3>2
  <2> QED BY <2>1, <2>2
<1>6. PICK t : t = TopOf(b)
  OBVIOUS
<1>7. t \in TopRec
  BY <1>4, <1>5, <1>6, TopTyped
<1>8. PICK c : c = [b EXCEPT !.pub = t]
  OBVIOUS
<1>9. c \in BookRec /\ c.pub = t /\ c.B = b.B /\ c.S = b.S /\ \A x \in Side : c[x] = b[x]
  BY <1>4, <1>7, <1>8 DEF BookRec, Side
<1>10. LadderOf(c, os2, ls, s)
  <2>1. TopOf(c) = t
    BY <1>6, <1>9 DEF TopOf
  <2> QED BY <1>5, <1>9, <2>1 DEF LadderOf
<1>11. \A x \in Quoted : x # s => LadderOf(books[x], os2, ls, x)
  <2> SUFFICES ASSUME NEW x \in Quoted, x # s PROVE LadderOf(books[x], os2, ls, x)
    OBVIOUS
  <2>1. \A y \in Side : RestIn(os2, ls, x, y) = RestIn(os, ls, x, y)
    BY DEF Elsewhere
  <2> QED BY <1>2, <2>1 DEF LadderOf
<1>12. s \in Sym /\ Quoted \subseteq Sym
  BY BookAssumption
<1>13. CASE b.pub # t
  <2>1. /\ books' = [books EXCEPT ![s] = c]
        /\ board' = [brd EXCEPT ![s] = quote(brd[s], t.bid, t.bid_sz, t.ask, t.ask_sz)]
    BY <1>1, <1>6, <1>8, <1>13 DEF Relevel, Changed, TopOf
  <2>2. PICK u : u = quote(brd[s], t.bid, t.bid_sz, t.ask, t.ask_sz)
    OBVIOUS
  <2>3. t.bid \in Nat /\ t.bid_sz \in Nat /\ t.ask \in Nat /\ t.ask_sz \in Nat /\ brd[s] \in State
    BY <1>7, <1>12 DEF TopRec
  <2>4. u \in State /\ SameStats(brd[s], u) /\ Shows(t, u)
    <3>1. AfterQuote(brd[s], t.bid, t.bid_sz, t.ask, t.ask_sz, u)
      BY <2>2, <2>3, QuoteFields
    <3> QED BY <3>1 DEF AfterQuote, Shows
  <2>5. board' \in [Sym -> State] /\ board'[s] = u /\ \A x \in Sym : x # s => board'[x] = brd[x]
    BY <1>12, <2>1, <2>2, <2>4
  <2>6. books' \in [Quoted -> BookRec] /\ books'[s] = c /\ \A x \in Quoted : x # s => books'[x] = books[x]
    BY <1>2, <1>9, <2>1
  <2>7. Ladders(books', os2, ls)
    BY <1>10, <1>11, <2>6 DEF Ladders
  <2>8. Quotes(books', board')
    BY <1>9, <1>12, <2>4, <2>5, <2>6 DEF Quotes
  <2>9. \A x \in Sym : SameStats(brd[x], board'[x])
    BY <2>4, <2>5 DEF SameStats
  <2> QED BY <2>5, <2>7, <2>8, <2>9
<1>14. CASE b.pub = t
  <2>1. books' = [books EXCEPT ![s] = b] /\ board' = brd
    BY <1>1, <1>6, <1>14 DEF Relevel, Changed, TopOf
  <2>2. LadderOf(b, os2, ls, s)
    BY <1>4, <1>5, <1>6, <1>14 DEF LadderOf
  <2>3. books' \in [Quoted -> BookRec] /\ books'[s] = b /\ \A x \in Quoted : x # s => books'[x] = books[x]
    BY <1>2, <1>4, <2>1
  <2>4. Ladders(books', os2, ls)
    BY <1>11, <2>2, <2>3 DEF Ladders
  <2>5. Quotes(books', board')
    BY <1>4, <2>1, <2>3 DEF Quotes
  <2>6. \A x \in Sym : SameStats(brd[x], board'[x])
    BY <2>1 DEF SameStats
  <2> QED BY <2>1, <2>4, <2>5, <2>6
<1> QED BY <1>13, <1>14

\* Orders that lost shares, an order that was entered.
Lowered(os, os2, ls, o, k) ==
  \A s \in Quoted, side \in Side : RestIn(os2, ls, s, side) = Minus(RestIn(os, ls, s, side), o, s, side, ls, k)
Raised(os, os2, ls, o) ==
  \A s \in Quoted, side \in Side : RestIn(os2, ls, s, side) = Plus(RestIn(os, ls, s, side), o, s, side, ls)

LEMMA LoweredElsewhere ==
  ASSUME NEW os, NEW os2, NEW ls, NEW o, NEW k, Lowered(os, os2, ls, o, k)
  PROVE  Elsewhere(os, os2, ls, ls[o.locate], o.side)
  BY DEF Lowered, Minus, Elsewhere

LEMMA RaisedElsewhere ==
  ASSUME NEW os, NEW os2, NEW ls, NEW o, Raised(os, os2, ls, o)
  PROVE  Elsewhere(os, os2, ls, ls[o.locate], o.side)
  BY DEF Raised, Plus, Elsewhere

LEMMA ElsewhereTwice ==
  ASSUME NEW os, NEW mid, NEW os2, NEW ls, NEW sym, NEW side,
         Elsewhere(os, mid, ls, sym, side), Elsewhere(mid, os2, ls, sym, side)
  PROVE  Elsewhere(os, os2, ls, sym, side)
  BY DEF Elsewhere

\* remove() of what the order had or less leaves the ladder of the orders left.
LEMMA LoweredLadder ==
  ASSUME NEW os, Table(os), NEW os2, NEW ls, NEW ref \in DOMAIN os, NEW o, o = os[ref], NEW k \in Nat \ {0},
         k <= o.shares, Lowered(os, os2, ls, o, k), ls[o.locate] \in Quoted, NEW lv,
         Represents(o.side, lv, RestIn(os, ls, ls[o.locate], o.side))
  PROVE  Represents(o.side, remove(o.side, lv, o.price, k), RestIn(os2, ls, ls[o.locate], o.side))
<1>1. PICK s, side, q, p : s = ls[o.locate] /\ side = o.side /\ q = RestIn(os, ls, s, side) /\ p = o.price
  OBVIOUS
<1>2. o \in Order
  BY DEF Table
<1>3. side \in Side /\ p \in Prices /\ o.shares \in Nat /\ s \in Quoted
  BY <1>1, <1>2, OrderFields
<1>4. ref \in LiveIn(os, ls, s, side, p)
  BY <1>1 DEF LiveIn
<1>5. q \in [Prices -> Nat] /\ o.shares <= q[p]
  BY <1>1, <1>3, <1>4, RestType
<1>6. k <= q[p]
  BY <1>3, <1>5
<1>7. Represents(side, remove(side, lv, p, k), [q EXCEPT ![p] = @ - k])
  BY <1>1, <1>3, <1>5, <1>6, RemoveRepresents
<1>8. RestIn(os2, ls, s, side) = [q EXCEPT ![p] = @ - k]
  BY <1>1, <1>3 DEF Lowered, Minus
<1> QED BY <1>1, <1>7, <1>8

LEMMA RaisedLadder ==
  ASSUME NEW os, Table(os), NEW os2, NEW ls, NEW o \in Order, Raised(os, os2, ls, o), ls[o.locate] \in Quoted, NEW lv,
         Represents(o.side, lv, RestIn(os, ls, ls[o.locate], o.side))
  PROVE  Represents(o.side, add(o.side, lv, o.price, o.shares), RestIn(os2, ls, ls[o.locate], o.side))
<1>1. PICK s, side, q, p, n : /\ s = ls[o.locate] /\ side = o.side /\ q = RestIn(os, ls, s, side)
                              /\ p = o.price /\ n = o.shares
  OBVIOUS
<1>2. side \in Side /\ p \in Prices /\ n \in Nat \ {0} /\ s \in Quoted
  BY <1>1, OrderFields
<1>3. q \in [Prices -> Nat]
  BY <1>1, RestType
<1>4. Represents(side, add(side, lv, p, n), [q EXCEPT ![p] = @ + n])
  BY <1>1, <1>2, <1>3, AddRepresents
<1>5. RestIn(os2, ls, s, side) = [q EXCEPT ![p] = @ + n]
  BY <1>1, <1>2 DEF Raised, Plus
<1> QED BY <1>1, <1>4, <1>5

\* Orders of a symbol without ladders change no ladder.
LEMMA NoLadder ==
  ASSUME NEW os, NEW os2, NEW ls, NEW sym, sym \notin Quoted, NEW side, Elsewhere(os, os2, ls, sym, side),
         NEW bks, Ladders(bks, os, ls)
  PROVE  Ladders(bks, os2, ls)
<1>1. ASSUME NEW s \in Quoted PROVE LadderOf(bks[s], os2, ls, s)
  <2>1. \A x \in Side : RestIn(os2, ls, s, x) = RestIn(os, ls, s, x)
    BY DEF Elsewhere
  <2> QED BY <2>1 DEF Ladders, LadderOf
<1> QED BY <1>1 DEF Ladders

-----------------------------------------------------------------------------
(* The inductive invariant, part by part *)

\* A reference is in the table only after the exchange used it, and every
\* order there is of a stock the directory has named: a code is named once, so
\* no order changes its stock.
OrdersKnown(os, ls, nr) ==
  /\ Table(os) /\ nr \in Nat
  /\ \A r \in DOMAIN os : r \in Nat /\ r < nr /\ ls[os[r].locate] \in Sym

BookIInv ==
  /\ locate_to_sym \in [Locate -> Sym \union {Invalid}]
  /\ OrdersKnown(orders, locate_to_sym, nextRef)
  /\ Ladders(books, orders, locate_to_sym)
  /\ Quotes(books, board)
  /\ minute \in Nat /\ BoardStats(board, prints, minute)

LEMMA BoardAlike ==
  ASSUME NEW brd, NEW prs, NEW now, BoardStats(brd, prs, now), NEW brd2 \in [Sym -> State],
         \A s \in Sym : SameStats(brd[s], brd2[s])
  PROVE  BoardStats(brd2, prs, now)
<1>1. ASSUME NEW s \in Sym PROVE Stats(brd2[s], prs, s, now)
  <2>1. Stats(brd[s], prs, s, now) /\ SameStats(brd[s], brd2[s])
    BY DEF BoardStats
  <2> QED BY <2>1, StatsAlike
<1> QED BY <1>1 DEF BoardStats

LEMMA QuotesAlike ==
  ASSUME NEW bks, NEW brd, NEW brd2, Quotes(bks, brd), \A s \in Sym : SameQuote(brd[s], brd2[s])
  PROVE  Quotes(bks, brd2)
<1>1. Quoted \subseteq Sym
  BY BookAssumption
<1> QED BY <1>1 DEF Quotes, Shows, SameQuote

\* The first state: nothing rests, nothing has been printed.
LEMMA BookStart == ASSUME BookInit PROVE BookIInv
<1>1. locate_to_sym \in [Locate -> Sym \union {Invalid}]
  BY DEF BookInit
<1>2. DOMAIN orders = {} /\ Table(orders)
  <2>1. orders = <<>> /\ DOMAIN orders = {}
    BY DEF BookInit
  <2>2. IsFiniteSet({})
    BY FS_EmptySet
  <2>3. orders \in [{} -> Order]
    BY <2>1
  <2> QED BY <2>1, <2>2, <2>3 DEF Table
<1>3. OrdersKnown(orders, locate_to_sym, nextRef)
  BY <1>2 DEF BookInit, OrdersKnown
<1>4. ASSUME NEW s, NEW side, NEW p \in Prices PROVE RestIn(orders, locate_to_sym, s, side)[p] = 0
  <2>1. LiveIn(orders, locate_to_sym, s, side, p) = {}
    BY <1>2 DEF LiveIn
  <2> QED BY <1>2, <2>1, RestType
<1>5. Best(<<>>) = [price |-> 0, qty |-> 0]
  BY DEF Best
<1>6. ASSUME NEW s \in Quoted PROVE LadderOf(books[s], orders, locate_to_sym, s) /\ Shows(books[s].pub, board[s])
  <2>1. books[s] = [B |-> <<>>, S |-> <<>>, pub |-> Top] /\ <<>> \in Seq(Level)
    BY DEF BookInit
  <2>2. Top \in TopRec
    BY DEF Top, TopRec
  <2>3. books[s] \in BookRec
    BY <2>1, <2>2 DEF BookRec
  <2>4. TopOf(books[s]) = Top
    BY <1>5, <2>1 DEF TopOf, Top
  <2>5. ASSUME NEW side \in Side PROVE Represents(side, books[s][side], RestIn(orders, locate_to_sym, s, side))
    <3>1. books[s][side] = <<>>
      BY <2>1 DEF Side
    <3>2. Len(<<>>) = 0
      OBVIOUS
    <3>3. PICK q : q = RestIn(orders, locate_to_sym, s, side)
      OBVIOUS
    <3>4. \A p \in Prices : q[p] = 0
      BY <1>4, <3>3
    <3>5. PICK lv : lv = <<>>
      OBVIOUS
    <3>6. lv \in Seq(Level) /\ 1 .. Len(lv) = {}
      BY <3>2, <3>5
    <3>7. Represents(side, lv, q)
      BY <3>4, <3>6 DEF Represents, Sorted
    <3> QED BY <3>1, <3>3, <3>5, <3>7
  <2>6. board[s].bid = 0 /\ board[s].ask = 0 /\ board[s].bid_sz = 0 /\ board[s].ask_sz = 0
    BY BookAssumption DEF BookInit, EmptyState
  <2>7. Min({0, MaxSize}) = 0
    BY MinOfTwo, BoardAssumption
  <2>8. Shows(Top, board[s])
    BY <2>6, <2>7 DEF Shows, Top
  <2> QED BY <2>1, <2>3, <2>4, <2>5, <2>8 DEF LadderOf
<1>7. Ladders(books, orders, locate_to_sym) /\ Quotes(books, board)
  <2>1. books \in [Quoted -> BookRec]
    BY <1>6 DEF BookInit, LadderOf
  <2> QED BY <1>6, <2>1 DEF Ladders, Quotes
<1>8. EmptyState \in State /\ \A j \in Slots : EmptyState.bars[j].minute = -1
  <2>1. NoBar \in Bar /\ NoBar.minute = -1
    BY DEF NoBar, Bar
  <2>2. [i \in 0 .. BarRing - 1 |-> NoBar] \in [Slots -> Bar]
    BY <2>1 DEF Slots
  <2> QED BY <2>1, <2>2 DEF EmptyState, State, Slots
<1>9. minute = 0 /\ prints = <<>> /\ Printing(prints, minute)
  BY DEF BookInit, Printing
<1>10. \A s : Of(prints, s) = {}
  BY <1>9 DEF Of
<1>11. ASSUME NEW s \in Sym PROVE Stats(board[s], prints, s, minute)
  <2>1. board[s] = EmptyState
    BY DEF BookInit
  <2>3. TotalsAre(EmptyState, prints, {})
    <3>1. Cardinality({}) = 0
      BY FS_EmptySet
    <3>2. Total([i \in {} |-> prints[i].shares]) = 0 /\ Total([i \in {} |-> prints[i].price * prints[i].shares]) = 0
      <4>1. PICK v, w : v = [i \in {} |-> prints[i].shares] /\ w = [i \in {} |-> prints[i].price * prints[i].shares]
        OBVIOUS
      <4>2. DOMAIN v = {} /\ v = [x \in {} |-> v[x]] /\ DOMAIN w = {} /\ w = [x \in {} |-> w[x]]
        BY <4>1
      <4>3. Total(v) = 0 /\ Total(w) = 0
        BY <4>2, TotalEmpty
      <4> QED BY <4>1, <4>3
    <3> QED BY <3>1, <3>2 DEF TotalsAre, EmptyState
  <2>4. ExtremesAre(EmptyState, prints, {})
    BY DEF ExtremesAre, EmptyState
  <2>5. BarsAre(EmptyState, prints, {}, minute)
    <3>1. Ring(EmptyState.bars, minute)
      BY <1>8 DEF Ring
    <3>2. ASSUME NEW m \in Nat PROVE Since(EmptyState.bars, m) = SharesFrom(prints, {}, m)
      <4>1. PICK v, w : /\ v = [i \in {j \in DOMAIN EmptyState.bars : EmptyState.bars[j].minute >= m} |-> EmptyState.bars[i].volume]
                        /\ w = [i \in {j \in {} : prints[j].minute >= m} |-> prints[i].shares]
        OBVIOUS
      <4>2. {j \in DOMAIN EmptyState.bars : EmptyState.bars[j].minute >= m} = {}
        <5>1. DOMAIN EmptyState.bars = Slots
          BY DEF EmptyState, Slots
        <5> QED BY <1>8, <5>1
      <4>3. DOMAIN v = {} /\ v = [x \in {} |-> v[x]] /\ DOMAIN w = {} /\ w = [x \in {} |-> w[x]]
        BY <4>1, <4>2
      <4>4. Total(v) = 0 /\ Total(w) = 0
        BY <4>3, TotalEmpty
      <4> QED BY <4>1, <4>4 DEF Since, SharesFrom
    <3> QED BY <1>8, <3>1, <3>2 DEF BarsAre
  <2> QED BY <1>10, <2>1, <2>3, <2>4, <2>5 DEF Stats
<1>12. BoardStats(board, prints, minute)
  <2>1. board \in [Sym -> State]
    BY <1>8 DEF BookInit
  <2> QED BY <1>9, <1>11, <2>1 DEF BoardStats
<1> QED BY <1>1, <1>3, <1>7, <1>9, <1>12 DEF BookIInv

LEMMA NextMinuteKeeps == ASSUME BookIInv, NextMinute PROVE BookIInv'
<1>1. BoardStats(board, prints, minute + 1)
  <2>1. minute \in Nat /\ board \in [Sym -> State] /\ Printing(prints, minute)
    BY DEF BookIInv, BoardStats
  <2>2. Printing(prints, minute + 1)
    <3>1. prints \in Seq(PrintRec) /\ \A i \in DOMAIN prints : prints[i] \in PrintRec /\ prints[i].minute <= minute
      BY <2>1 DEF Printing
    <3>2. \A i \in DOMAIN prints : prints[i].minute \in Nat
      BY <3>1, PrintFields
    <3> QED BY <2>1, <3>1, <3>2 DEF Printing
  <2>3. ASSUME NEW s \in Sym PROVE Stats(board[s], prints, s, minute + 1)
    <3>1. Stats(board[s], prints, s, minute) /\ board[s] \in State
      BY <2>1 DEF BookIInv, BoardStats
    <3> QED BY <2>1, <3>1, StatsLater
  <2> QED BY <2>1, <2>2, <2>3 DEF BoardStats
<1> QED BY <1>1 DEF BookIInv, NextMinute

LEMMA DirectoryKeeps == ASSUME BookIInv, NEW l \in Locate, on_stock_directory(l) PROVE BookIInv'
<1>1. PICK ls : ls = locate_to_sym'
  OBVIOUS
<1>2. ls \in [Locate -> Sym \union {Invalid}] /\ \A x \in Locate : x # l => ls[x] = locate_to_sym[x]
  BY <1>1, BookAssumption DEF BookIInv, on_stock_directory
<1>3. OrdersKnown(orders, locate_to_sym, nextRef) /\ Table(orders)
  BY DEF BookIInv, OrdersKnown
<1>4. \A r \in DOMAIN orders : orders[r].locate \in Locate /\ orders[r].locate # l
  <2>1. ASSUME NEW r \in DOMAIN orders PROVE orders[r].locate \in Locate /\ orders[r].locate # l
    <3>1. orders[r] \in Order /\ locate_to_sym[orders[r].locate] \in Sym
      BY <1>3 DEF OrdersKnown, Table
    <3>2. locate_to_sym[l] \notin Sym
      BY BookAssumption DEF on_stock_directory
    <3> QED BY <3>1, <3>2, OrderFields
  <2> QED BY <2>1
<1>5. \A r \in DOMAIN orders : ls[orders[r].locate] = locate_to_sym[orders[r].locate]
  BY <1>2, <1>4
<1>6. \A s, side : RestIn(orders, ls, s, side) = RestIn(orders, locate_to_sym, s, side)
  <2>1. \A s, side, p : LiveIn(orders, ls, s, side, p) = LiveIn(orders, locate_to_sym, s, side, p)
    BY <1>5 DEF LiveIn
  <2> QED BY <2>1 DEF RestIn
<1>7. OrdersKnown(orders, ls, nextRef)
  BY <1>3, <1>5 DEF OrdersKnown
<1>8. Ladders(books, orders, ls)
  BY <1>6 DEF BookIInv, Ladders, LadderOf
<1> QED BY <1>1, <1>2, <1>7, <1>8 DEF BookIInv, on_stock_directory

\* The board a print leaves, before the order it came from is reduced.
WellPrinted(brd, prs) == BoardStats(brd, prs, minute) /\ brd \in [Sym -> State] /\ Quotes(books, brd)

LEMMA Print1Keeps ==
  ASSUME BookIInv, NEW sym \in Sym \union {Invalid}, NEW px \in Nat, NEW n \in Nat, Print1(sym, px, n),
         NEW t, sym # Invalid => AfterPrint(board[sym], px, n, minute, t),
         NEW brd, brd = IF sym = Invalid THEN board ELSE [board EXCEPT ![sym] = t]
  PROVE  WellPrinted(brd, prints')
<1>1. BoardStats(board, prints, minute) /\ board \in [Sym -> State] /\ Quotes(books, board) /\ minute \in Nat
  BY DEF BookIInv, BoardStats
<1>2. CASE sym = Invalid
  BY <1>1, <1>2 DEF WellPrinted, Print1
<1>3. CASE sym # Invalid
  <2>1. PICK e : e = [sym |-> sym, price |-> px, shares |-> n, minute |-> minute]
    OBVIOUS
  <2>2. e \in PrintRec /\ e.sym = sym /\ e.price = px /\ e.shares = n /\ e.minute = minute
    BY <1>1, <1>3, <2>1 DEF PrintRec
  <2>3. Appended(prints, e, prints')
    BY <1>3, <2>1 DEF Print1, Appended
  <2>4. AfterPrint(board[e.sym], e.price, e.shares, minute, t) /\ SetAt(board, e.sym, t, brd)
    BY <1>3, <2>2 DEF SetAt
  <2>5. BoardStats(brd, prints', minute) /\ \A s \in Sym : SameQuote(board[s], brd[s])
    BY <1>1, <2>2, <2>3, <2>4, PrintKeeps
  <2>6. Quotes(books, brd)
    BY <1>1, <2>5, QuotesAlike
  <2> QED BY <2>5, <2>6 DEF WellPrinted, BoardStats
<1> QED BY <1>2, <1>3

LEMMA PrintedKeeps ==
  ASSUME BookIInv, NEW sym \in Sym \union {Invalid}, NEW px \in Nat, NEW n \in Nat, Print1(sym, px, n)
  PROVE  WellPrinted(Printed(board, sym, px, n), prints')
<1>1. PICK t, brd : t = trade(board[sym], px, n, minute) /\ brd = Printed(board, sym, px, n)
  OBVIOUS
<1>2. brd = IF sym = Invalid THEN board ELSE [board EXCEPT ![sym] = t]
  BY <1>1 DEF Printed
<1>3. ASSUME sym # Invalid PROVE AfterPrint(board[sym], px, n, minute, t)
  <2>1. board[sym] \in State /\ minute \in Nat
    BY <1>3 DEF BookIInv, BoardStats
  <2> QED BY <1>1, <2>1, TradePrints
<1>4. WellPrinted(brd, prints')
  BY <1>2, <1>3, Print1Keeps
<1> QED BY <1>1, <1>4

\* The parts of the invariant that a message may change, with the board
\* compared with brd in what is not a quote.
LadderStep(brd) ==
  /\ Ladders(books', orders', locate_to_sym) /\ Quotes(books', board')
  /\ board' \in [Sym -> State] /\ \A x \in Sym : SameStats(brd[x], board'[x])

\* An order loses shares, or goes.
TakenFrom(os, ref, n, os2) ==
  os2 = IF n >= os[ref].shares THEN [r \in DOMAIN os \ {ref} |-> os[r]] ELSE [os EXCEPT ![ref].shares = @ - n]

LEMMA RestTaken ==
  ASSUME NEW os, Table(os), NEW ref \in DOMAIN os, NEW n \in Nat \ {0}, NEW k, k = Taken(os[ref], n), NEW ls, NEW os2,
         TakenFrom(os, ref, n, os2)
  PROVE  /\ Table(os2) /\ DOMAIN os2 \subseteq DOMAIN os /\ \A r \in DOMAIN os2 : os2[r].locate = os[r].locate
         /\ k \in Nat \ {0} /\ k <= os[ref].shares /\ Lowered(os, os2, ls, os[ref], k)
<1>1. os[ref] \in Order /\ os[ref].shares \in Nat \ {0}
  <2>1. os[ref] \in Order
    BY DEF Table
  <2> QED BY <2>1, OrderFields
<1>2. k = IF n <= os[ref].shares THEN n ELSE os[ref].shares
  <2>1. PICK m : m = os[ref].shares
    OBVIOUS
  <2>2. Min({n, m}) = IF n <= m THEN n ELSE m
    BY <1>1, <2>1, MinOfTwo
  <2> QED BY <2>1, <2>2 DEF Taken
<1>3. k \in Nat \ {0} /\ k <= os[ref].shares
  BY <1>1, <1>2
<1>4. CASE n >= os[ref].shares
  <2>1. LeftOf(os, ref, os2) /\ k = os[ref].shares
    BY <1>1, <1>2, <1>4 DEF TakenFrom, LeftOf
  <2>2. Table(os2) /\ DOMAIN os2 = DOMAIN os \ {ref} /\ \A r \in DOMAIN os2 : os2[r] = os[r]
    <3>1. Table(os2)
      BY <2>1, TableRemoved
    <3> QED BY <2>1, <3>1 DEF LeftOf
  <2>3. ASSUME NEW s \in Quoted, NEW side \in Side
        PROVE  RestIn(os2, ls, s, side) = Minus(RestIn(os, ls, s, side), os[ref], s, side, ls, k)
    BY <2>1, RestRemoved
  <2> QED BY <1>3, <2>2, <2>3 DEF Lowered
<1>5. CASE ~ (n >= os[ref].shares)
  <2>1. Reduced(os, ref, n, os2) /\ k = n /\ n < os[ref].shares
    BY <1>1, <1>2, <1>5 DEF TakenFrom, Reduced
  <2>2. ASSUME NEW s, NEW side
        PROVE  /\ Table(os2) /\ DOMAIN os2 = DOMAIN os /\ \A r \in DOMAIN os : os2[r].locate = os[r].locate
               /\ RestIn(os2, ls, s, side) = Minus(RestIn(os, ls, s, side), os[ref], s, side, ls, n)
    BY <2>1, RestReduced
  <2> QED BY <1>3, <2>1, <2>2 DEF Lowered
<1> QED BY <1>4, <1>5

\* reduce(), whatever the message that called it has printed.
LEMMA ReduceKeeps ==
  ASSUME BookIInv, NEW brd \in [Sym -> State], Quotes(books, brd), NEW ref \in DOMAIN orders, NEW n \in Nat \ {0},
         Reduce(ref, n, brd)
  PROVE  OrdersKnown(orders', locate_to_sym, nextRef) /\ LadderStep(brd)
<1>1. /\ Table(orders) /\ Ladders(books, orders, locate_to_sym) /\ nextRef \in Nat
      /\ \A r \in DOMAIN orders : r \in Nat /\ r < nextRef /\ locate_to_sym[orders[r].locate] \in Sym
  BY DEF BookIInv, OrdersKnown
<1>2. PICK ls, o, k, s : ls = locate_to_sym /\ o = orders[ref] /\ k = Taken(o, n) /\ s = ls[o.locate]
  OBVIOUS
<1>3. TakenFrom(orders, ref, n, orders')
  BY DEF Reduce, Without, TakenFrom
<1>4. /\ Table(orders') /\ DOMAIN orders' \subseteq DOMAIN orders
      /\ \A r \in DOMAIN orders' : orders'[r].locate = orders[r].locate
      /\ k \in Nat \ {0} /\ k <= o.shares /\ Lowered(orders, orders', ls, o, k)
  BY <1>1, <1>2, <1>3, RestTaken
<1>5. OrdersKnown(orders', locate_to_sym, nextRef)
  BY <1>1, <1>4 DEF OrdersKnown
<1>6. Elsewhere(orders, orders', ls, s, o.side)
  BY <1>2, <1>4, LoweredElsewhere
<1>7. o.side \in Side
  <2>1. o \in Order
    BY <1>1, <1>2 DEF Table
  <2> QED BY <2>1, OrderFields
<1>8. CASE s \in Quoted
  <2>1. PICK lv : lv = remove(o.side, books[s][o.side], o.price, k)
    OBVIOUS
  <2>2. Relevel(s, o.side, lv, brd)
    BY <1>2, <1>8, <2>1 DEF Reduce
  <2>3. Represents(o.side, books[s][o.side], RestIn(orders, ls, s, o.side))
    BY <1>1, <1>2, <1>7, <1>8 DEF Ladders, LadderOf
  <2>4. Represents(o.side, lv, RestIn(orders', ls, s, o.side))
    BY <1>1, <1>2, <1>4, <1>8, <2>1, <2>3, LoweredLadder
  <2>5. /\ Ladders(books', orders', ls) /\ Quotes(books', board')
        /\ board' \in [Sym -> State] /\ \A x \in Sym : SameStats(brd[x], board'[x])
    BY <1>1, <1>2, <1>4, <1>6, <1>7, <1>8, <2>2, <2>4, RelevelKeeps
  <2> QED BY <1>2, <1>5, <2>5 DEF LadderStep
<1>9. CASE s \notin Quoted
  <2>1. books' = books /\ board' = brd
    BY <1>2, <1>9 DEF Reduce
  <2>2. Ladders(books, orders', ls)
    BY <1>1, <1>2, <1>6, <1>9, NoLadder
  <2> QED BY <1>2, <1>5, <2>1, <2>2 DEF LadderStep, SameStats
<1> QED BY <1>8, <1>9

\* What a step has to show once the ladders have followed the orders.
LEMMA StepDone ==
  ASSUME BookIInv, NEW brd, WellPrinted(brd, prints'), LadderStep(brd), UNCHANGED <<locate_to_sym, minute>>,
         OrdersKnown(orders', locate_to_sym, nextRef')
  PROVE  BookIInv'
<1>1. BoardStats(brd, prints', minute) /\ board' \in [Sym -> State] /\ \A x \in Sym : SameStats(brd[x], board'[x])
  BY DEF WellPrinted, LadderStep
<1>2. BoardStats(board', prints', minute)
  BY <1>1, BoardAlike
<1> QED BY <1>2 DEF BookIInv, LadderStep

LEMMA NothingPrinted == ASSUME BookIInv, prints' = prints PROVE WellPrinted(board, prints')
  BY DEF BookIInv, BoardStats, WellPrinted

LEMMA NothingRests ==
  ASSUME BookIInv, NEW brd, WellPrinted(brd, prints'), board' = brd, UNCHANGED <<orders, books>>
  PROVE  LadderStep(brd)
  BY DEF BookIInv, WellPrinted, LadderStep, SameStats

LEMMA OrderSymbol ==
  ASSUME BookIInv, NEW ref \in DOMAIN orders
  PROVE  /\ orders[ref] \in Order /\ locate_to_sym[orders[ref].locate] \in Sym
         /\ orders[ref].price \in Nat /\ orders[ref].shares \in 1 .. MaxShares /\ orders[ref].shares \in Nat \ {0}
<1>1. orders[ref] \in Order /\ locate_to_sym[orders[ref].locate] \in Sym
  BY DEF BookIInv, OrdersKnown, Table
<1> QED BY <1>1, OrderFields

LEMMA CancelKeeps ==
  ASSUME BookIInv, NEW ref, NEW n \in Nat \ {0}, on_cancel(ref, n)
  PROVE  BookIInv'
<1>1. ref \in DOMAIN orders /\ Reduce(ref, n, board) /\ prints' = prints
  BY DEF on_cancel, Known
<1>2. WellPrinted(board, prints')
  BY <1>1, NothingPrinted
<1>3. board \in [Sym -> State] /\ Quotes(books, board)
  BY <1>2 DEF WellPrinted
<1>4. OrdersKnown(orders', locate_to_sym, nextRef) /\ LadderStep(board)
  BY <1>1, <1>3, ReduceKeeps
<1> QED BY <1>2, <1>4, StepDone DEF on_cancel

LEMMA DeleteKeeps == ASSUME BookIInv, NEW ref, on_delete(ref) PROVE BookIInv'
<1>1. ref \in DOMAIN orders /\ on_cancel(ref, orders[ref].shares)
  BY DEF on_delete, Known
<1>2. orders[ref].shares \in Nat \ {0}
  BY <1>1, OrderSymbol
<1> QED BY <1>1, <1>2, CancelKeeps

LEMMA ExecutedKeeps ==
  ASSUME BookIInv, NEW ref, NEW n \in Nat \ {0}, on_executed(ref, n)
  PROVE  BookIInv'
<1>1. PICK sym, px, brd : /\ sym = locate_to_sym[orders[ref].locate] /\ px = orders[ref].price
                          /\ brd = Printed(board, sym, px, n)
  OBVIOUS
<1>2. ref \in DOMAIN orders /\ Print1(sym, px, n) /\ Reduce(ref, n, brd)
  BY <1>1 DEF on_executed, Known
<1>3. sym \in Sym /\ px \in Nat
  BY <1>1, <1>2, OrderSymbol
<1>4. WellPrinted(brd, prints')
  BY <1>1, <1>2, <1>3, PrintedKeeps
<1>5. brd \in [Sym -> State] /\ Quotes(books, brd)
  BY <1>4 DEF WellPrinted
<1>6. OrdersKnown(orders', locate_to_sym, nextRef) /\ LadderStep(brd)
  BY <1>2, <1>5, ReduceKeeps
<1> QED BY <1>4, <1>6, StepDone DEF on_executed

LEMMA ExecutedPriceKeeps ==
  ASSUME BookIInv, NEW l \in Locate, NEW ref, NEW n \in Nat \ {0}, NEW printable \in BOOLEAN, NEW px \in Nat,
         on_executed_price(l, ref, n, printable, px)
  PROVE  BookIInv'
<1>1. PICK sym, brd : sym = locate_to_sym[l] /\ brd = IF printable THEN Printed(board, sym, px, n) ELSE board
  OBVIOUS
<1>2. sym \in Sym \union {Invalid}
  BY <1>1 DEF BookIInv
<1>3. WellPrinted(brd, prints')
  <2>1. CASE printable
    <3>1. Print1(sym, px, n) /\ brd = Printed(board, sym, px, n)
      BY <1>1, <2>1 DEF on_executed_price
    <3> QED BY <1>2, <3>1, PrintedKeeps
  <2>2. CASE ~ printable
    <3>1. prints' = prints /\ brd = board
      BY <1>1, <2>2 DEF on_executed_price
    <3> QED BY <3>1, NothingPrinted
  <2> QED BY <2>1, <2>2
<1>4. brd \in [Sym -> State] /\ Quotes(books, brd)
  BY <1>3 DEF WellPrinted
<1>5. OrdersKnown(orders', locate_to_sym, nextRef) /\ LadderStep(brd)
  <2>1. CASE ref \in DOMAIN orders
    <3>1. Reduce(ref, n, brd)
      BY <1>1, <2>1 DEF on_executed_price, Known
    <3> QED BY <1>4, <2>1, <3>1, ReduceKeeps
  <2>2. CASE ref \notin DOMAIN orders
    <3>1. board' = brd /\ UNCHANGED <<orders, books>>
      BY <1>1, <2>2 DEF on_executed_price, Known
    <3>2. LadderStep(brd)
      BY <1>3, <3>1, NothingRests
    <3> QED BY <3>1, <3>2 DEF BookIInv
  <2> QED BY <2>1, <2>2
<1>6. UNCHANGED <<locate_to_sym, minute, nextRef>>
  BY DEF on_executed_price
<1> QED BY <1>3, <1>5, <1>6, StepDone

LEMMA TradeKeeps ==
  ASSUME BookIInv, NEW l \in Locate, NEW n \in Nat, NEW px \in Nat, on_trade(l, n, px)
  PROVE  BookIInv'
<1>1. PICK sym, brd : sym = locate_to_sym[l] /\ brd = Printed(board, sym, px, n)
  OBVIOUS
<1>2. sym \in Sym \union {Invalid} /\ Print1(sym, px, n) /\ board' = brd
  BY <1>1 DEF BookIInv, on_trade
<1>3. WellPrinted(brd, prints')
  BY <1>1, <1>2, PrintedKeeps
<1>4. LadderStep(brd)
  BY <1>2, <1>3, NothingRests DEF on_trade
<1>5. OrdersKnown(orders', locate_to_sym, nextRef')
  BY DEF BookIInv, on_trade
<1> QED BY <1>3, <1>4, <1>5, StepDone DEF on_trade

LEMMA CrossKeeps ==
  ASSUME BookIInv, NEW l \in Locate, NEW n \in Nat, NEW px \in Nat, NEW type, on_cross(l, n, px, type)
  PROVE  BookIInv'
<1>1. PICK sym, t, brd : /\ sym = locate_to_sym[l] /\ t = cross(board[sym], px, n, minute, type)
                         /\ brd = IF sym = Invalid THEN board ELSE [board EXCEPT ![sym] = t]
  OBVIOUS
<1>2. sym \in Sym \union {Invalid} /\ Print1(sym, px, n) /\ board' = brd
  BY <1>1 DEF BookIInv, on_cross
<1>3. ASSUME sym # Invalid PROVE AfterPrint(board[sym], px, n, minute, t)
  <2>1. board[sym] \in State /\ minute \in Nat
    BY <1>2, <1>3 DEF BookIInv, BoardStats
  <2> QED BY <1>1, <2>1, CrossPrints
<1>4. WellPrinted(brd, prints')
  BY <1>1, <1>2, <1>3, Print1Keeps
<1>5. LadderStep(brd)
  BY <1>2, <1>4, NothingRests DEF on_cross
<1>6. OrdersKnown(orders', locate_to_sym, nextRef')
  BY DEF BookIInv, on_cross
<1> QED BY <1>4, <1>5, <1>6, StepDone DEF on_cross

LEMMA EnteredRaises ==
  ASSUME NEW os, Table(os), NEW ref, ref \notin DOMAIN os, NEW o \in Order, NEW os2, Entered(os, ref, o, os2), NEW ls
  PROVE  Table(os2) /\ Raised(os, os2, ls, o)
<1>1. Table(os2)
  BY TableAdded
<1>2. ASSUME NEW s \in Quoted, NEW side \in Side
      PROVE  RestIn(os2, ls, s, side) = Plus(RestIn(os, ls, s, side), o, s, side, ls)
  BY RestAdded
<1> QED BY <1>1, <1>2 DEF Raised

\* The exchange's next reference is new to the table.
LEMMA EnteredKnown ==
  ASSUME NEW os, NEW ls, NEW nr, OrdersKnown(os, ls, nr), NEW os1, Table(os1), DOMAIN os1 \subseteq DOMAIN os,
         \A r \in DOMAIN os1 : os1[r] = os[r], NEW o \in Order, ls[o.locate] \in Sym,
         NEW os2, Entered(os1, nr, o, os2)
  PROVE  nr \notin DOMAIN os1 /\ OrdersKnown(os2, ls, nr + 1)
<1>1. nr \in Nat /\ \A r \in DOMAIN os : r \in Nat /\ r < nr /\ ls[os[r].locate] \in Sym
  BY DEF OrdersKnown
<1>2. nr \notin DOMAIN os1
  BY <1>1
<1>3. Table(os2)
  BY <1>2, TableAdded
<1>4. DOMAIN os2 = DOMAIN os1 \union {nr} /\ os2[nr] = o /\ \A r \in DOMAIN os1 : r # nr => os2[r] = os1[r]
  BY DEF Entered, With
<1>5. ASSUME NEW r \in DOMAIN os2 PROVE r \in Nat /\ r < nr + 1 /\ ls[os2[r].locate] \in Sym
  <2>1. CASE r = nr
    BY <1>1, <1>4, <2>1
  <2>2. CASE r # nr
    <3>1. r \in DOMAIN os1 /\ r \in DOMAIN os /\ os2[r] = os[r]
      BY <1>4, <2>2
    <3> QED BY <1>1, <3>1
  <2> QED BY <2>1, <2>2
<1>6. nr + 1 \in Nat
  BY <1>1
<1> QED BY <1>2, <1>3, <1>5, <1>6 DEF OrdersKnown

LEMMA AddKeeps ==
  ASSUME BookIInv, NEW l \in Locate, NEW side \in Side, NEW n \in 1 .. MaxShares, NEW px \in Prices,
         on_add(l, side, n, px)
  PROVE  BookIInv'
<1>1. PICK sym, o, ls : /\ sym = locate_to_sym[l] /\ ls = locate_to_sym
                        /\ o = [price |-> px, shares |-> n, locate |-> l, side |-> side]
  OBVIOUS
<1>2. /\ sym \in Sym \union {Invalid} /\ OrdersKnown(orders, ls, nextRef) /\ Table(orders)
      /\ Ladders(books, orders, ls) /\ nextRef \in Nat
  BY <1>1 DEF BookIInv, OrdersKnown
<1>3. WellPrinted(board, prints') /\ nextRef' = nextRef + 1 /\ UNCHANGED <<locate_to_sym, minute>>
  BY NothingPrinted DEF on_add
<1>4. board \in [Sym -> State] /\ Quotes(books, board)
  BY <1>3 DEF WellPrinted
<1>5. CASE sym = Invalid
  <2>1. UNCHANGED <<orders, books, board>>
    BY <1>1, <1>5 DEF on_add
  <2>2. LadderStep(board)
    BY <1>3, <2>1, NothingRests
  <2>3. OrdersKnown(orders', locate_to_sym, nextRef')
    <3>1. /\ nextRef + 1 \in Nat
          /\ \A r \in DOMAIN orders : r \in Nat /\ r < nextRef + 1 /\ locate_to_sym[orders[r].locate] \in Sym
      BY <1>1, <1>2 DEF OrdersKnown
    <3>2. OrdersKnown(orders, locate_to_sym, nextRef + 1)
      BY <1>2, <3>1 DEF OrdersKnown
    <3> QED BY <1>3, <2>1, <3>2
  <2> QED BY <1>3, <2>2, <2>3, StepDone
<1>6. CASE sym # Invalid
  <2>1. o \in Order /\ o.locate = l /\ o.side = side /\ o.price = px /\ o.shares = n /\ ls[o.locate] = sym /\ sym \in Sym
    BY <1>1, <1>2, <1>6 DEF Order
  <2>2. Entered(orders, nextRef, o, orders')
    BY <1>1, <1>6 DEF on_add, Entered
  <2>3. nextRef \notin DOMAIN orders /\ OrdersKnown(orders', ls, nextRef + 1)
    BY <1>2, <2>1, <2>2, EnteredKnown
  <2>4. Table(orders') /\ Raised(orders, orders', ls, o)
    BY <1>2, <2>1, <2>2, <2>3, EnteredRaises
  <2>5. Elsewhere(orders, orders', ls, sym, side)
    BY <2>1, <2>4, RaisedElsewhere
  <2>6. LadderStep(board)
    <3>1. CASE sym \in Quoted
      <4>1. PICK lv : lv = add(side, books[sym][side], px, n)
        OBVIOUS
      <4>2. Relevel(sym, side, lv, board)
        BY <1>1, <1>6, <3>1, <4>1 DEF on_add
      <4>3. Represents(side, books[sym][side], RestIn(orders, ls, sym, side))
        BY <1>2, <3>1 DEF Ladders, LadderOf
      <4>4. Represents(side, lv, RestIn(orders', ls, sym, side))
        BY <1>2, <2>1, <2>4, <3>1, <4>1, <4>3, RaisedLadder
      <4>5. /\ Ladders(books', orders', ls) /\ Quotes(books', board')
            /\ board' \in [Sym -> State] /\ \A x \in Sym : SameStats(board[x], board'[x])
        BY <1>2, <1>4, <2>4, <2>5, <3>1, <4>2, <4>4, RelevelKeeps
      <4> QED BY <1>1, <4>5 DEF LadderStep
    <3>2. CASE sym \notin Quoted
      <4>1. UNCHANGED <<books, board>>
        BY <1>1, <1>6, <3>2 DEF on_add
      <4>2. Ladders(books, orders', ls)
        BY <1>2, <2>5, <3>2, NoLadder
      <4> QED BY <1>1, <1>4, <4>1, <4>2 DEF LadderStep, SameStats
    <3> QED BY <3>1, <3>2
  <2> QED BY <1>1, <1>3, <2>3, <2>6, StepDone
<1> QED BY <1>5, <1>6

\* on_replace(): one level loses the old order, another or the same gains the
\* new one, and the top is published once.
LEMMA ReplaceKeeps ==
  ASSUME BookIInv, NEW ref, NEW n \in 1 .. MaxShares, NEW px \in Prices, on_replace(ref, n, px)
  PROVE  BookIInv'
<1>1. PICK ls : ls = locate_to_sym
  OBVIOUS
<1>2. /\ OrdersKnown(orders, ls, nextRef) /\ Table(orders) /\ Ladders(books, orders, ls) /\ nextRef \in Nat
  BY <1>1 DEF BookIInv, OrdersKnown
<1>3. WellPrinted(board, prints') /\ nextRef' = nextRef + 1 /\ UNCHANGED <<locate_to_sym, minute>>
  BY NothingPrinted DEF on_replace
<1>4. board \in [Sym -> State] /\ Quotes(books, board)
  BY <1>3 DEF WellPrinted
<1>5. CASE ref \notin DOMAIN orders
  <2>1. UNCHANGED <<orders, books, board>>
    BY <1>5 DEF on_replace, Known
  <2>2. LadderStep(board)
    BY <1>3, <2>1, NothingRests
  <2>3. OrdersKnown(orders', locate_to_sym, nextRef')
    <3>1. /\ nextRef + 1 \in Nat
          /\ \A r \in DOMAIN orders : r \in Nat /\ r < nextRef + 1 /\ locate_to_sym[orders[r].locate] \in Sym
      BY <1>1, <1>2 DEF OrdersKnown
    <3>2. OrdersKnown(orders, locate_to_sym, nextRef + 1)
      BY <1>2, <3>1 DEF OrdersKnown
    <3> QED BY <1>3, <2>1, <3>2
  <2> QED BY <1>3, <2>2, <2>3, StepDone
<1>6. CASE ref \in DOMAIN orders
  <2>1. PICK o, o2, sym, side, mid : /\ o = orders[ref] /\ o2 = [o EXCEPT !.shares = n, !.price = px]
                                     /\ sym = ls[o.locate] /\ side = o.side /\ mid = Without(ref)
    OBVIOUS
  <2>2. o \in Order /\ sym \in Sym /\ side \in Side /\ o.shares \in Nat \ {0}
    BY <1>1, <1>6, <2>1, OrderSymbol, OrderFields
  <2>3. o2 \in Order /\ o2.locate = o.locate /\ o2.side = side /\ o2.price = px /\ o2.shares = n /\ ls[o2.locate] = sym
    <3>1. o2 \in Order /\ o2.locate = o.locate /\ o2.side = side /\ o2.price = px /\ o2.shares = n
      BY <2>1, <2>2 DEF Order
    <3> QED BY <2>1, <3>1
  <2>4. LeftOf(orders, ref, mid)
    BY <2>1 DEF LeftOf, Without
  <2>5. Table(mid) /\ DOMAIN mid \subseteq DOMAIN orders /\ \A r \in DOMAIN mid : mid[r] = orders[r]
    <3>1. Table(mid)
      BY <1>2, <1>6, <2>4, TableRemoved
    <3> QED BY <2>4, <3>1 DEF LeftOf
  <2>6. Lowered(orders, mid, ls, o, o.shares)
    <3>1. ASSUME NEW s \in Quoted, NEW x \in Side
          PROVE  RestIn(mid, ls, s, x) = Minus(RestIn(orders, ls, s, x), orders[ref], s, x, ls, orders[ref].shares)
      BY <1>2, <1>6, <2>4, RestRemoved
    <3> QED BY <2>1, <3>1 DEF Lowered
  <2>7. Entered(mid, nextRef, o2, orders')
    BY <1>6, <2>1 DEF on_replace, Known, Entered
  <2>8. nextRef \notin DOMAIN mid /\ OrdersKnown(orders', ls, nextRef + 1)
    BY <1>2, <2>2, <2>3, <2>5, <2>7, EnteredKnown
  <2>9. Table(orders') /\ Raised(mid, orders', ls, o2)
    BY <2>3, <2>5, <2>7, <2>8, EnteredRaises
  <2>10. Elsewhere(orders, orders', ls, sym, side)
    <3>1. Elsewhere(orders, mid, ls, sym, side)
      BY <2>1, <2>6, LoweredElsewhere
    <3>2. Elsewhere(mid, orders', ls, sym, side)
      BY <2>3, <2>9, RaisedElsewhere
    <3> QED BY <3>1, <3>2, ElsewhereTwice
  <2>11. LadderStep(board)
    <3>1. CASE sym \in Quoted
      <4>1. PICK lv, lv2 : lv = remove(side, books[sym][side], o.price, o.shares) /\ lv2 = add(side, lv, px, n)
        OBVIOUS
      <4>2. Relevel(sym, side, lv2, board)
        BY <1>1, <1>6, <2>1, <3>1, <4>1 DEF on_replace, Known
      <4>3. Represents(side, books[sym][side], RestIn(orders, ls, sym, side))
        BY <1>2, <2>2, <3>1 DEF Ladders, LadderOf
      <4>4. o.shares <= o.shares
        BY <2>2
      <4>5. Represents(side, lv, RestIn(mid, ls, sym, side))
        BY <1>2, <1>6, <2>1, <2>2, <2>6, <3>1, <4>1, <4>3, <4>4, LoweredLadder
      <4>6. Represents(side, lv2, RestIn(orders', ls, sym, side))
        BY <2>3, <2>5, <2>9, <3>1, <4>1, <4>5, RaisedLadder
      <4>7. /\ Ladders(books', orders', ls) /\ Quotes(books', board')
            /\ board' \in [Sym -> State] /\ \A x \in Sym : SameStats(board[x], board'[x])
        BY <1>2, <1>4, <2>2, <2>9, <2>10, <3>1, <4>2, <4>6, RelevelKeeps
      <4> QED BY <1>1, <4>7 DEF LadderStep
    <3>2. CASE sym \notin Quoted
      <4>1. UNCHANGED <<books, board>>
        BY <1>1, <1>6, <2>1, <3>2 DEF on_replace, Known
      <4>2. Ladders(books, orders', ls)
        BY <1>2, <2>10, <3>2, NoLadder
      <4> QED BY <1>1, <1>4, <4>1, <4>2 DEF LadderStep, SameStats
    <3> QED BY <3>1, <3>2
  <2> QED BY <1>1, <1>3, <2>8, <2>11, StepDone
<1> QED BY <1>5, <1>6

-----------------------------------------------------------------------------
(* The theorems *)

LEMMA BookStep == ASSUME BookIInv, [BookNext]_bookVars PROVE BookIInv'
<1>1. /\ \A p \in Prices : p \in Nat
      /\ \A n \in 1 .. MaxShares : n \in Nat \ {0}
      /\ \A n \in 0 .. MaxShares : n \in Nat
  BY BookAssumption
<1>2. CASE NextMinute
  BY <1>2, NextMinuteKeeps
<1>3. CASE \E l \in Locate : on_stock_directory(l)
  BY <1>3, DirectoryKeeps
<1>4. CASE \E l \in Locate, n \in 1 .. MaxShares, p \in Prices, side \in Side : on_add(l, side, n, p)
  BY <1>4, AddKeeps
<1>5. CASE \E l \in Locate, n \in 1 .. MaxShares, p \in Prices : on_trade(l, n, p)
  BY <1>1, <1>5, TradeKeeps
<1>6. CASE \E l \in Locate, n \in 1 .. MaxShares, p \in Prices, ref \in References, b \in BOOLEAN :
             on_executed_price(l, ref, n, b, p)
  BY <1>1, <1>6, ExecutedPriceKeeps
<1>7. CASE \E l \in Locate, n \in 0 .. MaxShares, p \in Prices, t \in {"O", "C"} : on_cross(l, n, p, t)
  BY <1>1, <1>7, CrossKeeps
<1>8. CASE \E ref \in References : on_delete(ref)
  BY <1>8, DeleteKeeps
<1>9. CASE \E ref \in References, n \in 1 .. MaxShares : on_executed(ref, n)
  BY <1>1, <1>9, ExecutedKeeps
<1>10. CASE \E ref \in References, n \in 1 .. MaxShares : on_cancel(ref, n)
  BY <1>1, <1>10, CancelKeeps
<1>11. CASE \E ref \in References, n \in 1 .. MaxShares, p \in Prices : on_replace(ref, n, p)
  BY <1>11, ReplaceKeeps
<1>12. CASE UNCHANGED bookVars
  BY <1>12 DEF bookVars, BookIInv
<1> QED BY <1>2, <1>3, <1>4, <1>5, <1>6, <1>7, <1>8, <1>9, <1>10, <1>11, <1>12 DEF BookNext

\* The ladders add up the live orders (LadderIsSum).
LEMMA LaddersAreSums == ASSUME BookIInv PROVE LadderIsSum
<1> SUFFICES ASSUME NEW s \in Quoted, NEW side \in Side, NEW lv, lv = books[s][side]
             PROVE  /\ {[price |-> lv[i].price, qty |-> lv[i].qty] : i \in DOMAIN lv}
                         = {[price |-> p, qty |-> Resting(s, side, p)] : p \in LivePrices(s, side)}
                    /\ \A i, j \in DOMAIN lv : i < j => Worse(side, lv[i].price, lv[j].price)
  BY DEF LadderIsSum
<1>1. PICK q : q = RestIn(orders, locate_to_sym, s, side)
  OBVIOUS
<1>2. Table(orders) /\ Represents(side, lv, q)
  BY <1>1 DEF BookIInv, OrdersKnown, Ladders, LadderOf
<1>3. /\ \A p \in Prices : q[p] = Resting(s, side, p)
      /\ \A p \in Prices : q[p] # 0 <=> p \in LivePrices(s, side)
      /\ LivePrices(s, side) \subseteq Prices
  <2>1. \A p : Live(s, side, p) = LiveIn(orders, locate_to_sym, s, side, p)
    BY DEF Live, LiveIn
  <2>2. \A p \in Prices : q[p] = Resting(s, side, p)
    BY <1>1, <2>1 DEF Resting, RestIn
  <2>3. \A p \in Prices : q[p] # 0 <=> LiveIn(orders, locate_to_sym, s, side, p) # {}
    BY <1>1, <1>2, RestType
  <2> QED BY <2>1, <2>2, <2>3 DEF LivePrices
<1>4. /\ lv \in Seq(Level) /\ DOMAIN lv = 1 .. Len(lv) /\ Sorted(side, lv)
      /\ \A i \in 1 .. Len(lv) : lv[i].price \in Prices /\ lv[i].qty = q[lv[i].price] /\ lv[i].qty # 0
      /\ \A p \in Prices : q[p] # 0 => \E i \in 1 .. Len(lv) : lv[i].price = p
  <2>1. lv \in Seq(Level)
    BY <1>2 DEF Represents
  <2>2. \A i \in 1 .. Len(lv) : lv[i].price \in Prices
    BY <2>1, LevelAt
  <2> QED BY <1>2, <2>1, <2>2 DEF Represents
<1>5. ASSUME NEW i \in DOMAIN lv
      PROVE  \E p \in LivePrices(s, side) : [price |-> lv[i].price, qty |-> lv[i].qty] = [price |-> p, qty |-> Resting(s, side, p)]
  BY <1>3, <1>4
<1>6. ASSUME NEW p \in LivePrices(s, side)
      PROVE  \E i \in DOMAIN lv : [price |-> p, qty |-> Resting(s, side, p)] = [price |-> lv[i].price, qty |-> lv[i].qty]
  <2>1. p \in Prices /\ q[p] # 0 /\ q[p] = Resting(s, side, p)
    BY <1>3
  <2>2. PICK i \in 1 .. Len(lv) : lv[i].price = p
    BY <1>4, <2>1
  <2>3. i \in DOMAIN lv /\ lv[i].qty = Resting(s, side, p)
    BY <1>4, <2>1, <2>2
  <2> QED BY <2>2, <2>3, Zenon
<1>7. {[price |-> lv[i].price, qty |-> lv[i].qty] : i \in DOMAIN lv}
        = {[price |-> p, qty |-> Resting(s, side, p)] : p \in LivePrices(s, side)}
  <2> DEFINE f(i) == [price |-> lv[i].price, qty |-> lv[i].qty]
             g(p) == [price |-> p, qty |-> Resting(s, side, p)]
  <2>1. \A i \in DOMAIN lv : \E p \in LivePrices(s, side) : f(i) = g(p)
    BY <1>5
  <2>2. \A p \in LivePrices(s, side) : \E i \in DOMAIN lv : g(p) = f(i)
    BY <1>6
  <2> HIDE DEF f, g
  <2>3. {f(i) : i \in DOMAIN lv} = {g(p) : p \in LivePrices(s, side)}
    BY <2>1, <2>2
  <2> QED BY <2>3 DEF f, g
<1> QED BY <1>4, <1>7 DEF Sorted

\* The best of one side, as the board shows it and as the live orders give it.
LEMMA TopOfSide ==
  ASSUME BookIInv, NEW s \in Quoted, NEW side \in Side, NEW b, b = Best(books[s][side])
  PROVE  /\ LivePrices(s, side) \subseteq Int /\ b.qty \in Nat
         /\ LivePrices(s, side) = {} => b.price = 0 /\ b.qty = 0
         /\ LivePrices(s, side) # {} => /\ b.price \in LivePrices(s, side) /\ b.qty = Resting(s, side, b.price)
                                        /\ \A p \in LivePrices(s, side) : p = b.price \/ Worse(side, p, b.price)
<1>1. PICK q : q = RestIn(orders, locate_to_sym, s, side)
  OBVIOUS
<1>2. Table(orders) /\ Represents(side, books[s][side], q)
  BY <1>1 DEF BookIInv, OrdersKnown, Ladders, LadderOf
<1>3. /\ \A p \in Prices : q[p] = Resting(s, side, p)
      /\ \A p \in Prices : q[p] # 0 <=> p \in LivePrices(s, side)
      /\ LivePrices(s, side) \subseteq Prices
  <2>1. \A p : Live(s, side, p) = LiveIn(orders, locate_to_sym, s, side, p)
    BY DEF Live, LiveIn
  <2>2. \A p \in Prices : q[p] = Resting(s, side, p)
    BY <1>1, <2>1 DEF Resting, RestIn
  <2>3. \A p \in Prices : q[p] # 0 <=> LiveIn(orders, locate_to_sym, s, side, p) # {}
    BY <1>1, <1>2, RestType
  <2> QED BY <2>1, <2>2, <2>3 DEF LivePrices
<1>4. q \in [Prices -> Nat]
  BY <1>1, <1>2, RestType
<1>5. /\ b \in [price : Nat, qty : Nat]
      /\ (\A p \in Prices : q[p] = 0) => b.price = 0 /\ b.qty = 0
      /\ (\E p \in Prices : q[p] # 0) =>
           /\ b.price \in Prices /\ b.qty = q[b.price] /\ q[b.price] # 0
           /\ \A p \in Prices : q[p] # 0 => p = b.price \/ Worse(side, p, b.price)
  BY <1>2, <1>4, BestIs
<1>6. Prices \subseteq Int /\ b.qty \in Nat
  BY <1>5, BookAssumption
<1>7. CASE LivePrices(s, side) = {}
  BY <1>3, <1>5, <1>6, <1>7
<1>8. CASE LivePrices(s, side) # {}
  <2>1. \E p \in Prices : q[p] # 0
    BY <1>3, <1>8
  <2> QED BY <1>3, <1>5, <1>6, <1>8, <2>1
<1> QED BY <1>7, <1>8

\* The board shows the best of the live orders (TopIsBest).
LEMMA TopsAreBest == ASSUME BookIInv PROVE TopIsBest
<1> SUFFICES ASSUME NEW s \in Quoted, NEW bids, bids = LivePrices(s, "B"), NEW asks, asks = LivePrices(s, "S")
             PROVE  /\ board[s].bid = IF bids = {} THEN 0 ELSE Max(bids)
                    /\ board[s].ask = IF asks = {} THEN 0 ELSE Min(asks)
                    /\ board[s].bid_sz = IF bids = {} THEN 0 ELSE Min({MaxSize, Resting(s, "B", board[s].bid)})
                    /\ board[s].ask_sz = IF asks = {} THEN 0 ELSE Min({MaxSize, Resting(s, "S", board[s].ask)})
  BY DEF TopIsBest
<1>1. PICK b, a : b = Best(books[s]["B"]) /\ a = Best(books[s]["S"])
  OBVIOUS
<1>2. "B" \in Side /\ "S" \in Side
  BY DEF Side
<1>3. /\ bids \subseteq Int /\ b.qty \in Nat
      /\ bids = {} => b.price = 0 /\ b.qty = 0
      /\ bids # {} => /\ b.price \in bids /\ b.qty = Resting(s, "B", b.price)
                      /\ \A p \in bids : p = b.price \/ Worse("B", p, b.price)
  BY <1>1, <1>2, TopOfSide
<1>4. /\ asks \subseteq Int /\ a.qty \in Nat
      /\ asks = {} => a.price = 0 /\ a.qty = 0
      /\ asks # {} => /\ a.price \in asks /\ a.qty = Resting(s, "S", a.price)
                      /\ \A p \in asks : p = a.price \/ Worse("S", p, a.price)
  BY <1>1, <1>2, TopOfSide
<1>5. /\ board[s].bid = b.price /\ board[s].bid_sz = Min({b.qty, MaxSize})
      /\ board[s].ask = a.price /\ board[s].ask_sz = Min({a.qty, MaxSize})
  <2>1. books[s] \in BookRec /\ books[s].pub = TopOf(books[s]) /\ Shows(books[s].pub, board[s])
    BY DEF BookIInv, Ladders, LadderOf, Quotes
  <2>2. books[s].B = books[s]["B"] /\ books[s].S = books[s]["S"]
    BY <2>1 DEF BookRec
  <2> QED BY <1>1, <2>1, <2>2 DEF TopOf, Shows
<1>6. Min({b.qty, MaxSize}) = Min({MaxSize, b.qty}) /\ Min({a.qty, MaxSize}) = Min({MaxSize, a.qty})
  <2>1. {b.qty, MaxSize} = {MaxSize, b.qty} /\ {a.qty, MaxSize} = {MaxSize, a.qty}
    OBVIOUS
  <2> QED BY <2>1
<1>7. Min({0, MaxSize}) = 0
  BY MinOfTwo, BoardAssumption
<1>8. bids # {} => Max(bids) = b.price
  <2> SUFFICES ASSUME bids # {} PROVE Max(bids) = b.price
    OBVIOUS
  <2>1. b.price \in bids /\ \A p \in bids : p <= b.price
    BY <1>3 DEF Worse
  <2> QED BY <1>3, <2>1, MaxIs
<1>9. asks # {} => Min(asks) = a.price
  <2> SUFFICES ASSUME asks # {} PROVE Min(asks) = a.price
    OBVIOUS
  <2>1. a.price \in asks /\ \A p \in asks : a.price <= p
    BY <1>4 DEF Worse
  <2> QED BY <1>4, <2>1, MinIs
<1>10. board[s].bid = IF bids = {} THEN 0 ELSE Max(bids)
  BY <1>3, <1>5, <1>8
<1>11. board[s].ask = IF asks = {} THEN 0 ELSE Min(asks)
  BY <1>4, <1>5, <1>9
<1>12. board[s].bid_sz = IF bids = {} THEN 0 ELSE Min({MaxSize, Resting(s, "B", board[s].bid)})
  BY <1>3, <1>5, <1>6, <1>7
<1>13. board[s].ask_sz = IF asks = {} THEN 0 ELSE Min({MaxSize, Resting(s, "S", board[s].ask)})
  BY <1>4, <1>5, <1>6, <1>7
<1> QED BY <1>10, <1>11, <1>12, <1>13

\* The statistics are those of the trades printed (BoardIsPrints).
LEMMA BoardsArePrints == ASSUME BookIInv PROVE BoardIsPrints
<1>1. ASSUME NEW s \in Sym PROVE Agree(board[s], prints, PrintsOf(s), minute)
  <2>1. minute \in Nat /\ board[s] \in State /\ Printing(prints, minute) /\ Stats(board[s], prints, s, minute)
    BY DEF BookIInv, BoardStats
  <2>2. PrintsOf(s) = Of(prints, s)
    BY DEF PrintsOf, Of
  <2> QED BY <2>1, <2>2, StatsGive
<1>2. \A m, ps : SharesFrom(prints, ps, m) = Shares({i \in ps : prints[i].minute >= m})
  BY DEF SharesFrom, Shares
<1>3. \A m \in 0 .. LastMinute : m \in Nat
  BY BookAssumption
<1>4. \A ps : Shares(ps) = Total([i \in ps |-> prints[i].shares])
  BY DEF Shares
<1> QED BY <1>1, <1>2, <1>3, <1>4 DEF BoardIsPrints, Agree

\* The inductive invariant of the order book: every order in the table is of a
\* named stock, the ladders stand for the table, the board shows what was
\* published, and its statistics are those of the prints.
THEOREM BookInductive == BookSpec => []BookIInv
<1>1. BookInit => BookIInv
  BY BookStart
<1>2. BookIInv /\ [BookNext]_bookVars => BookIInv'
  BY BookStep
<1> QED BY <1>1, <1>2, PTL DEF BookSpec

\* BookInv of the runs: whatever the stream of adds, executions, cancels,
\* replaces, trades and crosses, known or unknown to the book, the ladders add
\* up the live orders, the board shows the best of them and its statistics
\* count every trade once.
THEOREM BookTellsOneStory == BookSpec => []BookInv
<1>1. BookIInv => BookInv
  BY LaddersAreSums, TopsAreBest, BoardsArePrints DEF BookInv
<1> QED BY <1>1, BookInductive, PTL

\* What holds before a loop and is kept by each of its N steps holds after each.
LEMMA EachStep ==
  ASSUME NEW N \in Nat, NEW T, 0 \in T, \A n \in 1 .. N : n - 1 \in T => n \in T
  PROVE  \A n \in 0 .. N : n \in T
<1> DEFINE Bad == {n \in 0 .. N : n \notin T}
<1>1. SUFFICES ASSUME Bad # {} PROVE FALSE
  OBVIOUS
<1>2. PICK n \in Bad : \A k \in Bad : n <= k
  <2>1. Bad \subseteq Nat
    OBVIOUS
  <2> HIDE DEF Bad
  <2> QED BY <1>1, <2>1, Least
<1>3. n \in 1 .. N
  BY <1>2
<1>4. n - 1 \in 0 .. N /\ n - 1 \notin Bad
  BY <1>2, <1>3
<1> QED BY <1>2, <1>3, <1>4

\* A loop of N steps over the values of S, ...
Steps(step, N, S) == N \in Nat /\ step \in [1 .. N -> [S -> S]]
\* ... and what it goes through from a first value on.
Goes(f, step, N, S, first) == f \in [0 .. N -> S] /\ f[0] = first /\ \A n \in 1 .. N : f[n] = step[n][f[n - 1]]

LEMMA LoopEnds ==
  ASSUME NEW N, NEW S, NEW step, Steps(step, N, S), NEW s0 \in S
  PROVE  \E f : Goes(f, step, N, S, s0)
<1>0. N \in Nat /\ step \in [1 .. N -> [S -> S]]
  BY DEF Steps
<1> DEFINE Loop(f, k) == f[0] = s0 /\ \A n \in 1 .. k : f[n] = step[n][f[n - 1]]
           T == {k \in 0 .. N : \E f \in [0 .. k -> S] : Loop(f, k)}
<1>1. 0 \in T
  <2>1. PICK f : f = [n \in 0 .. 0 |-> s0]
    OBVIOUS
  <2>2. f \in [0 .. 0 -> S] /\ Loop(f, 0)
    BY <2>1
  <2> HIDE DEF Loop
  <2> QED BY <2>2, <1>0
<1>2. ASSUME NEW n \in 1 .. N, n - 1 \in T PROVE n \in T
  <2>1. PICK f \in [0 .. n - 1 -> S] : Loop(f, n - 1)
    BY <1>0, <1>2
  <2>2. step[n][f[n - 1]] \in S
    BY <1>0
  <2>3. PICK g : g = [k \in 0 .. n |-> IF k = n THEN step[n][f[n - 1]] ELSE f[k]]
    OBVIOUS
  <2>4. g \in [0 .. n -> S]
    BY <1>0, <2>2, <2>3
  <2>5. g[0] = s0
    BY <1>0, <2>1, <2>3
  <2>6. ASSUME NEW k \in 1 .. n PROVE g[k] = step[k][g[k - 1]]
    <3>1. g[k - 1] = f[k - 1]
      BY <1>0, <2>3
    <3> QED BY <1>0, <2>1, <2>3, <3>1
  <2> QED BY <1>0, <2>4, <2>5, <2>6
<1>3. N \in T
  <2> HIDE DEF T
  <2>1. \A n \in 0 .. N : n \in T
    BY <1>0, <1>1, <1>2, EachStep
  <2> QED BY <2>1, <1>0
<1> QED BY <1>3 DEF Goes

\* A finite set put into some order.
LEMMA Ordered ==
  ASSUME NEW S, IsFiniteSet(S)
  PROVE  /\ SetToSeq(S) \in Seq(S) /\ IsInjective(SetToSeq(S))
         /\ \A x \in S : \E n \in DOMAIN SetToSeq(S) : SetToSeq(S)[n] = x
<1>1. PICK N \in Nat : N = Cardinality(S)
  BY FS_CardinalityType
<1>2. PICK g : g \in Bijection(1 .. N, S)
  BY <1>1, FS_CardinalityType, FS_Bijection, Zenon DEF ExistsBijection
<1>3. g \in [1 .. N -> S] /\ IsInjective(g)
  BY <1>2 DEF Bijection, Injection, IsInjective
<1>4. PICK f : f = SetToSeq(S)
  OBVIOUS
<1>5. f \in [1 .. N -> S] /\ IsInjective(f)
  BY <1>1, <1>3, <1>4 DEF SetToSeq
<1>6. ASSUME NEW x \in S PROVE \E n \in 1 .. N : f[n] = x
  <2> SUFFICES ASSUME \A n \in 1 .. N : f[n] # x PROVE FALSE
    OBVIOUS
  <2>1. f \in Injection(1 .. N, S \ {x})
    BY <1>5 DEF Injection, IsInjective
  <2>2. IsFiniteSet(S \ {x}) /\ Cardinality(S \ {x}) = N - 1
    BY <1>1, FS_RemoveElement
  <2>3. IsFiniteSet(1 .. N) /\ Cardinality(1 .. N) = N
    BY <1>1, FS_Interval
  <2>4. Cardinality(1 .. N) <= Cardinality(S \ {x})
    BY <2>1, <2>2, FS_Injection DEF ExistsInjection
  <2> QED BY <2>2, <2>3, <2>4
<1> QED BY <1>4, <1>5, <1>6

\* A sum is the same over any other names of its elements.
Renames(f, A, B) == f \in [A -> B] /\ (\A x, y \in A : f[x] = f[y] => x = y) /\ \A z \in B : \E x \in A : f[x] = z

LEMMA TotalRenamed ==
  ASSUME NEW A, IsFiniteSet(A), NEW B, IsFiniteSet(B), NEW f, Renames(f, A, B),
         NEW v \in [A -> Int], NEW w \in [B -> Int], \A x \in A : v[x] = w[f[x]]
  PROVE  Total(v) = Total(w)
<1>0. f \in [A -> B] /\ (\A x, y \in A : f[x] = f[y] => x = y) /\ \A z \in B : \E x \in A : f[x] = z
  BY DEF Renames
<1> DEFINE Img(s) == {z \in B : \E x \in s : f[x] = z}
           L(s) == Total([x \in s |-> v[x]])
           R(s) == Total([z \in Img(s) |-> w[z]])
           Bad == {n \in Nat : \E s \in SUBSET A : Cardinality(s) = n /\ L(s) # R(s)}
<1>1. Bad = {}
  <2> SUFFICES ASSUME Bad # {} PROVE FALSE
    OBVIOUS
  <2>1. PICK n \in Bad : \A k \in Bad : n <= k
    <3>1. Bad \subseteq Nat
      OBVIOUS
    <3> HIDE DEF Bad
    <3> QED BY <3>1, Least
  <2>2. PICK s \in SUBSET A : Cardinality(s) = n /\ L(s) # R(s)
    BY <2>1
  <2>3. IsFiniteSet(s) /\ n \in Nat
    BY <2>2, FS_Subset, FS_CardinalityType
  <2>4. CASE s = {}
    <3>1. Img(s) = {}
      BY <2>4
    <3>2. L(s) = 0
      <4>1. PICK u : u = [x \in s |-> v[x]]
        OBVIOUS
      <4>2. DOMAIN u = {} /\ u = [x \in {} |-> u[x]]
        BY <2>4, <4>1
      <4>3. Total(u) = 0
        BY <4>2, TotalEmpty
      <4> QED BY <4>1, <4>3
    <3>3. R(s) = 0
      <4>1. PICK u : u = [z \in Img(s) |-> w[z]]
        OBVIOUS
      <4>2. DOMAIN u = {} /\ u = [x \in {} |-> u[x]]
        BY <3>1, <4>1
      <4>3. Total(u) = 0
        BY <4>2, TotalEmpty
      <4> QED BY <4>1, <4>3
    <3> QED BY <2>2, <3>2, <3>3
  <2>5. CASE s # {}
    <3>1. PICK x \in s : TRUE
      BY <2>5
    <3>2. PICK r : r = s \ {x}
      OBVIOUS
    <3>3. r \in SUBSET A /\ Cardinality(r) = n - 1 /\ n - 1 \in Nat
      <4>1. Cardinality(s \ {x}) = Cardinality(s) - 1 /\ IsFiniteSet(s \ {x})
        BY <2>3, <3>1, FS_RemoveElement
      <4>2. Cardinality(s \ {x}) \in Nat
        BY <4>1, FS_CardinalityType
      <4> QED BY <2>2, <3>2, <4>1, <4>2
    <3>4. L(r) = R(r)
      <4>1. n - 1 \notin Bad
        <5> HIDE DEF Bad
        <5> QED BY <2>1, <2>3, <3>3
      <4> HIDE DEF L, R
      <4> QED BY <3>3, <4>1
    <3>5. L(s) = v[x] + L(r)
      <4>1. PICK u : u = [y \in s |-> v[y]]
        OBVIOUS
      <4>2. u \in [s -> Int] /\ [y \in s \ {x} |-> u[y]] = [y \in r |-> v[y]] /\ u[x] = v[x]
        BY <3>1, <3>2, <4>1
      <4>3. Total(u) = u[x] + Total([y \in s \ {x} |-> u[y]])
        BY <2>3, <3>1, <4>2, TotalSplit
      <4> QED BY <4>1, <4>2, <4>3
    <3>6. R(s) = w[f[x]] + R(r)
      <4>1. PICK u : u = [z \in Img(s) |-> w[z]]
        OBVIOUS
      <4>2. PICK t : t = Img(s)
        OBVIOUS
      <4>3. IsFiniteSet(t) /\ f[x] \in t /\ t \ {f[x]} = Img(r)
        <5>1. t \in SUBSET B /\ f[x] \in t
          BY <1>0, <3>1, <4>2
        <5>2. t \ {f[x]} = Img(r)
          BY <1>0, <2>2, <3>1, <3>2, <4>2
        <5> QED BY <5>1, <5>2, FS_Subset
      <4>4. u \in [t -> Int] /\ [z \in t \ {f[x]} |-> u[z]] = [z \in Img(r) |-> w[z]] /\ u[f[x]] = w[f[x]]
        BY <4>1, <4>2, <4>3
      <4>5. Total(u) = u[f[x]] + Total([z \in t \ {f[x]} |-> u[z]])
        <5>1. PICK fx \in t : fx = f[x]
          BY <4>3
        <5>2. IsFiniteSet(t) /\ u \in [t -> Int]
          BY <4>3, <4>4
        <5>3. Total(u) = u[fx] + Total([z \in t \ {fx} |-> u[z]])
          BY <5>2, TotalSplit
        <5> QED BY <5>1, <5>3
      <4> QED BY <4>1, <4>4, <4>5
    <3> HIDE DEF L, R
    <3> QED BY <2>2, <3>1, <3>4, <3>5, <3>6
  <2> QED BY <2>4, <2>5
<1>2. A \in SUBSET A /\ Cardinality(A) \in Nat /\ Img(A) = B
  BY <1>0, FS_CardinalityType
<1>3. L(A) = R(A)
  <2> HIDE DEF L, R
  <2> QED BY <1>1, <1>2
<1>4. [x \in A |-> v[x]] = v /\ [z \in Img(A) |-> w[z]] = w
  BY <1>2
<1> QED BY <1>3, <1>4

-----------------------------------------------------------------------------
(* The rows of history.tsv *)

Closes == UNION {{CloseOf(bd[t]) : t \in Ticker} : bd \in Boards}
Row == [date : Nat, ticker : Ticker, volume : Nat, close : Closes]

\* The rows a sequence holds, each of them once.
Held(h) == {h[n] : n \in DOMAIN h}
EachOnce(h) == \A n, k \in DOMAIN h : h[n] = h[k] => n = k

\* The rows of some sessions.
RowOf(d, t, b) == [date |-> d, ticker |-> t, volume |-> b.volume, close |-> CloseOf(b)]
SessionRows(ss, ds) ==
  {r \in Row : /\ r.date \in ds /\ ss[r.date][r.ticker].volume # 0
               /\ r = RowOf(r.date, r.ticker, ss[r.date][r.ticker])}

LEMMA RowsOnIs ==
  ASSUME NEW h \in Seq(Row), EachOnce(h), NEW ds
  PROVE  /\ RowsOn(h, ds) \in Seq(Row) /\ EachOnce(RowsOn(h, ds))
         /\ Held(RowsOn(h, ds)) = {r \in Held(h) : r.date \in ds}
<1> DEFINE N == Len(h)
           Take(t, n) == IF h[n].date \in ds THEN Append(t, h[n]) ELSE t
           Body(f) == [n \in 0 .. N |-> IF n = 0 THEN <<>> ELSE Take(f[n - 1], n)]
           kept == CHOOSE f : f = Body(f)
           So(n) == {r \in Row : \E k \in 1 .. n : h[k] = r /\ r.date \in ds}
<1>0. N \in Nat /\ DOMAIN h = 1 .. N /\ (\A n \in 1 .. N : h[n] \in Row) /\ <<>> \in Seq(Row)
  OBVIOUS
<1>1. RowsOn(h, ds) = kept[N]
  BY DEF RowsOn
<1>2. ASSUME NEW t \in Seq(Row), NEW n \in 1 .. N
      PROVE  /\ Take(t, n) \in Seq(Row)
             /\ Held(Take(t, n)) = Held(t) \cup (IF h[n].date \in ds THEN {h[n]} ELSE {})
             /\ EachOnce(t) /\ h[n] \notin Held(t) => EachOnce(Take(t, n))
  <2>1. CASE h[n].date \in ds
    <3>1. /\ DOMAIN t = 1 .. Len(t) /\ Len(t) \in Nat
          /\ Append(t, h[n]) \in Seq(Row) /\ DOMAIN Append(t, h[n]) = 1 .. Len(t) + 1
          /\ \A k \in 1 .. Len(t) : Append(t, h[n])[k] = t[k]
          /\ Append(t, h[n])[Len(t) + 1] = h[n]
      BY <1>0
    <3>2. PICK u : u = Append(t, h[n])
      OBVIOUS
    <3>3. Held(u) = Held(t) \cup {h[n]}
      <4>1. \A k : k \in DOMAIN u <=> k \in DOMAIN t \/ k = Len(t) + 1
        BY <3>1, <3>2
      <4>2. \A k \in DOMAIN t : u[k] = t[k]
        BY <3>1, <3>2
      <4>3. u[Len(t) + 1] = h[n]
        BY <3>1, <3>2
      <4> QED BY <4>1, <4>2, <4>3 DEF Held
    <3>4. EachOnce(t) /\ h[n] \notin Held(t) => EachOnce(u)
      <4>1. \A k : k \in DOMAIN u <=> k \in DOMAIN t \/ k = Len(t) + 1
        BY <3>1, <3>2
      <4>2. \A k \in DOMAIN t : u[k] = t[k]
        BY <3>1, <3>2
      <4>3. u[Len(t) + 1] = h[n]
        BY <3>1, <3>2
      <4> QED BY <4>1, <4>2, <4>3 DEF Held, EachOnce
    <3> QED BY <2>1, <3>1, <3>2, <3>3, <3>4
  <2>2. CASE ~ (h[n].date \in ds)
    BY <2>2
  <2> QED BY <2>1, <2>2
<1> HIDE DEF N, Take
<1>3. \E f : f = Body(f)
  <2>1. PICK step : step = [n \in 1 .. N |-> [t \in Seq(Row) |-> Take(t, n)]]
    OBVIOUS
  <2>2. Steps(step, N, Seq(Row))
    BY <1>0, <1>2, <2>1 DEF Steps
  <2>3. PICK f : Goes(f, step, N, Seq(Row), <<>>)
    BY <1>0, <2>2, LoopEnds
  <2>4. f \in [0 .. N -> Seq(Row)] /\ f[0] = <<>> /\ \A n \in 1 .. N : f[n] = step[n][f[n - 1]]
    BY <2>3 DEF Goes
  <2>5. ASSUME NEW n \in 0 .. N PROVE f[n] = IF n = 0 THEN <<>> ELSE Take(f[n - 1], n)
    <3>1. CASE n = 0
      BY <3>1, <2>4
    <3>2. CASE n # 0
      <4>1. n \in 1 .. N /\ n - 1 \in 0 .. N /\ f[n - 1] \in Seq(Row)
        BY <3>2, <1>0, <2>4
      <4>2. f[n] = step[n][f[n - 1]]
        BY <4>1, <2>4
      <4> QED BY <4>1, <4>2, <2>1, <3>2
    <3> QED BY <3>1, <3>2
  <2> QED BY <2>4, <2>5
<1>4. kept = Body(kept)
  BY <1>3
<1> HIDE DEF kept
<1>5. kept[0] = <<>> /\ \A n \in 1 .. N : kept[n] = Take(kept[n - 1], n)
  BY <1>0, <1>4
<1> DEFINE T == {n \in 0 .. N : kept[n] \in Seq(Row) /\ EachOnce(kept[n]) /\ Held(kept[n]) = So(n)}
<1>6. 0 \in T
  <2>1. DOMAIN <<>> = {} /\ 1 .. 0 = {} /\ 0 \in 0 .. N
    BY <1>0
  <2>2. Held(<<>>) = {} /\ EachOnce(<<>>)
    BY <2>1, Zenon DEF Held, EachOnce
  <2>3. So(0) = {}
    BY <2>1
  <2> QED BY <1>0, <1>5, <2>1, <2>2, <2>3
<1>7. ASSUME NEW n \in 1 .. N, n - 1 \in T PROVE n \in T
  <2>1. PICK t \in Seq(Row) : t = kept[n - 1] /\ EachOnce(t) /\ Held(t) = So(n - 1)
    BY <1>7
  <2>2. (\A k : k \in 1 .. n <=> k \in 1 .. n - 1 \/ k = n) /\ n \in 0 .. N /\ n \notin 1 .. n - 1 /\ 1 .. n \subseteq 1 .. N
    BY <1>0
  <2>3. h[n] \notin Held(t)
    <3>1. ASSUME NEW k \in 1 .. n - 1 PROVE h[k] # h[n]
      BY <1>0, <2>2 DEF EachOnce
    <3> QED BY <2>1, <3>1
  <2>4. So(n) = So(n - 1) \cup (IF h[n].date \in ds THEN {h[n]} ELSE {})
    BY <1>0, <2>2
  <2> HIDE DEF So
  <2>5. kept[n] \in Seq(Row) /\ EachOnce(kept[n]) /\ Held(kept[n]) = So(n)
    BY <1>2, <1>5, <2>1, <2>3, <2>4
  <2> QED BY <2>2, <2>5
<1>8. N \in T
  <2> HIDE DEF T
  <2>1. \A n \in 0 .. N : n \in T
    BY <1>0, <1>6, <1>7, EachStep
  <2> QED BY <2>1, <1>0
<1>9. So(N) = {r \in Held(h) : r.date \in ds}
  BY <1>0 DEF Held
<1> QED BY <1>1, <1>8, <1>9

\* A session's rows: one for each ticker that traded.
LEMMA RowsOfIs ==
  ASSUME NEW d \in Nat, NEW bd \in Boards
  PROVE  /\ RowsOf(d, bd) \in Seq(Row) /\ EachOnce(RowsOf(d, bd))
         /\ Held(RowsOf(d, bd)) = {r \in Row : r.date = d /\ bd[r.ticker].volume # 0
                                                  /\ r = RowOf(d, r.ticker, bd[r.ticker])}
<1> DEFINE A == {t \in Ticker : bd[t].volume # 0}
           S == {RowOf(d, t, bd[t]) : t \in A}
<1>1. ASSUME NEW t \in A PROVE RowOf(d, t, bd[t]) \in Row
  <2>1. CloseOf(bd[t]) \in Closes
    BY DEF Closes
  <2>2. bd[t].volume \in Nat
    BY BaselineAssumption
  <2> QED BY <2>1, <2>2 DEF Row, RowOf
<1>2. IsFiniteSet(S)
  <2>1. IsFiniteSet(A)
    BY BaselineAssumption, FS_Subset
  <2>2. PICK g : g = [t \in A |-> RowOf(d, t, bd[t])]
    OBVIOUS
  <2>3. g \in Surjection(A, S)
    BY <2>2 DEF Surjection
  <2> HIDE DEF A, S
  <2> QED BY <2>1, <2>3, FS_Surjection
<1>3. RowsOf(d, bd) = SetToSeq(S)
  BY DEF RowsOf, RowOf
<1>4. \A r : r \in S <=> r \in Row /\ r.date = d /\ bd[r.ticker].volume # 0 /\ r = RowOf(d, r.ticker, bd[r.ticker])
  <2>1. ASSUME NEW r \in S PROVE r \in Row /\ r.date = d /\ bd[r.ticker].volume # 0 /\ r = RowOf(d, r.ticker, bd[r.ticker])
    <3>1. PICK t \in A : r = RowOf(d, t, bd[t])
      OBVIOUS
    <3>2. r.date = d /\ r.ticker = t
      BY <3>1 DEF RowOf
    <3> QED BY <1>1, <3>1, <3>2
  <2>2. ASSUME NEW r \in Row, bd[r.ticker].volume # 0, r = RowOf(d, r.ticker, bd[r.ticker]) PROVE r \in S
    <3>1. r.ticker \in A
      BY <2>2 DEF Row
    <3> QED BY <2>2, <3>1
  <2> QED BY <2>1, <2>2
<1> HIDE DEF S
<1>5. PICK q : q = SetToSeq(S) /\ q \in Seq(S) /\ IsInjective(q) /\ \A x \in S : \E n \in DOMAIN q : q[n] = x
  BY <1>2, Ordered
<1>6. DOMAIN q = 1 .. Len(q) /\ \A n \in DOMAIN q : q[n] \in S
  BY <1>5
<1>7. q \in Seq(Row)
  BY <1>4, <1>5
<1>8. EachOnce(q)
  BY <1>5, <1>6 DEF IsInjective, EachOnce
<1>9. Held(q) = S
  BY <1>5, <1>6 DEF Held
<1> QED BY <1>3, <1>4, <1>5, <1>7, <1>8, <1>9

LEMMA RowsJoined ==
  ASSUME NEW g \in Seq(Row), NEW h \in Seq(Row), EachOnce(g), EachOnce(h), Held(g) \cap Held(h) = {}
  PROVE  g \o h \in Seq(Row) /\ EachOnce(g \o h) /\ Held(g \o h) = Held(g) \cup Held(h)
<1>1. PICK u : u = g \o h
  OBVIOUS
<1>2. /\ u \in Seq(Row) /\ Len(g) \in Nat /\ Len(h) \in Nat
      /\ DOMAIN u = 1 .. Len(g) + Len(h) /\ DOMAIN g = 1 .. Len(g) /\ DOMAIN h = 1 .. Len(h)
      /\ \A n \in 1 .. Len(g) + Len(h) : u[n] = IF n <= Len(g) THEN g[n] ELSE h[n - Len(g)]
  BY <1>1
<1>3. \A n \in DOMAIN u : (n \in DOMAIN g /\ u[n] = g[n]) \/ (n - Len(g) \in DOMAIN h /\ n \notin DOMAIN g /\ u[n] = h[n - Len(g)])
  BY <1>2
<1>4. \A n \in DOMAIN g : n \in DOMAIN u /\ u[n] = g[n]
  BY <1>2
<1>5. \A n \in DOMAIN h : n + Len(g) \in DOMAIN u /\ u[n + Len(g)] = h[n]
  BY <1>2
<1>6. Held(u) = Held(g) \cup Held(h)
  <2>1. \A x \in Held(u) : x \in Held(g) \cup Held(h)
    BY <1>3 DEF Held
  <2>2. \A x \in Held(g) \cup Held(h) : x \in Held(u)
    BY <1>4, <1>5 DEF Held
  <2> QED BY <2>1, <2>2
<1>7. EachOnce(u)
  <2> SUFFICES ASSUME NEW n \in DOMAIN u, NEW k \in DOMAIN u, u[n] = u[k] PROVE n = k
    BY DEF EachOnce
  <2>1. CASE n \in DOMAIN g /\ k \in DOMAIN g
    BY <2>1, <1>4 DEF EachOnce
  <2>2. CASE n \notin DOMAIN g /\ k \notin DOMAIN g
    <3>1. n - Len(g) = k - Len(g)
      BY <2>2, <1>3 DEF EachOnce
    <3> QED BY <3>1, <1>2
  <2>3. CASE (n \in DOMAIN g /\ k \notin DOMAIN g) \/ (n \notin DOMAIN g /\ k \in DOMAIN g)
    BY <2>3, <1>3 DEF Held
  <2> QED BY <2>1, <2>2, <2>3
<1> QED BY <1>1, <1>2, <1>6, <1>7

-----------------------------------------------------------------------------
(* The latest dates *)

LEMMA Fewer ==
  ASSUME NEW S, IsFiniteSet(S), NEW T \in SUBSET S
  PROVE  IsFiniteSet(T) /\ Cardinality(T) \in Nat /\ Cardinality(S) \in Nat /\ Cardinality(T) <= Cardinality(S)
  BY FS_Subset, FS_CardinalityType

\* A further date moves at most one out.
LEMMA RecentMore ==
  ASSUME NEW S, IsFiniteSet(S), NEW d
  PROVE  Recent(S \cup {d}) \subseteq Recent(S) \cup {d}
<1> SUFFICES ASSUME NEW e \in Recent(S \cup {d}), e # d PROVE e \in Recent(S)
  OBVIOUS
<1> DEFINE U == {x \in S \cup {d} : x > e}
           V == {x \in S : x > e}
<1>1. IsFiniteSet(U) /\ V \in SUBSET U
  <2>1. IsFiniteSet(S \cup {d}) /\ U \in SUBSET (S \cup {d})
    BY FS_AddElement
  <2> QED BY <2>1, FS_Subset
<1>2. e \in S /\ Cardinality(U) < KeepDays
  BY DEF Recent
<1> HIDE DEF U, V
<1>3. Cardinality(V) < KeepDays
  BY <1>1, <1>2, Fewer, BaselineAssumption
<1> QED BY <1>2, <1>3 DEF Recent, V

\* A greatest date.
LEMMA Greatest ==
  ASSUME NEW S, IsFiniteSet(S), S \subseteq Nat, S # {}
  PROVE  \E x \in S : \A y \in S : y <= x
<1> DEFINE Above(x) == {y \in S : y > x}
           T == {n \in Nat : \E x \in S : Cardinality(Above(x)) = n}
<1>1. \A x \in S : IsFiniteSet(Above(x)) /\ Cardinality(Above(x)) \in Nat
  BY Fewer
<1>2. T # {} /\ T \subseteq Nat
  BY <1>1
<1>3. PICK n \in T : \A k \in T : n <= k
  <2> HIDE DEF T
  <2> QED BY <1>2, Least
<1>4. PICK x \in S : Cardinality(Above(x)) = n
  BY <1>3
<1>5. ASSUME NEW y \in S, y > x PROVE FALSE
  <2>0. x \in Nat /\ y \in Nat /\ n \in Nat
    BY <1>1, <1>4
  <2>1. Above(y) \subseteq Above(x) \ {y} /\ y \in Above(x)
    <3>1. ASSUME NEW w \in S, w > y PROVE w > x /\ w # y
      <4>1. w \in Nat
        OBVIOUS
      <4> QED BY <1>5, <2>0, <3>1, <4>1
    <3> QED BY <1>5, <3>1
  <2>2. IsFiniteSet(Above(x) \ {y}) /\ Cardinality(Above(x) \ {y}) = n - 1
    BY <1>1, <1>4, <2>1, FS_RemoveElement
  <2>3. Cardinality(Above(y)) <= n - 1 /\ Cardinality(Above(y)) \in Nat
    BY <2>1, <2>2, Fewer
  <2>4. Cardinality(Above(y)) \in T
    BY <2>3
  <2> HIDE DEF T, Above
  <2> QED BY <1>3, <2>0, <2>3, <2>4
<1> QED BY <1>5

\* Dates that are not among the latest do not count.
LEMMA RecentWithin ==
  ASSUME NEW S, IsFiniteSet(S), S \subseteq Nat, NEW H, H \subseteq S, Recent(S) \subseteq H
  PROVE  Recent(H) = Recent(S)
<1> DEFINE In(R, e) == {x \in R : x > e}
<1>0. IsFiniteSet(H) /\ KeepDays \in Nat
  BY Fewer, BaselineAssumption
<1>1. \A R \in {S, H}, e \in Nat : IsFiniteSet(In(R, e)) /\ Cardinality(In(R, e)) \in Nat
  BY <1>0, Fewer
<1>2. ASSUME NEW e \in Recent(S) PROVE e \in Recent(H)
  <2>1. e \in S /\ Cardinality(In(S, e)) < KeepDays /\ e \in Nat /\ e \in H
    BY DEF Recent
  <2>2. In(H, e) \in SUBSET In(S, e)
    OBVIOUS
  <2>3. Cardinality(In(H, e)) <= Cardinality(In(S, e))
    <3> HIDE DEF In
    <3> QED BY <1>1, <2>1, <2>2, Fewer
  <2>4. Cardinality(In(H, e)) < KeepDays
    <3> HIDE DEF In
    <3> QED BY <1>0, <1>1, <2>1, <2>3
  <2> QED BY <2>1, <2>4 DEF Recent
<1>3. ASSUME NEW e \in Recent(H), e \notin Recent(S) PROVE FALSE
  <2>1. e \in H /\ e \in S /\ e \in Nat /\ Cardinality(In(H, e)) < KeepDays
    BY DEF Recent
  <2>2. PICK m \in S \ Recent(S) : \A y \in S \ Recent(S) : y <= m
    <3>1. IsFiniteSet(S \ Recent(S)) /\ S \ Recent(S) # {} /\ S \ Recent(S) \subseteq Nat
      BY <1>3, <2>1, Fewer
    <3> QED BY <3>1, Greatest
  <2>3. m \in Nat /\ e <= m /\ ~ (Cardinality(In(S, m)) < KeepDays)
    BY <1>3, <2>1, <2>2 DEF Recent
  <2>4. In(S, m) \subseteq In(H, e)
    <3> SUFFICES ASSUME NEW x \in S, x > m PROVE x \in H /\ x > e
      OBVIOUS
    <3>1. x \in Recent(S)
      BY <2>2
    <3> QED BY <2>1, <2>3, <3>1
  <2>5. Cardinality(In(S, m)) <= Cardinality(In(H, e))
    <3> HIDE DEF In
    <3> QED BY <1>1, <2>1, <2>4, Fewer
  <2> HIDE DEF In
  <2> QED BY <1>0, <1>1, <2>1, <2>3, <2>5
<1> QED BY <1>2, <1>3

-----------------------------------------------------------------------------
(* Baseline: the inductive invariant *)

\* The sessions run so far: none is later than today, each had a trade.
SessionsRun ==
  /\ date \in Nat /\ IsFiniteSet(DOMAIN session)
  /\ \A d \in DOMAIN session :
       d \in Nat /\ d <= date /\ session[d] \in Boards /\ \E t \in Ticker : session[d][t].volume # 0

\* The file has, once each, the rows of some of these sessions, ...
FileExact(h, ss) == h \in Seq(Row) /\ EachOnce(h) /\ Held(h) = SessionRows(ss, Dates(h))
\* ... the latest among them, and after the trim no others.
LatestIn ==
  /\ Dates(history) \subseteq DOMAIN session /\ Recent(DOMAIN session) \subseteq Dates(history)
  /\ pc = "write" => Dates(history) \subseteq Recent(DOMAIN session)

\* A baseline of the latest sessions.
Tells(bl, ss) ==
  LET days == Recent(DOMAIN ss)
      on(t) == {d \in days : ss[d][t].volume # 0}
  IN /\ DOMAIN bl = {t \in Ticker : on(t) # {}}
     /\ \A t \in DOMAIN bl :
           bl[t] = [sum |-> Total([d \in on(t) |-> ss[d][t].volume]), days |-> Cardinality(on(t)),
                    prev_close |-> CloseOf(ss[Max(on(t))][t])]

BaselineIInv == SessionsRun /\ FileExact(history, session) /\ LatestIn /\ BaselineExact

LEMMA RowFor ==
  ASSUME NEW d \in Nat, NEW bd \in Boards, NEW t \in Ticker
  PROVE  /\ RowOf(d, t, bd[t]) \in Row /\ RowOf(d, t, bd[t]).date = d /\ RowOf(d, t, bd[t]).ticker = t
         /\ RowOf(d, t, bd[t]).volume = bd[t].volume /\ RowOf(d, t, bd[t]).close = CloseOf(bd[t])
<1>1. CloseOf(bd[t]) \in Closes
  BY DEF Closes
<1>2. bd[t].volume \in Nat
  BY BaselineAssumption
<1> QED BY <1>1, <1>2 DEF Row, RowOf

\* In such a file a date and a ticker name one row at most.
LEMMA RowNumber ==
  ASSUME NEW h, NEW ss, FileExact(h, ss), \A d \in Dates(h) : d \in Nat /\ ss[d] \in Boards
  PROVE  /\ \A n \in DOMAIN h : h[n] \in Row /\ h[n].date \in Dates(h) /\ ss[h[n].date][h[n].ticker].volume # 0
                                /\ h[n] = RowOf(h[n].date, h[n].ticker, ss[h[n].date][h[n].ticker])
         /\ \A n, k \in DOMAIN h : h[n].date = h[k].date /\ h[n].ticker = h[k].ticker => n = k
         /\ \A d \in Dates(h), t \in Ticker : ss[d][t].volume # 0 =>
              \E n \in DOMAIN h : h[n].date = d /\ h[n].ticker = t
<1>1. ASSUME NEW n \in DOMAIN h
      PROVE  h[n] \in Row /\ h[n].date \in Dates(h) /\ ss[h[n].date][h[n].ticker].volume # 0
             /\ h[n] = RowOf(h[n].date, h[n].ticker, ss[h[n].date][h[n].ticker])
  <2>1. h[n] \in Held(h)
    BY DEF Held
  <2>2. h[n] \in SessionRows(ss, Dates(h))
    BY <2>1 DEF FileExact
  <2> QED BY <2>2 DEF SessionRows
<1>2. ASSUME NEW n \in DOMAIN h, NEW k \in DOMAIN h, h[n].date = h[k].date, h[n].ticker = h[k].ticker PROVE n = k
  <2>1. h[n] = h[k]
    BY <1>1, <1>2
  <2> QED BY <2>1 DEF FileExact, EachOnce
<1>3. ASSUME NEW d \in Dates(h), NEW t \in Ticker, ss[d][t].volume # 0
      PROVE  \E n \in DOMAIN h : h[n].date = d /\ h[n].ticker = t
  <2>1. PICK bd \in Boards : bd = ss[d] /\ d \in Nat
    OBVIOUS
  <2>2. PICK r : r = RowOf(d, t, bd[t]) /\ r \in Row /\ r.date = d /\ r.ticker = t
    BY <2>1, RowFor
  <2>3. r \in SessionRows(ss, Dates(h))
    BY <1>3, <2>1, <2>2 DEF SessionRows
  <2>4. r \in Held(h)
    BY <2>3 DEF FileExact
  <2> QED BY <2>2, <2>4 DEF Held
<1> QED BY <1>1, <1>2, <1>3

LEMMA HistoryFromIInv == BaselineIInv => HistoryExact
<1> SUFFICES ASSUME BaselineIInv, NEW d \in Recent(DOMAIN session), NEW t \in Ticker
             PROVE  LET mine == {n \in DOMAIN history : history[n].date = d /\ history[n].ticker = t}
                        b == session[d][t]
                    IN IF b.volume = 0 THEN mine = {}
                       ELSE \E n \in mine : /\ mine = {n} /\ history[n].volume = b.volume
                                            /\ history[n].close = CloseOf(b)
  BY DEF HistoryExact
<1>1. SessionsRun /\ FileExact(history, session) /\ LatestIn
  BY DEF BaselineIInv
<1>2. d \in Dates(history) /\ \A e \in Dates(history) : e \in Nat /\ session[e] \in Boards
  BY <1>1 DEF LatestIn, SessionsRun
<1>3. /\ \A n \in DOMAIN history : session[history[n].date][history[n].ticker].volume # 0
           /\ history[n] = RowOf(history[n].date, history[n].ticker, session[history[n].date][history[n].ticker])
      /\ \A n, k \in DOMAIN history : history[n].date = history[k].date /\ history[n].ticker = history[k].ticker => n = k
      /\ session[d][t].volume # 0 => \E n \in DOMAIN history : history[n].date = d /\ history[n].ticker = t
  BY <1>1, <1>2, RowNumber
<1>4. CASE session[d][t].volume = 0
  BY <1>3, <1>4
<1>5. CASE session[d][t].volume # 0
  <2>1. PICK n \in DOMAIN history : history[n].date = d /\ history[n].ticker = t
    BY <1>3, <1>5
  <2>2. history[n] = RowOf(d, t, session[d][t])
    BY <1>3, <2>1
  <2>3. history[n].volume = session[d][t].volume /\ history[n].close = CloseOf(session[d][t])
    BY <2>2 DEF RowOf
  <2>4. {k \in DOMAIN history : history[k].date = d /\ history[k].ticker = t} = {n}
    BY <1>3, <2>1
  <2> QED BY <1>5, <2>1, <2>3, <2>4
<1> QED BY <1>4, <1>5

LEMMA CountRenamed ==
  ASSUME NEW A, IsFiniteSet(A), NEW B, IsFiniteSet(B), NEW f, Renames(f, A, B)
  PROVE  Cardinality(A) = Cardinality(B)
<1>1. f \in Surjection(A, B)
  BY DEF Renames, Surjection
<1>2. f \in Injection(A, B)
  BY DEF Renames, Injection, IsInjective
<1> QED BY <1>1, <1>2, FS_Surjection

\* What is written from a file of the latest sessions.
LEMMA RebuiltExact ==
  ASSUME SessionsRun, FileExact(history, session), Dates(history) = Recent(DOMAIN session), NEW bl, bl = rebuild(history)
  PROVE  Tells(bl, session)
<1> DEFINE h == history
           days == Recent(DOMAIN session)
           on(t) == {d \in days : session[d][t].volume # 0}
           mine(t) == {n \in DOMAIN h : h[n].ticker = t}
<1>0. /\ \A d \in days : d \in Nat /\ session[d] \in Boards
      /\ days \subseteq DOMAIN session /\ IsFiniteSet(days)
  <2>1. days \subseteq DOMAIN session
    BY DEF Recent
  <2> QED BY <2>1, FS_Subset DEF SessionsRun
<1>1. h \in Seq(Row) /\ IsFiniteSet(DOMAIN h) /\ DOMAIN h \subseteq Nat
  <2>1. h \in Seq(Row)
    BY DEF FileExact
  <2>2. DOMAIN h = 1 .. Len(h) /\ Len(h) \in Nat
    BY <2>1
  <2>3. IsFiniteSet(1 .. Len(h))
    BY <2>2, FS_Interval
  <2> QED BY <2>1, <2>2, <2>3
<1>2. /\ \A n \in DOMAIN h : h[n] \in Row /\ h[n].date \in days /\ session[h[n].date][h[n].ticker].volume # 0
                              /\ h[n] = RowOf(h[n].date, h[n].ticker, session[h[n].date][h[n].ticker])
      /\ \A n, k \in DOMAIN h : h[n].date = h[k].date /\ h[n].ticker = h[k].ticker => n = k
      /\ \A d \in days, t \in Ticker : session[d][t].volume # 0 => \E n \in DOMAIN h : h[n].date = d /\ h[n].ticker = t
  BY <1>0, RowNumber
<1>3. \A n \in DOMAIN h : h[n].ticker \in Ticker
  BY <1>2 DEF Row
<1>4. \A n \in DOMAIN h : /\ h[n].volume = session[h[n].date][h[n].ticker].volume
                           /\ h[n].close = CloseOf(session[h[n].date][h[n].ticker])
  BY <1>2 DEF RowOf
<1>5. DOMAIN bl = {h[n].ticker : n \in DOMAIN h}
  BY DEF rebuild
<1>6. {h[n].ticker : n \in DOMAIN h} = {t \in Ticker : on(t) # {}}
  <2>1. ASSUME NEW n \in DOMAIN h PROVE h[n].ticker \in Ticker /\ h[n].date \in on(h[n].ticker)
    BY <1>2, <1>3
  <2>2. ASSUME NEW t \in Ticker, NEW d \in on(t) PROVE \E n \in DOMAIN h : h[n].ticker = t
    BY <1>2
  <2> HIDE DEF on, h
  <2> QED BY <2>1, <2>2
<1>7. ASSUME NEW t \in DOMAIN bl
      PROVE  bl[t] = [sum |-> Total([d \in on(t) |-> session[d][t].volume]),
                            days |-> Cardinality(on(t)),
                            prev_close |-> CloseOf(session[Max(on(t))][t])]
  <2>0. t \in Ticker /\ on(t) # {} /\ t \in {h[n].ticker : n \in DOMAIN h}
    BY <1>5, <1>6
  <2>1. bl[t] = LET latest == Max({h[n].date : n \in mine(t)})
                      IN [sum |-> Total([n \in mine(t) |-> h[n].volume]), days |-> Cardinality(mine(t)),
                          prev_close |-> h[Max({n \in mine(t) : h[n].date = latest})].close]
    BY <2>0 DEF rebuild
  <2>2. PICK A, B, f : A = mine(t) /\ B = on(t) /\ f = [n \in mine(t) |-> h[n].date]
    OBVIOUS
  <2>3. Renames(f, A, B)
    <3>1. f \in [A -> B]
      <4>1. \A n \in A : h[n].date \in B
        BY <1>2, <2>2
      <4> QED BY <2>2, <4>1
    <3>2. \A x, y \in A : f[x] = f[y] => x = y
      BY <1>2, <2>2
    <3>3. \A z \in B : \E x \in A : f[x] = z
      BY <1>2, <2>0, <2>2
    <3> QED BY <3>1, <3>2, <3>3 DEF Renames
  <2>4. IsFiniteSet(A) /\ IsFiniteSet(B) /\ B \subseteq Nat /\ A \subseteq Nat /\ B # {}
    <3>1. A \in SUBSET DOMAIN h /\ B \in SUBSET days
      BY <2>2
    <3>2. B \subseteq Nat /\ B # {}
      BY <1>0, <2>0, <2>2
    <3> QED BY <1>0, <1>1, <3>1, <3>2, FS_Subset
  <2>5. Total([n \in mine(t) |-> h[n].volume]) = Total([d \in on(t) |-> session[d][t].volume])
    <3>1. PICK v, w : v = [n \in A |-> h[n].volume] /\ w = [d \in B |-> session[d][t].volume]
      OBVIOUS
    <3>2. v \in [A -> Int]
      <4>1. \A n \in A : h[n].volume \in Int
        BY <1>2, <2>2 DEF Row
      <4> QED BY <3>1, <4>1
    <3>3. w \in [B -> Int]
      <4>1. \A d \in B : session[d][t].volume \in Int
        BY <1>0, <2>0, <2>2, BaselineAssumption
      <4> QED BY <3>1, <4>1
    <3>4. \A n \in A : v[n] = w[f[n]]
      <4>1. ASSUME NEW n \in A PROVE v[n] = w[f[n]]
        <5>1. f[n] \in B /\ f[n] = h[n].date /\ h[n].ticker = t /\ n \in DOMAIN h
          BY <2>2, <2>3 DEF Renames
        <5> QED BY <1>4, <3>1, <5>1
      <4> QED BY <4>1
    <3>5. Total(v) = Total(w)
      <4> HIDE DEF on, mine, h, days
      <4>1. IsFiniteSet(A) /\ IsFiniteSet(B)
        BY <2>4
      <4> QED BY <2>3, <3>2, <3>3, <3>4, <4>1, TotalRenamed
    <3> QED BY <2>2, <3>1, <3>5
  <2>6. Cardinality(mine(t)) = Cardinality(on(t))
    <3>1. Cardinality(A) = Cardinality(B)
      BY <2>3, <2>4, CountRenamed
    <3> QED BY <2>2, <3>1
  <2>7. PICK d \in B : \A e \in B : e <= d
    BY <2>4, Greatest
  <2>8. PICK n \in A : f[n] = d
    BY <2>3 DEF Renames
  <2>9. Max(on(t)) = d
    <3>1. B \subseteq Int /\ d \in B /\ \A e \in B : e <= d
      BY <2>4, <2>7
    <3>2. Max(B) = d
      <4> HIDE DEF on, mine, h, days
      <4> QED BY <3>1, MaxIs
    <3> QED BY <2>2, <3>2
  <2>10. {h[k].date : k \in mine(t)} = on(t)
    <3>1. \A k \in A : f[k] \in B
      BY <2>3 DEF Renames
    <3>2. \A z \in B : \E k \in A : f[k] = z
      BY <2>3 DEF Renames
    <3>3. {f[k] : k \in A} = B
      BY <3>1, <3>2
    <3>4. {h[k].date : k \in mine(t)} = {f[k] : k \in A}
      BY <2>2
    <3> QED BY <2>2, <3>3, <3>4
  <2>11. Max({k \in mine(t) : h[k].date = d}) = n
    <3>1. {k \in mine(t) : h[k].date = d} = {n}
      BY <1>2, <2>2, <2>8
    <3>2. n \in Nat
      BY <2>4
    <3>3. Max({n}) = n
      BY <3>2, MaxIs
    <3> QED BY <3>1, <3>3
  <2>12. h[n].close = CloseOf(session[d][t])
    BY <1>4, <2>2, <2>8
  <2> HIDE DEF mine, on, h
  <2> QED BY <2>1, <2>5, <2>6, <2>9, <2>10, <2>11, <2>12
<1> QED BY <1>5, <1>6, <1>7 DEF Tells

LEMMA DatesHeld == \A h : Dates(h) = {r.date : r \in Held(h)}
  BY DEF Dates, Held

LEMMA EmptyFile == Held(<<>>) = {} /\ Dates(<<>>) = {} /\ EachOnce(<<>>) /\ <<>> \in Seq(Row)
<1>1. DOMAIN <<>> = {} /\ <<>> \in Seq(Row)
  OBVIOUS
<1>2. Held(<<>>) = {} /\ EachOnce(<<>>)
  BY <1>1, Zenon DEF Held, EachOnce
<1>3. Dates(<<>>) = {}
  BY <1>1, Zenon DEF Dates
<1> QED BY <1>1, <1>2, <1>3

\* The sessions as last run, one more among them.
WithRun(ss, d, bd) == [e \in DOMAIN ss \cup {d} |-> IF e = d THEN bd ELSE ss[e]]

\* A session with a trade ends, the file being in order.
Ends(h, ss, d, bd, tt) ==
  /\ FileExact(h, ss) /\ Dates(h) \subseteq DOMAIN ss /\ RowsOf(d, bd) # <<>> /\ tt = WithRun(ss, d, bd)

\* Running a session, also again, leaves its rows and those of the other dates.
LEMMA SessionAppended ==
  ASSUME NEW h, NEW ss, NEW d \in Nat, NEW bd \in Boards, NEW tt, Ends(h, ss, d, bd, tt)
  PROVE  /\ FileExact(append_session(h, d, bd), tt)
         /\ Dates(append_session(h, d, bd)) = Dates(h) \cup {d}
         /\ \E t \in Ticker : bd[t].volume # 0
<1>0. FileExact(h, ss) /\ Dates(h) \subseteq DOMAIN ss /\ RowsOf(d, bd) # <<>> /\ tt = WithRun(ss, d, bd)
  BY DEF Ends
<1>1. PICK ds : ds = Dates(h) \ {d}
  OBVIOUS
<1>2. PICK g : g = RowsOn(h, ds) /\ g \in Seq(Row) /\ EachOnce(g) /\ Held(g) = {r \in Held(h) : r.date \in ds}
  BY <1>0, RowsOnIs DEF FileExact
<1>3. PICK k : /\ k = RowsOf(d, bd) /\ k \in Seq(Row) /\ EachOnce(k)
               /\ Held(k) = {r \in Row : r.date = d /\ bd[r.ticker].volume # 0
                                          /\ r = RowOf(d, r.ticker, bd[r.ticker])}
  BY RowsOfIs
<1>4. Held(g) \cap Held(k) = {}
  BY <1>1, <1>2, <1>3
<1>5. PICK u : u = g \o k /\ u \in Seq(Row) /\ EachOnce(u) /\ Held(u) = Held(g) \cup Held(k)
  BY <1>2, <1>3, <1>4, RowsJoined
<1>6. append_session(h, d, bd) = u
  BY <1>1, <1>2, <1>3, <1>5 DEF append_session
<1>7. PICK r0 \in Held(k) : TRUE
  <2>1. Len(k) # 0 /\ DOMAIN k = 1 .. Len(k) /\ Len(k) \in Nat
    BY <1>0, <1>3
  <2>2. 1 \in DOMAIN k
    BY <2>1
  <2> QED BY <2>2 DEF Held
<1>8. \E t \in Ticker : bd[t].volume # 0
  BY <1>3, <1>7 DEF Row
<1>9. Dates(h) = {r.date : r \in Held(h)} /\ Dates(u) = {r.date : r \in Held(u)}
  BY DatesHeld
<1>10. Dates(u) = Dates(h) \cup {d}
  <2>1. \A e \in Dates(u) : e \in Dates(h) \cup {d}
    BY <1>1, <1>2, <1>3, <1>5, <1>9
  <2>2. d \in Dates(u)
    BY <1>3, <1>5, <1>7, <1>9
  <2>3. ASSUME NEW e \in Dates(h), e # d PROVE e \in Dates(u)
    <3>1. PICK r \in Held(h) : r.date = e
      BY <1>9
    <3>2. r \in Held(u)
      BY <1>1, <1>2, <1>5, <2>3, <3>1
    <3> QED BY <1>9, <3>1, <3>2
  <2> QED BY <2>1, <2>2, <2>3
<1>11. Held(u) = SessionRows(tt, Dates(u))
  <2>0. Held(h) = SessionRows(ss, Dates(h))
    BY <1>0 DEF FileExact
  <2>1. tt[d] = bd /\ \A e \in ds : e # d /\ e \in Dates(h) /\ tt[e] = ss[e]
    BY <1>0, <1>1 DEF WithRun
  <2>2. ASSUME NEW r \in Row, r.date = d
        PROVE  r \in Held(u) <=> r \in SessionRows(tt, Dates(u))
    <3>1. r \notin Held(g)
      BY <1>1, <1>2, <2>2
    <3>2. r \in Held(k) <=> bd[r.ticker].volume # 0 /\ r = RowOf(d, r.ticker, bd[r.ticker])
      BY <1>3, <2>2
    <3> QED BY <1>5, <1>10, <2>1, <2>2, <3>1, <3>2 DEF SessionRows
  <2>3. ASSUME NEW r \in Row, r.date # d
        PROVE  r \in Held(u) <=> r \in SessionRows(tt, Dates(u))
    <3>1. r \notin Held(k)
      BY <1>3, <2>3
    <3>2. r \in Held(g) <=> r \in SessionRows(ss, Dates(h)) /\ r.date \in ds
      BY <1>2, <2>0
    <3>3. r.date \in ds <=> r.date \in Dates(u)
      BY <1>1, <1>10, <2>3
    <3>4. CASE r.date \in ds
      <4>1. tt[r.date] = ss[r.date] /\ r.date \in Dates(h) /\ r.date \in Dates(u)
        BY <2>1, <3>3, <3>4
      <4> QED BY <1>5, <3>1, <3>2, <3>4, <4>1 DEF SessionRows
    <3>5. CASE r.date \notin ds
      BY <1>5, <3>1, <3>2, <3>3, <3>5 DEF SessionRows
    <3> QED BY <3>4, <3>5
  <2>4. Held(u) \subseteq Row /\ SessionRows(tt, Dates(u)) \subseteq Row
    <3>1. \A n \in DOMAIN u : u[n] \in Row
      BY <1>5
    <3> QED BY <3>1 DEF Held, SessionRows
  <2> QED BY <2>2, <2>3, <2>4
<1> QED BY <1>5, <1>6, <1>8, <1>10, <1>11 DEF FileExact

\* The trim keeps the latest sessions' rows.
LEMMA TrimmedTo ==
  ASSUME NEW h, NEW ss, FileExact(h, ss), NEW ds, ds \subseteq Dates(h)
  PROVE  FileExact(RowsOn(h, ds), ss) /\ Dates(RowsOn(h, ds)) = ds
<1>1. PICK g : g = RowsOn(h, ds) /\ g \in Seq(Row) /\ EachOnce(g) /\ Held(g) = {r \in Held(h) : r.date \in ds}
  BY RowsOnIs DEF FileExact
<1>2. Dates(h) = {r.date : r \in Held(h)} /\ Dates(g) = {r.date : r \in Held(g)}
  BY DatesHeld
<1>3. Dates(g) = ds
  BY <1>1, <1>2
<1>4. Held(h) = SessionRows(ss, Dates(h))
  BY DEF FileExact
<1>5. Held(g) = SessionRows(ss, ds)
  BY <1>1, <1>4 DEF SessionRows
<1> QED BY <1>1, <1>3, <1>5 DEF FileExact

LEMMA BaselineStarts == BaselineInit => BaselineIInv
<1> SUFFICES ASSUME BaselineInit PROVE BaselineIInv
  OBVIOUS
<1>1. DOMAIN session = {} /\ DOMAIN baseline = {} /\ history = <<>> /\ date = 1 /\ pc = "idle"
  BY DEF BaselineInit
<1>2. IsFiniteSet({}) /\ Recent({}) = {}
  BY FS_EmptySet DEF Recent
<1>3. SessionsRun
  BY <1>1, <1>2 DEF SessionsRun
<1>4. FileExact(history, session)
  BY <1>1, EmptyFile DEF FileExact, SessionRows
<1>5. LatestIn
  BY <1>1, <1>2, EmptyFile DEF LatestIn
<1>6. BaselineExact
  BY <1>1, <1>2 DEF BaselineExact
<1> QED BY <1>3, <1>4, <1>5, <1>6 DEF BaselineIInv

LEMMA BaselineSteps == BaselineIInv /\ [BaselineNext]_baselineVars => BaselineIInv'
<1> SUFFICES ASSUME BaselineIInv, [BaselineNext]_baselineVars PROVE BaselineIInv'
  OBVIOUS
<1>0. SessionsRun /\ FileExact(history, session) /\ LatestIn /\ BaselineExact
  BY DEF BaselineIInv
<1>1. ASSUME NEW bd \in Boards, EndSession(bd) PROVE BaselineIInv'
  <2>1. PICK d \in Nat : d = date /\ date' = d
    BY <1>0, <1>1 DEF EndSession, SessionsRun
  <2>2. /\ history' = append_session(history, d, bd) /\ RowsOf(d, bd) # <<>>
        /\ session' = [e \in DOMAIN session \cup {d} |-> IF e = d THEN bd ELSE session[e]]
        /\ pc' = "trim" /\ current' = FALSE
    BY <1>1, <2>1 DEF EndSession
  <2>3. PICK h, ss, tt : h = history /\ ss = session /\ tt = session'
    OBVIOUS
  <2>4. FileExact(h, ss) /\ Dates(h) \subseteq DOMAIN ss /\ Recent(DOMAIN ss) \subseteq Dates(h)
    BY <1>0, <2>3 DEF LatestIn
  <2>5. tt = WithRun(ss, d, bd) /\ RowsOf(d, bd) # <<>>
    BY <2>2, <2>3 DEF WithRun
  <2>6. /\ FileExact(append_session(h, d, bd), tt)
        /\ Dates(append_session(h, d, bd)) = Dates(h) \cup {d}
        /\ \E t \in Ticker : bd[t].volume # 0
    <3>1. Ends(h, ss, d, bd, tt)
      BY <2>4, <2>5 DEF Ends
    <3> QED BY <3>1, SessionAppended
  <2>7. FileExact(history', session') /\ Dates(history') = Dates(history) \cup {d}
    BY <2>2, <2>3, <2>6
  <2>8. SessionsRun'
    <3>1. IsFiniteSet(DOMAIN session \cup {d}) /\ DOMAIN session' = DOMAIN session \cup {d}
      BY <1>0, <2>2, FS_AddElement DEF SessionsRun
    <3>2. ASSUME NEW e \in DOMAIN session'
          PROVE  e \in Nat /\ e <= date' /\ session'[e] \in Boards /\ \E t \in Ticker : session'[e][t].volume # 0
      <4>1. CASE e = d
        BY <2>1, <2>2, <2>6, <4>1
      <4>2. CASE e # d
        BY <1>0, <2>1, <2>2, <4>2 DEF SessionsRun
      <4> QED BY <4>1, <4>2
    <3> QED BY <2>1, <3>1, <3>2 DEF SessionsRun
  <2>9. LatestIn'
    <3>1. DOMAIN session' = DOMAIN session \cup {d} /\ IsFiniteSet(DOMAIN session)
      BY <1>0, <2>2 DEF SessionsRun
    <3>2. Recent(DOMAIN session \cup {d}) \subseteq Recent(DOMAIN session) \cup {d}
      BY <3>1, RecentMore
    <3>3. Dates(history) \subseteq DOMAIN session /\ Recent(DOMAIN session) \subseteq Dates(history)
      BY <1>0 DEF LatestIn
    <3> QED BY <2>2, <2>7, <3>1, <3>2, <3>3 DEF LatestIn
  <2>10. BaselineExact'
    BY <2>2 DEF BaselineExact
  <2> QED BY <2>7, <2>8, <2>9, <2>10 DEF BaselineIInv
<1>2. CASE Trim
  <2>1. /\ history' = RowsOn(history, Recent(Dates(history)))
        /\ baseline' = baseline /\ date' = date /\ session' = session /\ current' = current
    BY <1>2 DEF Trim, Trimmed
  <2>2. PICK S, H : S = DOMAIN session /\ H = Dates(history)
    OBVIOUS
  <2>3. IsFiniteSet(S) /\ S \subseteq Nat /\ H \subseteq S /\ Recent(S) \subseteq H
    BY <1>0, <2>2 DEF SessionsRun, LatestIn
  <2>4. Recent(H) = Recent(S)
    BY <2>3, RecentWithin
  <2>5. PICK h, ss, ds : h = history /\ ss = session /\ ds = Recent(S)
    OBVIOUS
  <2>6. FileExact(h, ss) /\ ds \subseteq Dates(h)
    BY <1>0, <2>2, <2>3, <2>5
  <2>7. FileExact(RowsOn(h, ds), ss) /\ Dates(RowsOn(h, ds)) = ds
    BY <2>6, TrimmedTo
  <2>8. history' = RowsOn(h, ds)
    BY <2>1, <2>2, <2>4, <2>5
  <2>9. FileExact(history', session') /\ Dates(history') = Recent(DOMAIN session)
    BY <2>1, <2>2, <2>5, <2>7, <2>8
  <2>10. LatestIn'
    BY <2>1, <2>2, <2>3, <2>9 DEF LatestIn
  <2>11. SessionsRun' /\ BaselineExact'
    BY <1>0, <2>1 DEF SessionsRun, BaselineExact
  <2> QED BY <2>9, <2>10, <2>11 DEF BaselineIInv
<1>3. CASE WriteBaseline
  <2>1. /\ baseline' = rebuild(history) /\ pc' = "idle"
        /\ history' = history /\ date' = date /\ session' = session
    BY <1>3 DEF WriteBaseline
  <2>2. Dates(history) = Recent(DOMAIN session)
    BY <1>0, <1>3 DEF WriteBaseline, LatestIn
  <2>3. PICK bl : bl = rebuild(history)
    OBVIOUS
  <2>4. Tells(bl, session)
    BY <1>0, <2>2, <2>3, RebuiltExact
  <2>5. baseline' = bl
    BY <2>1, <2>3
  <2>6. BaselineExact'
    BY <2>1, <2>4, <2>5 DEF BaselineExact, Tells
  <2>7. SessionsRun' /\ LatestIn' /\ FileExact(history', session')
    BY <1>0, <2>1 DEF SessionsRun, LatestIn
  <2> QED BY <2>6, <2>7 DEF BaselineIInv
<1>4. CASE Die
  <2>1. /\ history' = history /\ baseline' = baseline /\ date' = date /\ session' = session /\ current' = current
        /\ pc' = "idle"
    BY <1>4 DEF Die
  <2> QED BY <1>0, <2>1 DEF BaselineIInv, SessionsRun, LatestIn, BaselineExact
<1>5. CASE NextSession
  <2>1. /\ history' = history /\ baseline' = baseline /\ session' = session /\ current' = current
        /\ pc' = pc /\ date' = date + 1
    BY <1>5 DEF NextSession
  <2>2. SessionsRun'
    BY <1>0, <2>1 DEF SessionsRun
  <2> QED BY <1>0, <2>1, <2>2 DEF BaselineIInv, LatestIn, BaselineExact
<1>6. CASE UNCHANGED baselineVars
  <2>1. /\ history' = history /\ baseline' = baseline /\ date' = date /\ session' = session /\ current' = current
        /\ pc' = pc
    BY <1>6 DEF baselineVars
  <2> QED BY <1>0, <2>1 DEF BaselineIInv, SessionsRun, LatestIn, BaselineExact
<1> QED BY <1>1, <1>2, <1>3, <1>4, <1>5, <1>6 DEF BaselineNext

\* The file has the rows of the latest sessions as last run, and nothing twice,
\* at every moment (baseline.cpp:38, :64).
THEOREM BaselineInductive == BaselineSpec => []BaselineIInv
  BY BaselineStarts, BaselineSteps, PTL DEF BaselineSpec

\* For any tickers, boards, dates and number of days kept: wherever the process
\* dies, the files tell of the latest sessions as last run (baseline.cpp:38).
THEOREM BaselineIsKept == BaselineSpec => []BaselineInv
<1>1. BaselineIInv => BaselineInv
  BY HistoryFromIInv DEF BaselineIInv, BaselineInv
<1> QED BY <1>1, BaselineInductive, PTL

-----------------------------------------------------------------------------
(* Recorder: messages in a file of bytes *)

Byte == (1 .. MaxMessages) \X (Nat \ {0})

\* Around every byte stand the others of its message, as far as the bytes go;
\* messages follow one another in the order of the feed, none twice.
Framed(b) ==
  /\ b \in Seq(Byte)
  /\ \A k \in DOMAIN b : b[k][2] <= k /\ b[k][2] <= SizeOf[b[k][1]]
  /\ \A k, n \in DOMAIN b :
       0 < n - k + b[k][2] /\ n - k + b[k][2] <= SizeOf[b[k][1]] => b[n] = <<b[k][1], n - k + b[k][2]>>
  /\ \A k, n \in DOMAIN b : k < n => b[k][1] < b[n][1] \/ (b[k][1] = b[n][1] /\ b[n][2] = b[k][2] + (n - k))

\* The last message is not cut short.
Whole(b) == b # <<>> => b[Len(b)][2] = SizeOf[b[Len(b)][1]]
\* All messages of b come before those of c.
Before(b, c) == \A k \in DOMAIN b, n \in DOMAIN c : b[k][1] < c[n][1]
\* A message is there to its end.
Has(b, m) == \E k \in DOMAIN b : b[k] = <<m, SizeOf[m]>>

-----------------------------------------------------------------------------
(* Recorder: the inductive invariant *)

Member == [bytes : Seq(Byte), synced : Nat, ended : BOOLEAN]

\* The ring holds messages in order, none of them counted as dropped.
InRing ==
  /\ given \in Nat /\ given <= MaxMessages /\ ring \in Seq(Nat) /\ dropped \subseteq 1 .. given
  /\ \A i \in DOMAIN ring : ring[i] \in 1 .. given /\ ring[i] \notin dropped
  /\ \A i, j \in DOMAIN ring : i < j => ring[i] < ring[j]

\* The messages that may be in the file: given, not dropped, no longer in the ring.
Past == {m \in (1 .. given) \ dropped : \A i \in DOMAIN ring : m < ring[i]}
Within(b, K) == \A k \in DOMAIN b : b[k][1] \in K

\* Every member is made of messages, later members of later ones; only one that
\* was not ended may be cut short.
FileOk(f, K) ==
  /\ f \in Seq(Member) /\ Len(f) >= 1
  /\ \A g \in DOMAIN f : /\ Framed(f[g].bytes) /\ Within(f[g].bytes, K) /\ f[g].synced <= Len(f[g].bytes) + 1
                         /\ f[g].ended => Whole(f[g].bytes)
  /\ \A g, h \in DOMAIN f : g < h => Before(f[g].bytes, f[h].bytes)
InFile == FileOk(gz, Past)

\* Without a crash no message is lost.
NothingLost ==
  /\ crashes \in Nat
  /\ crashes = 0 =>
       /\ \A g \in DOMAIN gz : g < Len(gz) => gz[g].ended
       /\ \A m \in 1 .. given : m \in dropped \/ (\E i \in DOMAIN ring : ring[i] = m) \/ \E g \in DOMAIN gz : Has(gz[g].bytes, m)

Phases ==
  /\ mode \in {"record", "read", "end"}
  /\ recPc = "last" => ~running_
  /\ recPc = "ended" => ~running_ /\ ring = <<>>
  /\ mode = "record" => /\ ~ gz[Len(gz)].ended /\ Whole(gz[Len(gz)].bytes)
                        /\ buf_ = <<>> /\ pos_ = 0 /\ at = 0 /\ eof_ = FALSE /\ replayed = <<>>
  /\ mode # "record" => ring = <<>> /\ (crashes = 0 => gz[Len(gz)].ended)

\* Of the first p bytes everything was replayed, to the end of a message.
Done(F, p, rs) ==
  /\ p = 0 \/ F[p][2] = SizeOf[F[p][1]]
  /\ rs \in Seq(1 .. MaxMessages) /\ \A i, j \in DOMAIN rs : i < j => rs[i] < rs[j]
  /\ \A m \in 1 .. MaxMessages : (\E i \in DOMAIN rs : rs[i] = m) <=> \E k \in 1 .. p : F[k] = <<m, SizeOf[m]>>

\* The buffer is the part of the file before the reader's place.
Buffered(F) ==
  /\ at \in 0 .. Len(F) /\ buf_ \in Seq(Byte) /\ Len(buf_) <= at /\ Len(buf_) <= BufSize /\ pos_ \in 0 .. Len(buf_)
  /\ \A k \in DOMAIN buf_ : buf_[k] = F[at - Len(buf_) + k]

\* The reader stops at the end, or less than a read before the damage.
Stops(F) == eof_ = FALSE \/ at = Len(F) \/ (Broken /\ Len(F) < at + (BufSize + Ahead))

Reading ==
  mode # "record" => /\ Buffered(Readable) /\ Done(Readable, at - Len(buf_) + pos_, replayed) /\ Stops(Readable)
                     /\ mode = "end" => eof_ /\ ~HasMessage(Rest)

RecorderIInv == InRing /\ InFile /\ NothingLost /\ Phases /\ Reading

LEMMA Sizes == \A m \in 1 .. MaxMessages : SizeOf[m] \in Nat /\ SizeOf[m] >= 1
  BY RecorderAssumption

LEMMA ByteIs == \A x \in Byte : x[1] \in 1 .. MaxMessages /\ x[2] \in Nat /\ x[2] >= 1 /\ x = <<x[1], x[2]>>
                                /\ SizeOf[x[1]] \in Nat
  BY Sizes, RecorderAssumption DEF Byte

\* The bytes of one message.
LEMMA BytesFramed ==
  ASSUME NEW m \in 1 .. MaxMessages
  PROVE  /\ Framed(Bytes(m)) /\ Whole(Bytes(m)) /\ Has(Bytes(m), m)
         /\ \A k \in DOMAIN Bytes(m) : Bytes(m)[k][1] = m
<1>1. PICK b, z : b = Bytes(m) /\ z = SizeOf[m]
  OBVIOUS
<1>2. z \in Nat /\ z >= 1 /\ m \in Nat
  BY <1>1, Sizes, RecorderAssumption
<1>3. \A k \in 1 .. z : <<m, k>> \in Byte /\ <<m, k>>[1] = m /\ <<m, k>>[2] = k
  BY <1>2 DEF Byte
<1>4. b \in Seq(Byte) /\ Len(b) = z /\ DOMAIN b = 1 .. z /\ \A k \in 1 .. z : b[k] = <<m, k>> /\ b[k][1] = m /\ b[k][2] = k
  BY <1>1, <1>2, <1>3 DEF Bytes
<1>5. Framed(b)
  BY <1>1, <1>2, <1>4 DEF Framed
<1>6. b[z] = <<m, SizeOf[m]>> /\ z \in DOMAIN b /\ b[z][1] = m /\ b[z][2] = z
  BY <1>1, <1>2, <1>4
<1>7. Whole(b) /\ Has(b, m)
  BY <1>1, <1>4, <1>6 DEF Whole, Has
<1> QED BY <1>1, <1>4, <1>5, <1>7

\* A first part of the bytes.
LEMMA FramesCut ==
  ASSUME NEW b, Framed(b), NEW z \in 0 .. Len(b)
  PROVE  /\ Framed(SubSeq(b, 1, z)) /\ Len(SubSeq(b, 1, z)) = z /\ DOMAIN SubSeq(b, 1, z) = 1 .. z
         /\ \A k \in 1 .. z : SubSeq(b, 1, z)[k] = b[k] /\ k \in DOMAIN b
<1>1. b \in Seq(Byte) /\ Len(b) \in Nat /\ DOMAIN b = 1 .. Len(b)
  BY DEF Framed
<1>2. PICK c : c = SubSeq(b, 1, z)
  OBVIOUS
<1>3. c \in Seq(Byte) /\ Len(c) = z /\ DOMAIN c = 1 .. z /\ \A k \in 1 .. z : c[k] = b[k] /\ k \in DOMAIN b
  BY <1>1, <1>2
<1>4. Framed(c)
  BY <1>3 DEF Framed
<1> QED BY <1>2, <1>3, <1>4

\* In a file that ends with a message, no message goes on behind the end.
LEMMA WholeEnds ==
  ASSUME NEW b, Framed(b), Whole(b), NEW k \in DOMAIN b
  PROVE  SizeOf[b[k][1]] - b[k][2] <= Len(b) - k
<1>1. b \in Seq(Byte) /\ Len(b) \in Nat /\ DOMAIN b = 1 .. Len(b) /\ b # <<>>
  BY DEF Framed
<1>2. PICK e : e = Len(b) /\ e \in DOMAIN b /\ k <= e /\ k \in Nat /\ e \in Nat
  BY <1>1
<1>3. b[k] \in Byte /\ b[e] \in Byte
  BY <1>1, <1>2
<1>4. b[e][2] = SizeOf[b[e][1]]
  BY <1>1, <1>2 DEF Whole
<1>5. PICK m, i, z : m = b[k][1] /\ i = b[k][2] /\ z = SizeOf[m] /\ i \in Nat /\ i >= 1 /\ z \in Nat /\ i <= z
  BY <1>3, ByteIs DEF Framed
<1>6. ASSUME z - i > e - k PROVE FALSE
  <2>1. 0 < e - k + i /\ e - k + i <= z
    BY <1>2, <1>5, <1>6
  <2>2. b[e] = <<m, e - k + i>>
    BY <1>2, <1>5, <2>1 DEF Framed
  <2>3. b[e][1] = m /\ b[e][2] = e - k + i
    BY <2>2
  <2> QED BY <1>2, <1>4, <1>5, <1>6, <2>3
<1> QED BY <1>2, <1>5, <1>6

\* Two files one after the other.
LEMMA FramesJoin ==
  ASSUME NEW a, NEW b, Framed(a), Whole(a), Framed(b), Before(a, b)
  PROVE  Framed(a \o b) /\ (Whole(b) => Whole(a \o b))
<1>1. PICK c, x, y : c = a \o b /\ x = Len(a) /\ y = Len(b)
  OBVIOUS
<1>2. /\ a \in Seq(Byte) /\ b \in Seq(Byte) /\ x \in Nat /\ y \in Nat /\ DOMAIN a = 1 .. x /\ DOMAIN b = 1 .. y
      /\ c \in Seq(Byte) /\ Len(c) = x + y /\ DOMAIN c = 1 .. x + y
      /\ \A k \in 1 .. x + y : c[k] = IF k <= x THEN a[k] ELSE b[k - x]
  BY <1>1 DEF Framed
<1>3. \A k \in DOMAIN c : /\ k <= x => k \in DOMAIN a /\ c[k] = a[k]
                          /\ k > x => k - x \in DOMAIN b /\ c[k] = b[k - x]
  BY <1>2
<1>4. \A k \in DOMAIN c : k \in Nat /\ c[k] \in Byte /\ c[k][1] \in Nat /\ c[k][2] \in Nat /\ c[k][2] >= 1 /\ SizeOf[c[k][1]] \in Nat
  BY <1>2, ByteIs, RecorderAssumption
<1>5. ASSUME NEW k \in DOMAIN c PROVE c[k][2] <= k /\ c[k][2] <= SizeOf[c[k][1]]
  <2>1. CASE k <= x
    <3>1. k \in DOMAIN a /\ c[k] = a[k]
      BY <1>3, <1>4, <1>2, <2>1
    <3> QED BY <3>1 DEF Framed
  <2>2. CASE k > x
    <3>1. PICK k1 \in DOMAIN b : k1 = k - x /\ c[k] = b[k1]
      BY <1>3, <1>4, <1>2, <2>2
    <3>2. c[k][2] <= k1 /\ c[k][2] <= SizeOf[c[k][1]]
      BY <3>1 DEF Framed
    <3> QED BY <1>2, <1>4, <3>1, <3>2
  <2> QED BY <1>2, <1>4, <2>1, <2>2
<1>6. ASSUME NEW k \in DOMAIN c, NEW n \in DOMAIN c, 0 < n - k + c[k][2], n - k + c[k][2] <= SizeOf[c[k][1]]
      PROVE  c[n] = <<c[k][1], n - k + c[k][2]>>
  <2>0. k \in Nat /\ n \in Nat /\ c[k][2] \in Nat /\ SizeOf[c[k][1]] \in Nat
    BY <1>4
  <2>1. CASE k <= x /\ n <= x
    <3>1. k \in DOMAIN a /\ n \in DOMAIN a /\ c[k] = a[k] /\ c[n] = a[n]
      BY <1>2, <1>3, <2>0, <2>1
    <3> QED BY <1>6, <3>1 DEF Framed
  <2>2. CASE k > x /\ n > x
    <3>1. PICK k1 \in DOMAIN b, n1 \in DOMAIN b : k1 = k - x /\ n1 = n - x /\ c[k] = b[k1] /\ c[n] = b[n1]
      BY <1>2, <1>3, <2>2, <2>0
    <3>2. n1 - k1 = n - k
      BY <1>2, <3>1, <2>0
    <3> QED BY <1>6, <3>1, <3>2 DEF Framed
  <2>3. CASE k <= x /\ n > x
    <3>1. k \in DOMAIN a /\ c[k] = a[k]
      BY <1>3, <2>3, <2>0
    <3>2. SizeOf[a[k][1]] - a[k][2] <= x - k
      BY <1>1, <3>1, WholeEnds
    <3> QED BY <1>2, <1>6, <2>0, <2>3, <3>1, <3>2
  <2>4. CASE k > x /\ n <= x
    <3>1. PICK k1 \in DOMAIN b : k1 = k - x /\ c[k] = b[k1]
      BY <1>2, <1>3, <2>4, <2>0
    <3>2. c[k][2] <= k1
      BY <3>1 DEF Framed
    <3> QED BY <1>2, <1>6, <2>0, <2>4, <3>1, <3>2
  <2> QED BY <1>2, <2>0, <2>1, <2>2, <2>3, <2>4
<1>7. ASSUME NEW k \in DOMAIN c, NEW n \in DOMAIN c, k < n
      PROVE  c[k][1] < c[n][1] \/ (c[k][1] = c[n][1] /\ c[n][2] = c[k][2] + (n - k))
  <2>0. k \in Nat /\ n \in Nat
    BY <1>4
  <2>1. CASE k <= x /\ n <= x
    <3>1. k \in DOMAIN a /\ n \in DOMAIN a /\ c[k] = a[k] /\ c[n] = a[n]
      BY <1>2, <1>3, <2>0, <2>1
    <3> QED BY <1>7, <3>1 DEF Framed
  <2>2. CASE k > x /\ n > x
    <3>1. PICK k1 \in DOMAIN b, n1 \in DOMAIN b : k1 = k - x /\ n1 = n - x /\ c[k] = b[k1] /\ c[n] = b[n1]
      BY <1>2, <1>3, <2>2, <2>0
    <3>2. n1 - k1 = n - k /\ k1 < n1
      BY <1>2, <1>7, <3>1, <2>0
    <3> QED BY <3>1, <3>2 DEF Framed
  <2>3. CASE k <= x /\ n > x
    <3>1. k \in DOMAIN a /\ c[k] = a[k]
      BY <1>2, <1>3, <2>0, <2>3
    <3>2. PICK n1 \in DOMAIN b : c[n] = b[n1]
      BY <1>2, <1>3, <2>0, <2>3
    <3> QED BY <3>1, <3>2 DEF Before
  <2> QED BY <1>2, <1>7, <2>0, <2>1, <2>2, <2>3
<1>8. Framed(c)
  BY <1>2, <1>5, <1>6, <1>7 DEF Framed
<1>9. ASSUME Whole(b) PROVE Whole(c)
  <2>1. CASE y = 0
    <3>1. c = a
      BY <1>1, <1>2, <2>1
    <3> QED BY <3>1
  <2>2. CASE y # 0
    <3>1. b # <<>> /\ c[Len(c)] = b[y]
      BY <1>2, <2>2
    <3> QED BY <1>1, <1>9, <3>1 DEF Whole
  <2> QED BY <2>1, <2>2
<1> QED BY <1>1, <1>8, <1>9

Holds(s, x) == \E k \in DOMAIN s : s[k] = x

\* FlattenSeq() as its steps.
LEMMA FlatSteps ==
  ASSUME NEW X, NEW ss \in Seq(Seq(X)), Len(ss) # 0
  PROVE  \E flat : /\ FlattenSeq(ss) = flat[Len(ss)] /\ flat[1] = ss[1]
                   /\ \A n \in 2 .. Len(ss) : flat[n] = flat[n - 1] \o ss[n]
<1> DEFINE N == Len(ss)
           Body(f) == [n \in 1 .. N |-> IF n = 1 THEN ss[n] ELSE f[n - 1] \o ss[n]]
           flatten == CHOOSE f : f = Body(f)
<1>0. N \in Nat /\ N >= 1 /\ DOMAIN ss = 1 .. N /\ \A n \in 1 .. N : ss[n] \in Seq(X)
  OBVIOUS
<1>1. FlattenSeq(ss) = flatten[N]
  BY DEF FlattenSeq
<1> HIDE DEF N
<1>2. \E f : f = Body(f)
  <2>1. PICK step : step = [n \in 1 .. N |-> [s \in Seq(X) |-> s \o ss[n]]]
    OBVIOUS
  <2>2. Steps(step, N, Seq(X))
    <3>1. \A n \in 1 .. N : \A s \in Seq(X) : s \o ss[n] \in Seq(X)
      BY <1>0
    <3> QED BY <1>0, <2>1, <3>1 DEF Steps
  <2>3. PICK f \in [0 .. N -> Seq(X)] : f[0] = <<>> /\ \A n \in 1 .. N : f[n] = step[n][f[n - 1]]
    <3>1. <<>> \in Seq(X)
      OBVIOUS
    <3>2. PICK f : Goes(f, step, N, Seq(X), <<>>)
      BY <3>1, <2>2, LoopEnds
    <3> QED BY <3>2 DEF Goes
  <2>4. ASSUME NEW n \in 1 .. N PROVE f[n] = f[n - 1] \o ss[n] /\ f[n - 1] \in Seq(X)
    <3>1. n - 1 \in 0 .. N /\ f[n - 1] \in Seq(X)
      BY <1>0
    <3> QED BY <3>1, <2>1, <2>3
  <2>5. f[1] = ss[1]
    <3>1. 1 \in 1 .. N /\ 1 - 1 = 0
      BY <1>0
    <3>2. f[1] = <<>> \o ss[1] /\ ss[1] \in Seq(X)
      BY <3>1, <2>3, <2>4, <1>0
    <3> QED BY <3>2
  <2>6. PICK g : g = [n \in 1 .. N |-> f[n]]
    OBVIOUS
  <2>7. ASSUME NEW n \in 1 .. N PROVE g[n] = IF n = 1 THEN ss[n] ELSE g[n - 1] \o ss[n]
    <3>1. CASE n = 1
      BY <3>1, <2>5, <2>6
    <3>2. CASE n # 1
      <4>1. n - 1 \in 1 .. N
        BY <3>2, <1>0
      <4> QED BY <4>1, <3>2, <2>4, <2>6
    <3> QED BY <3>1, <3>2
  <2>8. g = Body(g)
    BY <2>6, <2>7
  <2> QED BY <2>8
<1>3. flatten = Body(flatten)
  BY <1>2
<1>4. PICK flat : flat = flatten
  OBVIOUS
<1>5. flat = Body(flat)
  BY <1>3, <1>4
<1>6. flat[1] = ss[1]
  <2>1. 1 \in 1 .. N
    BY <1>0
  <2> QED BY <1>5, <2>1
<1>7. ASSUME NEW n \in 2 .. N PROVE flat[n] = flat[n - 1] \o ss[n]
  <2>1. n \in 1 .. N /\ n # 1
    BY <1>0
  <2> QED BY <1>5, <2>1
<1> QED BY <1>1, <1>4, <1>6, <1>7 DEF N

LEMMA HoldsJoined ==
  ASSUME NEW X, NEW a \in Seq(X), NEW b \in Seq(X)
  PROVE  \A x : Holds(a \o b, x) <=> Holds(a, x) \/ Holds(b, x)
<1>1. PICK u : u = a \o b
  OBVIOUS
<1>2. /\ Len(a) \in Nat /\ Len(b) \in Nat
      /\ DOMAIN u = 1 .. Len(a) + Len(b) /\ DOMAIN a = 1 .. Len(a) /\ DOMAIN b = 1 .. Len(b)
      /\ \A n \in 1 .. Len(a) + Len(b) : u[n] = IF n <= Len(a) THEN a[n] ELSE b[n - Len(a)]
  BY <1>1
<1>3. \A n \in DOMAIN u : (n \in DOMAIN a /\ u[n] = a[n]) \/ (n - Len(a) \in DOMAIN b /\ u[n] = b[n - Len(a)])
  BY <1>2
<1>4. \A n \in DOMAIN a : n \in DOMAIN u /\ u[n] = a[n]
  BY <1>2
<1>5. \A n \in DOMAIN b : n + Len(a) \in DOMAIN u /\ u[n + Len(a)] = b[n]
  BY <1>2
<1>6. \A x : Holds(u, x) => Holds(a, x) \/ Holds(b, x)
  BY <1>3 DEF Holds
<1>7. \A x : Holds(a, x) \/ Holds(b, x) => Holds(u, x)
  BY <1>4, <1>5 DEF Holds
<1> QED BY <1>1, <1>6, <1>7

\* Members: each of whole messages but perhaps the last, in the order of the feed.
InTurn(ss) ==
  /\ ss \in Seq(Seq(Byte)) /\ Len(ss) >= 1
  /\ \A g \in DOMAIN ss : Framed(ss[g]) /\ (g < Len(ss) => Whole(ss[g]))
  /\ \A g, h \in DOMAIN ss : g < h => Before(ss[g], ss[h])

LEMMA MembersJoined ==
  ASSUME NEW ss, InTurn(ss)
  PROVE  /\ Framed(FlattenSeq(ss)) /\ (Whole(ss[Len(ss)]) => Whole(FlattenSeq(ss)))
         /\ \A x : Holds(FlattenSeq(ss), x) <=> \E g \in DOMAIN ss : Holds(ss[g], x)
<1>1. PICK N \in Nat : N = Len(ss) /\ N >= 1 /\ DOMAIN ss = 1 .. N /\ ss \in Seq(Seq(Byte))
  BY DEF InTurn
<1>2. PICK flat : FlattenSeq(ss) = flat[N] /\ flat[1] = ss[1] /\ \A n \in 2 .. N : flat[n] = flat[n - 1] \o ss[n]
  <2>1. Len(ss) # 0
    BY <1>1
  <2> QED BY <1>1, <2>1, FlatSteps
<1>3. \A g \in 1 .. N : Framed(ss[g]) /\ (g < N => Whole(ss[g]))
  BY <1>1 DEF InTurn
<1>4. \A g, h \in 1 .. N : g < h => Before(ss[g], ss[h])
  BY <1>1 DEF InTurn
<1> DEFINE Is(n) == /\ Framed(flat[n]) /\ (Whole(ss[n]) => Whole(flat[n]))
                    /\ \A x : Holds(flat[n], x) <=> \E g \in 1 .. n : Holds(ss[g], x)
           T == {n \in 0 .. N : n = 0 \/ Is(n)}
<1>5. 0 \in T
  BY <1>1
<1>6. ASSUME NEW n \in 1 .. N, n - 1 \in T PROVE n \in T
  <2>1. CASE n = 1
    <3>1. 1 .. 1 = {1} /\ 1 \in 1 .. N
      BY <1>1
    <3>2. Is(1)
      BY <1>2, <1>3, <3>1
    <3> QED BY <2>1, <3>1, <3>2
  <2>2. CASE n # 1
    <3>1. n \in 2 .. N /\ n - 1 \in 1 .. N /\ n - 1 # 0 /\ n - 1 < N /\ n \in 0 .. N
      BY <1>1, <2>2
    <3>2. PICK a, b : a = flat[n - 1] /\ b = ss[n]
      OBVIOUS
    <3>3. Framed(a) /\ Whole(a) /\ \A x : Holds(a, x) <=> \E g \in 1 .. n - 1 : Holds(ss[g], x)
      <4>1. Is(n - 1) /\ Whole(ss[n - 1])
        BY <1>3, <1>6, <3>1
      <4> QED BY <3>2, <4>1
    <3>4. Framed(b)
      BY <1>3, <3>2
    <3>5. Before(a, b)
      <4> SUFFICES ASSUME NEW k \in DOMAIN a, NEW l \in DOMAIN b PROVE a[k][1] < b[l][1]
        BY DEF Before
      <4>1. Holds(a, a[k])
        BY DEF Holds
      <4>2. PICK g \in 1 .. n - 1 : Holds(ss[g], a[k])
        BY <3>3, <4>1
      <4>3. g \in 1 .. N /\ n \in 1 .. N /\ g < n
        BY <1>1
      <4>4. Before(ss[g], ss[n])
        BY <1>4, <4>3
      <4> QED BY <3>2, <4>2, <4>4 DEF Holds, Before
    <3>6. flat[n] = a \o b
      BY <1>2, <3>1, <3>2
    <3>7. Framed(a \o b) /\ (Whole(b) => Whole(a \o b))
      BY <3>3, <3>4, <3>5, FramesJoin
    <3>8. \A x : Holds(a \o b, x) <=> Holds(a, x) \/ Holds(b, x)
      <4>1. a \in Seq(Byte) /\ b \in Seq(Byte)
        BY <3>3, <3>4 DEF Framed
      <4> QED BY <4>1, HoldsJoined
    <3>9. \A g : g \in 1 .. n <=> g \in 1 .. n - 1 \/ g = n
      BY <1>1
    <3>10. \A x : Holds(a \o b, x) <=> \E g \in 1 .. n : Holds(ss[g], x)
      BY <3>2, <3>3, <3>8, <3>9
    <3> QED BY <3>1, <3>2, <3>6, <3>7, <3>10
  <2> QED BY <2>1, <2>2
<1>7. N \in T
  <2> HIDE DEF T
  <2>1. \A n \in 0 .. N : n \in T
    BY <1>5, <1>6, EachStep
  <2> QED BY <2>1
<1>8. Is(N)
  BY <1>1, <1>7
<1> QED BY <1>1, <1>2, <1>8

LEMMA SeqElement == ASSUME NEW S, NEW s \in Seq(S), NEW i \in DOMAIN s PROVE s[i] \in S
  OBVIOUS

\* What the reader gets: the members up to the first that was not ended.
LEMMA ReadableIs ==
  ASSUME InFile
  PROVE  /\ Framed(Readable)
         /\ \E z \in 1 .. Len(gz) :
              /\ Damaged = {} => z = Len(gz)
              /\ Damaged # {} => z = Min(Damaged)
              /\ \A x : Holds(Readable, x) <=> \E g \in 1 .. z : Holds(gz[g].bytes, x)
<1>1. PICK N \in Nat : N = Len(gz) /\ N >= 1 /\ DOMAIN gz = 1 .. N /\ gz \in Seq(Member)
  BY DEF InFile, FileOk
<1>2. PICK z \in 1 .. N : /\ z = (IF Damaged = {} THEN Len(gz) ELSE Min(Damaged))
                          /\ \A g \in 1 .. N : g < z => gz[g].ended
  <2>1. CASE Damaged = {}
    BY <1>1, <2>1 DEF Damaged
  <2>2. CASE Damaged # {}
    <3>1. PICK D : D = Damaged /\ D # {} /\ D \subseteq 1 .. N
      BY <1>1, <2>2 DEF Damaged
    <3>2. PICK x \in D : \A y \in D : x <= y
      <4>1. D \subseteq Nat
        BY <3>1
      <4> QED BY <3>1, <4>1, Least
    <3>3. Min(D) = x
      <4>1. D \subseteq Int
        BY <3>1
      <4> QED BY <3>2, <4>1, MinIs
    <3>4. ASSUME NEW g \in 1 .. N, g < x PROVE gz[g].ended
      <4>1. g \notin D
        BY <3>1, <3>2, <3>4
      <4> QED BY <1>1, <3>1, <4>1 DEF Damaged
    <3> QED BY <2>2, <3>1, <3>3, <3>4
  <2> QED BY <2>1, <2>2
<1>3. PICK ss : ss = [i \in 1 .. z |-> gz[i].bytes]
  OBVIOUS
<1>4. Readable = FlattenSeq(ss)
  <2>1. PICK w : w = (IF Damaged = {} THEN Len(gz) ELSE Min(Damaged))
    OBVIOUS
  <2>2. Readable = FlattenSeq([i \in 1 .. w |-> gz[i].bytes])
    BY <2>1, Zenon DEF Readable
  <2>3. w = z
    BY <1>2, <2>1
  <2>4. [i \in 1 .. w |-> gz[i].bytes] = ss
    BY <1>3, <2>3
  <2> QED BY <2>2, <2>4, Zenon
<1>5. z \in Nat /\ z >= 1 /\ \A g \in 1 .. z : g \in 1 .. N /\ gz[g] \in Member /\ gz[g].bytes \in Seq(Byte)
  <2>1. z \in Nat /\ z >= 1 /\ \A g \in 1 .. z : g \in 1 .. N
    BY <1>1, <1>2
  <2>2. \A g \in 1 .. N : gz[g] \in Member
    <3>1. gz \in Seq(Member) /\ DOMAIN gz = 1 .. N
      BY <1>1
    <3> QED BY <3>1, SeqElement
  <2> QED BY <2>1, <2>2 DEF Member
<1>6. ss \in Seq(Seq(Byte)) /\ Len(ss) = z /\ DOMAIN ss = 1 .. z /\ \A g \in 1 .. z : ss[g] = gz[g].bytes
  BY <1>3, <1>5
<1>7. InTurn(ss)
  <2>1. ASSUME NEW g \in 1 .. z PROVE Framed(ss[g]) /\ (g < z => Whole(ss[g]))
    BY <1>1, <1>2, <1>5, <1>6 DEF InFile, FileOk
  <2>2. ASSUME NEW g \in 1 .. z, NEW h \in 1 .. z, g < h PROVE Before(ss[g], ss[h])
    BY <1>1, <1>5, <1>6, <2>2 DEF InFile, FileOk
  <2> QED BY <1>5, <1>6, <2>1, <2>2 DEF InTurn
<1>8. /\ Framed(FlattenSeq(ss))
      /\ \A x : Holds(FlattenSeq(ss), x) <=> \E g \in DOMAIN ss : Holds(ss[g], x)
  BY <1>7, MembersJoined
<1>9. \A x : Holds(Readable, x) <=> \E g \in 1 .. z : Holds(gz[g].bytes, x)
  BY <1>4, <1>6, <1>8
<1> QED BY <1>1, <1>2, <1>4, <1>8, <1>9

\* Behind the end of a message the next one begins.
LEMMA NextMessage ==
  ASSUME NEW F, Framed(F), NEW p \in Nat, p + 1 <= Len(F), p = 0 \/ F[p][2] = SizeOf[F[p][1]]
  PROVE  /\ p + 1 \in DOMAIN F /\ F[p + 1][1] \in 1 .. MaxMessages /\ F[p + 1][2] = 1
         /\ \A k \in 1 .. p : F[k][1] < F[p + 1][1]
         /\ \A n \in DOMAIN F : p < n /\ n - p <= SizeOf[F[p + 1][1]] => F[n] = <<F[p + 1][1], n - p>>
<1>1. F \in Seq(Byte) /\ Len(F) \in Nat /\ DOMAIN F = 1 .. Len(F) /\ p + 1 \in DOMAIN F
  BY DEF Framed
<1>2. \A k \in DOMAIN F : /\ k \in Nat /\ F[k][1] \in 1 .. MaxMessages /\ F[k][2] \in Nat /\ F[k][2] >= 1
                          /\ SizeOf[F[k][1]] \in Nat
  BY <1>1, ByteIs
<1>3. PICK q, m, i : q \in DOMAIN F /\ q = p + 1 /\ m = F[q][1] /\ i = F[q][2]
  BY <1>1
<1>4. m \in 1 .. MaxMessages /\ i \in Nat /\ i >= 1 /\ SizeOf[m] \in Nat /\ i <= q /\ i <= SizeOf[m]
  BY <1>2, <1>3 DEF Framed
<1>5. i = 1
  <2> SUFFICES ASSUME i # 1 PROVE FALSE
    OBVIOUS
  <2>1. p \in DOMAIN F /\ p # 0 /\ 0 < p - q + i /\ p - q + i <= SizeOf[m] /\ p - q + i = i - 1
    BY <1>1, <1>3, <1>4
  <2>2. F[p] = <<m, p - q + i>>
    BY <1>3, <2>1 DEF Framed
  <2>3. F[p][1] = m /\ F[p][2] = i - 1
    BY <2>1, <2>2
  <2> QED BY <1>4, <2>1, <2>3
<1>6. ASSUME NEW k \in 1 .. p PROVE F[k][1] < m
  <2>1. k \in DOMAIN F /\ k < q
    BY <1>1, <1>3
  <2>2. F[k][1] < F[q][1] \/ (F[k][1] = F[q][1] /\ F[q][2] = F[k][2] + (q - k))
    BY <1>3, <2>1 DEF Framed
  <2>3. F[q][2] # F[k][2] + (q - k)
    BY <1>2, <1>3, <1>5, <2>1
  <2> QED BY <1>3, <2>2, <2>3
<1>7. ASSUME NEW n \in DOMAIN F, p < n, n - p <= SizeOf[m] PROVE F[n] = <<m, n - p>>
  <2>1. 0 < n - q + i /\ n - q + i <= SizeOf[m] /\ n - q + i = n - p
    BY <1>2, <1>3, <1>5, <1>7
  <2>2. F[n] = <<m, n - q + i>>
    BY <1>3, <2>1 DEF Framed
  <2> QED BY <2>1, <2>2
<1> QED BY <1>1, <1>3, <1>4, <1>5, <1>6, <1>7

\* A message decoded.
LEMMA OneMore ==
  ASSUME NEW F, Framed(F), NEW p \in Nat, p + 1 <= Len(F), NEW rs, Done(F, p, rs), NEW m, m = F[p + 1][1],
         p + SizeOf[m] <= Len(F)
  PROVE  Done(F, p + SizeOf[m], Append(rs, m))
<1>0. F \in Seq(Byte) /\ Len(F) \in Nat /\ DOMAIN F = 1 .. Len(F)
  BY DEF Framed
<1>1. p = 0 \/ F[p][2] = SizeOf[F[p][1]]
  BY DEF Done
<1>2. /\ m \in 1 .. MaxMessages
      /\ \A k \in 1 .. p : F[k][1] < m
      /\ \A n \in DOMAIN F : p < n /\ n - p <= SizeOf[m] => F[n] = <<m, n - p>>
  BY <1>1, NextMessage
<1>3. PICK z \in Nat, e \in Nat : z = SizeOf[m] /\ z >= 1 /\ e = p + z /\ e \in DOMAIN F /\ e - p = z
  BY <1>0, <1>2, Sizes
<1>4. F[e] = <<m, z>>
  <2>1. p < e
    BY <1>3
  <2> QED BY <1>2, <1>3, <2>1
<1>5. rs \in Seq(1 .. MaxMessages) /\ \A i, j \in DOMAIN rs : i < j => rs[i] < rs[j]
  BY DEF Done
<1>6. \A x \in 1 .. MaxMessages : (\E i \in DOMAIN rs : rs[i] = x) <=> \E k \in 1 .. p : F[k] = <<x, SizeOf[x]>>
  BY DEF Done
<1>7. ASSUME NEW i \in DOMAIN rs PROVE rs[i] < m
  <2>1. rs[i] \in 1 .. MaxMessages
    <3>1. rs \in Seq(1 .. MaxMessages)
      BY <1>5
    <3> QED BY <3>1, SeqElement
  <2>2. PICK k \in 1 .. p : F[k] = <<rs[i], SizeOf[rs[i]]>>
    BY <1>6, <2>1
  <2>3. F[k][1] = rs[i]
    BY <2>2
  <2> QED BY <1>2, <2>3
<1>8. PICK ts : ts = Append(rs, m)
  OBVIOUS
<1>9. /\ ts \in Seq(1 .. MaxMessages) /\ Len(rs) \in Nat /\ DOMAIN rs = 1 .. Len(rs) /\ DOMAIN ts = 1 .. Len(rs) + 1
      /\ (\A i \in DOMAIN rs : ts[i] = rs[i]) /\ ts[Len(rs) + 1] = m
  BY <1>2, <1>5, <1>8
<1>10. \A i : i \in DOMAIN ts <=> i \in DOMAIN rs \/ i = Len(rs) + 1
  BY <1>9
<1>11. ASSUME NEW i \in DOMAIN ts, NEW j \in DOMAIN ts, i < j PROVE ts[i] < ts[j]
  <2>1. i \in DOMAIN rs
    BY <1>9, <1>11
  <2>2. CASE j \in DOMAIN rs
    BY <1>5, <1>9, <1>11, <2>1, <2>2
  <2>3. CASE j = Len(rs) + 1
    BY <1>7, <1>9, <2>1, <2>3
  <2> QED BY <1>10, <2>2, <2>3
<1>12. ASSUME NEW x \in 1 .. MaxMessages
       PROVE  (\E i \in DOMAIN ts : ts[i] = x) <=> \E k \in 1 .. e : F[k] = <<x, SizeOf[x]>>
  <2>1. (\E i \in DOMAIN ts : ts[i] = x) <=> (\E i \in DOMAIN rs : rs[i] = x) \/ x = m
    BY <1>9, <1>10
  <2>2. ASSUME NEW k \in 1 .. e, F[k] = <<x, SizeOf[x]>> PROVE (\E i \in 1 .. p : F[i] = <<x, SizeOf[x]>>) \/ x = m
    <3>1. CASE k <= p
      <4>1. k \in 1 .. p
        BY <3>1
      <4> QED BY <2>2, <4>1
    <3>2. CASE k > p
      <4>1. k \in DOMAIN F /\ p < k /\ k - p <= SizeOf[m]
        BY <1>0, <1>3, <3>2
      <4>2. F[k] = <<m, k - p>>
        BY <1>2, <4>1
      <4> QED BY <2>2, <4>2
    <3> QED BY <3>1, <3>2
  <2>3. ASSUME (\E i \in 1 .. p : F[i] = <<x, SizeOf[x]>>) \/ x = m PROVE \E k \in 1 .. e : F[k] = <<x, SizeOf[x]>>
    <3>1. e \in 1 .. e /\ \A i \in 1 .. p : i \in 1 .. e
      BY <1>3
    <3> QED BY <1>3, <1>4, <2>3, <3>1
  <2> QED BY <1>6, <2>1, <2>2, <2>3
<1>13. F[e][2] = SizeOf[F[e][1]]
  <2>1. F[e][1] = m /\ F[e][2] = z
    BY <1>4
  <2> QED BY <1>3, <2>1
<1>14. Done(F, e, ts)
  BY <1>9, <1>11, <1>12, <1>13 DEF Done
<1> QED BY <1>3, <1>8, <1>14

\* What the reader has left in its buffer is what comes next in the file.
LEMMA RestIs ==
  ASSUME NEW F, F \in Seq(Byte), Buffered(F)
  PROVE  \E p \in Nat : /\ p = at - Len(buf_) + pos_ /\ p <= at /\ at <= Len(F) /\ at \in Nat
                        /\ Rest \in Seq(Byte) /\ Len(Rest) = at - p /\ DOMAIN Rest = 1 .. at - p
                        /\ \A k \in 1 .. at - p : Rest[k] = F[p + k]
<1>1. PICK b, B, L : b = buf_ /\ B = Len(b) /\ L = Len(F) /\ b \in Seq(Byte) /\ B \in Nat /\ L \in Nat /\ DOMAIN b = 1 .. B
  <2>1. buf_ \in Seq(Byte)
    BY DEF Buffered
  <2>2. Len(buf_) \in Nat /\ DOMAIN buf_ = 1 .. Len(buf_) /\ Len(F) \in Nat
    BY <2>1
  <2> QED BY <2>1, <2>2
<1>2. at \in 0 .. L /\ B <= at /\ pos_ \in 0 .. B /\ \A k \in 1 .. B : b[k] = F[at - B + k]
  <2>1. /\ at \in 0 .. Len(F) /\ Len(buf_) <= at /\ pos_ \in 0 .. Len(buf_)
        /\ \A k \in DOMAIN buf_ : buf_[k] = F[at - Len(buf_) + k]
    BY DEF Buffered
  <2>2. at \in 0 .. L /\ B <= at /\ pos_ \in 0 .. B
    BY <1>1, <2>1
  <2>3. \A k \in 1 .. B : b[k] = F[at - B + k]
    BY <1>1, <2>1
  <2> QED BY <2>2, <2>3
<1>3. PICK p \in Nat : p = at - B + pos_ /\ p <= at /\ at - p = B - pos_
  <2>1. B \in Nat /\ at \in Nat /\ pos_ \in Nat /\ B <= at /\ pos_ <= B
    BY <1>1, <1>2
  <2>2. at - B + pos_ \in Nat /\ at - B + pos_ <= at /\ at - (at - B + pos_) = B - pos_
    BY <2>1
  <2> QED BY <2>2
<1>4. Rest = SubSeq(b, pos_ + 1, B)
  BY <1>1, Zenon DEF Rest
<1>5. PICK r : r = SubSeq(b, pos_ + 1, B)
  OBVIOUS
<1>6. r \in Seq(Byte) /\ Len(r) = B - pos_ /\ DOMAIN r = 1 .. B - pos_ /\ \A k \in 1 .. B - pos_ : r[k] = b[pos_ + k]
  BY <1>1, <1>2, <1>5
<1>7. ASSUME NEW k \in 1 .. at - p PROVE r[k] = F[p + k]
  <2>1. k \in 1 .. B - pos_ /\ pos_ + k \in 1 .. B /\ at - B + (pos_ + k) = p + k
    BY <1>1, <1>2, <1>3
  <2> QED BY <1>2, <1>6, <2>1
<1>8. Rest = r /\ at - p = B - pos_
  BY <1>3, <1>4, <1>5, Zenon
<1>9. Rest \in Seq(Byte) /\ Len(Rest) = at - p /\ DOMAIN Rest = 1 .. at - p
  BY <1>6, <1>8
<1>10. p = at - Len(buf_) + pos_ /\ p <= at /\ at <= Len(F) /\ at \in Nat
  BY <1>1, <1>2, <1>3
<1> QED BY <1>7, <1>8, <1>9, <1>10

LEMMA ReplayFromIInv == RecorderIInv => ReplayInv
<1> SUFFICES ASSUME RecorderIInv, mode = "end" PROVE ReplayInv
  BY DEF ReplayInv, ReplayComplete, ReplaySound
<1>0. InRing /\ InFile /\ NothingLost /\ Phases /\ Reading
  BY DEF RecorderIInv
<1>1. PICK F : F = Readable /\ Framed(F)
  BY <1>0, ReadableIs
<1>2. PICK z \in 1 .. Len(gz) : /\ Damaged = {} => z = Len(gz)
                                /\ Damaged # {} => z = Min(Damaged)
                                /\ \A x : Holds(F, x) <=> \E g \in 1 .. z : Holds(gz[g].bytes, x)
  BY <1>0, <1>1, ReadableIs
<1>3. Buffered(F) /\ Done(F, at - Len(buf_) + pos_, replayed) /\ eof_ /\ ~HasMessage(Rest) /\ Stops(F)
  BY <1>0, <1>1 DEF Reading
<1>4. F \in Seq(Byte) /\ Len(F) \in Nat /\ DOMAIN F = 1 .. Len(F)
  BY <1>1 DEF Framed
<1>5. PICK p \in Nat : /\ p = at - Len(buf_) + pos_ /\ p <= at /\ at <= Len(F) /\ at \in Nat
                       /\ Rest \in Seq(Byte) /\ Len(Rest) = at - p
                       /\ \A k \in 1 .. at - p : Rest[k] = F[p + k]
  BY <1>3, <1>4, RestIs
<1>6. Done(F, p, replayed)
  BY <1>3, <1>5
<1>7. /\ replayed \in Seq(1 .. MaxMessages) /\ \A i, j \in DOMAIN replayed : i < j => replayed[i] < replayed[j]
      /\ \A m \in 1 .. MaxMessages : (\E i \in DOMAIN replayed : replayed[i] = m) <=> \E k \in 1 .. p : F[k] = <<m, SizeOf[m]>>
  BY <1>6 DEF Done
<1>8. ASSUME NEW m \in 1 .. MaxMessages, NEW k \in DOMAIN F, k <= at, F[k] = <<m, SizeOf[m]>> PROVE m \in ToSet(replayed)
  <2>2. k <= p
    <3> SUFFICES ASSUME k > p PROVE FALSE
      BY <1>4
    <3>1. p + 1 <= Len(F) /\ 1 \in 1 .. at - p
      BY <1>4, <1>5, <1>8
    <3>2. p = 0 \/ F[p][2] = SizeOf[F[p][1]]
      BY <1>6 DEF Done
    <3>3. PICK m0 \in 1 .. MaxMessages : m0 = F[p + 1][1] /\ \A n \in DOMAIN F : p < n /\ n - p <= SizeOf[m0] => F[n] = <<m0, n - p>>
      BY <1>1, <3>1, <3>2, NextMessage
    <3>4. Rest[1] = F[p + 1] /\ Rest # <<>>
      BY <1>5, <3>1
    <3>5. ~ (at - p >= SizeOf[m0])
      BY <1>3, <1>5, <3>3, <3>4 DEF HasMessage
    <3>6. SizeOf[m0] \in Nat
      BY <3>3, Sizes
    <3>7. k - p <= SizeOf[m0] /\ k - p # SizeOf[m0] /\ p < k
      BY <1>4, <1>5, <1>8, <3>5, <3>6
    <3>8. F[k] = <<m0, k - p>>
      BY <3>3, <3>7
    <3> QED BY <1>8, <3>7, <3>8
  <2>3. k \in 1 .. p
    BY <1>4, <2>2
  <2>4. \E i \in DOMAIN replayed : replayed[i] = m
    BY <1>7, <1>8, <2>3
  <2> QED BY <2>4 DEF ToSet
<1>80. ASSUME ~Broken, NEW m \in 1 .. MaxMessages, Holds(F, <<m, SizeOf[m]>>) PROVE m \in ToSet(replayed)
  <2>1. PICK k \in DOMAIN F : F[k] = <<m, SizeOf[m]>>
    BY <1>80 DEF Holds
  <2>2. at = Len(F)
    BY <1>3, <1>80 DEF Stops
  <2>3. k <= at
    BY <1>4, <2>2
  <2> QED BY <1>8, <2>1, <2>3
<1>9. given \in Nat /\ given <= MaxMessages /\ \A m \in 1 .. given : m \in 1 .. MaxMessages
  BY <1>0, RecorderAssumption DEF InRing
<1>10. ASSUME NEW i \in DOMAIN replayed PROVE replayed[i] \in Kept
  <2>1. PICK m \in 1 .. MaxMessages : m = replayed[i]
    BY <1>7, SeqElement
  <2>2. PICK k \in 1 .. p : F[k] = <<m, SizeOf[m]>>
    BY <1>7, <2>1
  <2>3. k \in DOMAIN F
    BY <1>4, <1>5
  <2>4. Holds(F, <<m, SizeOf[m]>>)
    BY <2>2, <2>3 DEF Holds
  <2>5. PICK g \in 1 .. z : Holds(gz[g].bytes, <<m, SizeOf[m]>>)
    BY <1>2, <2>4
  <2>6. g \in DOMAIN gz
    <3>1. gz \in Seq(Member)
      BY <1>0 DEF InFile, FileOk
    <3>2. DOMAIN gz = 1 .. Len(gz) /\ Len(gz) \in Nat
      BY <3>1
    <3> QED BY <3>2
  <2>7. Within(gz[g].bytes, Past)
    BY <1>0, <2>6 DEF InFile, FileOk
  <2>8. m \in Past
    <3>1. PICK k1 \in DOMAIN gz[g].bytes : gz[g].bytes[k1] = <<m, SizeOf[m]>>
      BY <2>5 DEF Holds
    <3>2. gz[g].bytes[k1][1] = m
      BY <3>1
    <3> QED BY <2>7, <3>2 DEF Within
  <2> QED BY <2>1, <2>8 DEF Past, Kept
<1>11. DOMAIN gz = 1 .. Len(gz) /\ Len(gz) \in Nat
  <2>1. gz \in Seq(Member)
    BY <1>0 DEF InFile, FileOk
  <2> QED BY <2>1
<1>110. PICK e \in Nat : e = Len(gz) /\ z \in 1 .. e
  BY <1>11
<1>111. ~ (z < e) => z = e
  BY <1>110
<1>12. ASSUME ~Broken, NEW g \in DOMAIN gz, NEW m \in 1 .. given, NEW i \in 1 .. (gz[g].synced - 1),
              gz[g].bytes[i] = <<m, SizeOf[m]>>
       PROVE  m \in ToSet(replayed)
  <2>1. z = Len(gz)
    <3>1. CASE Damaged = {}
      BY <1>2, <3>1
    <3>2. CASE Damaged # {}
      <4>1. ~ (z < Len(gz))
        BY <1>2, <1>12, <3>2 DEF Broken
      <4> QED BY <1>110, <1>111, <4>1, Zenon
    <3> QED BY <3>1, <3>2
  <2>2. gz[g].synced <= Len(gz[g].bytes) + 1 /\ gz[g] \in Member
    <3>1. gz \in Seq(Member)
      BY <1>0 DEF InFile, FileOk
    <3>2. gz[g] \in Member
      BY <3>1, SeqElement
    <3> QED BY <1>0, <3>2 DEF InFile, FileOk
  <2>3. PICK b, y : b = gz[g].bytes /\ y = gz[g].synced /\ b \in Seq(Byte) /\ y \in Nat /\ y <= Len(b) + 1
    <3>1. gz[g].bytes \in Seq(Byte) /\ gz[g].synced \in Nat
      BY <2>2 DEF Member
    <3> QED BY <2>2, <3>1
  <2>4. i \in DOMAIN b
    <3>1. i \in 1 .. (y - 1) /\ Len(b) \in Nat /\ DOMAIN b = 1 .. Len(b)
      BY <2>3
    <3> QED BY <2>3, <3>1
  <2>5. Holds(gz[g].bytes, <<m, SizeOf[m]>>)
    BY <1>12, <2>3, <2>4 DEF Holds
  <2>6. g \in 1 .. z
    BY <1>11, <2>1
  <2>7. Holds(F, <<m, SizeOf[m]>>)
    BY <1>2, <2>5, <2>6
  <2> QED BY <1>9, <1>12, <1>80, <2>7
<1>120. ASSUME NEW k \in DOMAIN Readable, NEW m \in 1 .. given, Readable[k] = <<m, SizeOf[m]>>,
               Broken => k + BufSize + Ahead <= Len(Readable)
        PROVE  m \in ToSet(replayed)
  <2>1. k \in DOMAIN F /\ F[k] = <<m, SizeOf[m]>> /\ k \in Nat
    BY <1>1, <1>4, <1>120
  <2>2. k <= at
    <3>1. CASE at = Len(F)
      BY <1>4, <2>1, <3>1
    <3>2. CASE Broken /\ Len(F) < at + (BufSize + Ahead)
      <4>1. k + BufSize + Ahead <= Len(F)
        BY <1>1, <1>120, <3>2
      <4> QED BY <1>4, <1>5, <2>1, <3>2, <4>1, RecorderAssumption
    <3> QED BY <1>3, <3>1, <3>2 DEF Stops
  <2> QED BY <1>8, <1>9, <2>1, <2>2
<1>13. ReplaySound
  <2>1. ToSet(replayed) \subseteq Kept
    BY <1>10 DEF ToSet
  <2> QED BY <1>7, <1>12, <1>120, <2>1 DEF ReplaySound
<1>14. ASSUME crashes = 0, NEW m \in Kept PROVE m \in ToSet(replayed)
  <2>1. \A g \in DOMAIN gz : gz[g].ended
    <3>1. \A g \in DOMAIN gz : g < Len(gz) => gz[g].ended
      BY <1>0, <1>14 DEF NothingLost
    <3>2. gz[Len(gz)].ended
      BY <1>0, <1>14 DEF Phases
    <3> QED BY <1>11, <3>1, <3>2
  <2>2. Damaged = {} /\ ~Broken
    BY <2>1 DEF Damaged, Broken
  <2>3. m \in 1 .. given /\ m \notin dropped
    BY DEF Kept
  <2>4. DOMAIN ring = {}
    BY <1>0 DEF Phases
  <2>5. PICK g \in DOMAIN gz : Has(gz[g].bytes, m)
    BY <1>0, <1>14, <2>3, <2>4 DEF NothingLost
  <2>6. Holds(gz[g].bytes, <<m, SizeOf[m]>>)
    BY <2>5 DEF Has, Holds
  <2>7. g \in 1 .. z
    BY <1>2, <1>11, <2>2
  <2>8. Holds(F, <<m, SizeOf[m]>>)
    BY <1>2, <2>6, <2>7
  <2> QED BY <1>80, <1>9, <2>2, <2>3, <2>8
<1>15. ReplayComplete
  <2>1. ToSet(replayed) \subseteq Kept
    BY <1>10 DEF ToSet
  <2> QED BY <1>14, <2>1 DEF ReplayComplete
<1> QED BY <1>13, <1>15 DEF ReplayInv

-----------------------------------------------------------------------------
(* Recorder: the file *)

LEMMA FileMore ==
  ASSUME NEW f, NEW K, NEW J, FileOk(f, K), K \subseteq J
  PROVE  FileOk(f, J)
  BY DEF FileOk, Within

\* A member as it may stand last in the file f.
Fits(f, K, r) ==
  /\ r \in Member /\ Framed(r.bytes) /\ Within(r.bytes, K) /\ r.synced <= Len(r.bytes) + 1
  /\ \A g \in DOMAIN f : g < Len(f) => Before(f[g].bytes, r.bytes)

Left(r) == Whole(r.bytes) \/ r.ended = FALSE

\* The last member changed.
LEMMA FileLast ==
  ASSUME NEW f, NEW K, FileOk(f, K), NEW r, Fits(f, K, r), Left(r), NEW h, h = [f EXCEPT ![Len(f)] = r]
  PROVE  FileOk(h, K)
<1>1. PICK N \in Nat : N = Len(f) /\ N >= 1 /\ f \in Seq(Member) /\ DOMAIN f = 1 .. N
  BY DEF FileOk
<1>2. r \in Member
  BY DEF Fits
<1>3. h \in Seq(Member) /\ Len(h) = N /\ DOMAIN h = 1 .. N /\ h[N] = r /\ \A g \in 1 .. N : g # N => h[g] = f[g]
  BY <1>1, <1>2
<1>4. ASSUME NEW g \in 1 .. N
      PROVE  /\ Framed(h[g].bytes) /\ Within(h[g].bytes, K) /\ h[g].synced <= Len(h[g].bytes) + 1
             /\ h[g].ended => Whole(h[g].bytes)
  <2>1. CASE g = N
    BY <1>3, <2>1 DEF Fits, Left
  <2>2. CASE g # N
    BY <1>1, <1>3, <2>2 DEF FileOk
  <2> QED BY <2>1, <2>2
<1>5. ASSUME NEW g \in 1 .. N, NEW k \in 1 .. N, g < k PROVE Before(h[g].bytes, h[k].bytes)
  <2>1. g # N /\ h[g] = f[g] /\ g < N
    BY <1>1, <1>3, <1>5
  <2>2. CASE k = N
    BY <1>1, <1>3, <2>1, <2>2 DEF Fits
  <2>3. CASE k # N
    BY <1>1, <1>3, <1>5, <2>1, <2>3 DEF FileOk
  <2> QED BY <2>2, <2>3
<1> QED BY <1>1, <1>3, <1>4, <1>5 DEF FileOk

\* The last member left as r, which ends with a message or was not ended, and a
\* new one begun.
MemberAdded(f, r, h) == h = Append([f EXCEPT ![Len(f)] = r], NewMember)
Longer(f, r, h) ==
  /\ Len(h) = Len(f) + 1 /\ h[Len(h)] = NewMember /\ h[Len(f)] = r
  /\ DOMAIN h = DOMAIN f \cup {Len(f) + 1} /\ \A g \in DOMAIN f : g < Len(f) => h[g] = f[g]
LEMMA FileNew ==
  ASSUME NEW f, NEW K, FileOk(f, K), NEW r, Fits(f, K, r), Left(r), NEW h, MemberAdded(f, r, h)
  PROVE  FileOk(h, K) /\ Longer(f, r, h)
<1>1. PICK N \in Nat : N = Len(f) /\ N >= 1 /\ f \in Seq(Member) /\ DOMAIN f = 1 .. N
  BY DEF FileOk
<1>2. r \in Member
  BY DEF Fits
<1>3. NewMember \in Member /\ NewMember.bytes = <<>> /\ NewMember.synced = 0
  BY DEF NewMember, Member
<1>4. PICK e : e = [f EXCEPT ![N] = r] /\ h = Append(e, NewMember)
  BY <1>1 DEF MemberAdded
<1>5. e \in Seq(Member) /\ Len(e) = N /\ DOMAIN e = 1 .. N /\ e[N] = r /\ \A g \in 1 .. N : g # N => e[g] = f[g]
  BY <1>1, <1>2, <1>4
<1>6. /\ h \in Seq(Member) /\ Len(h) = N + 1 /\ DOMAIN h = 1 .. N + 1 /\ h[N + 1] = NewMember
      /\ \A g \in 1 .. N : h[g] = e[g]
  BY <1>3, <1>4, <1>5
<1>7. h[N] = r /\ \A g \in 1 .. N : g # N => h[g] = f[g]
  BY <1>1, <1>5, <1>6
<1>8. DOMAIN <<>> = {} /\ <<>> \in Seq(Byte) /\ Len(<<>>) = 0
  OBVIOUS
<1>9. Framed(<<>>) /\ Within(<<>>, K) /\ Whole(<<>>) /\ \A b : Before(b, <<>>)
  <2>1. \A k : k \notin DOMAIN <<>>
    BY <1>8
  <2> HIDE DEF NewMember
  <2>2. Framed(<<>>)
    BY <1>8, <2>1, Zenon DEF Framed
  <2>3. Within(<<>>, K) /\ Whole(<<>>) /\ \A b : Before(b, <<>>)
    BY <2>1, Zenon DEF Within, Whole, Before
  <2> QED BY <2>2, <2>3
<1>10. ASSUME NEW g \in 1 .. N + 1
       PROVE  /\ Framed(h[g].bytes) /\ Within(h[g].bytes, K) /\ h[g].synced <= Len(h[g].bytes) + 1
              /\ h[g].ended => Whole(h[g].bytes)
  <2>1. CASE g = N + 1
    BY <1>3, <1>6, <1>8, <1>9, <2>1
  <2>2. CASE g = N
    BY <1>1, <1>7, <2>2 DEF Fits, Left
  <2>3. CASE g # N /\ g # N + 1
    <3>1. g \in 1 .. N /\ h[g] = f[g]
      BY <1>1, <1>7, <2>3
    <3> QED BY <1>1, <2>3, <3>1 DEF FileOk
  <2> QED BY <2>1, <2>2, <2>3
<1>11. ASSUME NEW g \in 1 .. N + 1, NEW k \in 1 .. N + 1, g < k PROVE Before(h[g].bytes, h[k].bytes)
  <2>1. CASE k = N + 1
    BY <1>3, <1>6, <1>9, <2>1
  <2>2. CASE k = N
    <3>1. g \in 1 .. N /\ g # N /\ g < N /\ h[g] = f[g]
      BY <1>1, <1>7, <1>11, <2>2
    <3> QED BY <1>1, <1>7, <2>2, <3>1 DEF Fits
  <2>3. CASE k # N /\ k # N + 1
    <3>1. g \in 1 .. N /\ k \in 1 .. N /\ h[g] = f[g] /\ h[k] = f[k]
      BY <1>1, <1>7, <1>11, <2>3
    <3> QED BY <1>1, <1>11, <3>1 DEF FileOk
  <2> QED BY <2>1, <2>2, <2>3
<1>12. FileOk(h, K)
  BY <1>1, <1>6, <1>10, <1>11 DEF FileOk
<1>13. \A g : g \in 1 .. N + 1 <=> g \in 1 .. N \/ g = N + 1
  BY <1>1
<1> QED BY <1>1, <1>6, <1>7, <1>12, <1>13 DEF Longer

\* The last member as it stands, with its bytes cut, with a message more.
LEMMA LastFits ==
  ASSUME NEW f, NEW K, FileOk(f, K), NEW N, N = Len(f), NEW y \in Nat, NEW o \in BOOLEAN
  PROVE  /\ f[N] \in Member /\ N \in Nat /\ N >= 1 /\ DOMAIN f = 1 .. N
         /\ y <= Len(f[N].bytes) + 1 => Fits(f, K, [bytes |-> f[N].bytes, synced |-> y, ended |-> o])
         /\ \A n \in 0 .. Len(f[N].bytes) : y <= n + 1 => Fits(f, K, [bytes |-> SubSeq(f[N].bytes, 1, n), synced |-> y, ended |-> o])
         /\ \A m \in 1 .. MaxMessages : \A J : K \subseteq J /\ m \in J /\ y <= Len(f[N].bytes) + 1 /\ Whole(f[N].bytes) /\ (\A x \in K : x < m) =>
              /\ Fits(f, J, [bytes |-> f[N].bytes \o Bytes(m), synced |-> y, ended |-> o])
              /\ Whole(f[N].bytes \o Bytes(m)) /\ Has(f[N].bytes \o Bytes(m), m)
<1>1. f \in Seq(Member) /\ N \in Nat /\ N >= 1 /\ DOMAIN f = 1 .. N /\ N \in DOMAIN f
  BY DEF FileOk
<1>2. PICK b : b = f[N].bytes
  OBVIOUS
<1>3. f[N] \in Member
  BY <1>1, SeqElement
<1>4. b \in Seq(Byte) /\ Len(b) \in Nat /\ DOMAIN b = 1 .. Len(b)
  BY <1>2, <1>3 DEF Member
<1>5. Framed(b) /\ Within(b, K)
  BY <1>1, <1>2 DEF FileOk
<1>6. ASSUME NEW g \in DOMAIN f, g < N PROVE Before(f[g].bytes, b) /\ Within(f[g].bytes, K)
  BY <1>1, <1>2, <1>6 DEF FileOk
<1>7. ASSUME y <= Len(b) + 1 PROVE Fits(f, K, [bytes |-> b, synced |-> y, ended |-> o])
  BY <1>4, <1>5, <1>6, <1>7 DEF Fits, Member
<1>8. ASSUME NEW n \in 0 .. Len(b), y <= n + 1
      PROVE  Fits(f, K, [bytes |-> SubSeq(b, 1, n), synced |-> y, ended |-> o])
  <2>1. PICK c : c = SubSeq(b, 1, n)
    OBVIOUS
  <2>2. Framed(c) /\ Len(c) = n /\ DOMAIN c = 1 .. n /\ \A k \in 1 .. n : c[k] = b[k] /\ k \in DOMAIN b
    BY <1>5, <2>1, FramesCut
  <2>3. Within(c, K)
    BY <1>5, <2>2 DEF Within
  <2>4. ASSUME NEW g \in DOMAIN f, g < N PROVE Before(f[g].bytes, c)
    BY <1>6, <2>2, <2>4 DEF Before
  <2>5. c \in Seq(Byte)
    BY <2>2 DEF Framed
  <2> QED BY <1>8, <2>1, <2>2, <2>3, <2>4, <2>5 DEF Fits, Member
<1>9. ASSUME NEW m \in 1 .. MaxMessages, NEW J, K \subseteq J, m \in J, y <= Len(b) + 1, Whole(b), \A x \in K : x < m
      PROVE  Fits(f, J, [bytes |-> b \o Bytes(m), synced |-> y, ended |-> o]) /\ Whole(b \o Bytes(m)) /\ Has(b \o Bytes(m), m)
  <2>1. PICK c, d : c = Bytes(m) /\ d = b \o c
    OBVIOUS
  <2>2. Framed(c) /\ Whole(c) /\ Has(c, m) /\ \A k \in DOMAIN c : c[k][1] = m
    BY <2>1, BytesFramed
  <2>3. Before(b, c)
    BY <1>5, <1>9, <2>2 DEF Before, Within
  <2>4. Framed(d) /\ Whole(d)
    BY <1>5, <1>9, <2>1, <2>2, <2>3, FramesJoin
  <2>5. c \in Seq(Byte) /\ d \in Seq(Byte) /\ Len(c) \in Nat /\ Len(d) = Len(b) + Len(c)
    BY <1>4, <2>1, <2>2 DEF Framed
  <2>6. \A x : Holds(d, x) <=> Holds(b, x) \/ Holds(c, x)
    BY <1>4, <2>1, <2>5, HoldsJoined
  <2>7. Has(d, m)
    BY <2>2, <2>6 DEF Has, Holds
  <2>8. ASSUME NEW k \in DOMAIN d PROVE Holds(b, d[k]) \/ d[k][1] = m
    <3>1. Holds(d, d[k])
      BY DEF Holds
    <3>2. Holds(b, d[k]) \/ Holds(c, d[k])
      BY <2>6, <3>1
    <3> QED BY <2>2, <3>2 DEF Holds
  <2>9. Within(d, J)
    BY <1>5, <1>9, <2>8 DEF Within, Holds
  <2>10. ASSUME NEW g \in DOMAIN f, g < N PROVE Before(f[g].bytes, d)
    <3> SUFFICES ASSUME NEW l \in DOMAIN f[g].bytes, NEW k \in DOMAIN d PROVE f[g].bytes[l][1] < d[k][1]
      BY DEF Before
    <3>1. CASE Holds(b, d[k])
      BY <1>6, <2>10, <3>1 DEF Before, Holds
    <3>2. CASE d[k][1] = m
      BY <1>6, <1>9, <2>10, <3>2 DEF Within
    <3> QED BY <2>8, <3>1, <3>2
  <2>11. y <= Len(d) + 1
    BY <1>4, <1>9, <2>5
  <2>12. Fits(f, J, [bytes |-> d, synced |-> y, ended |-> o])
    BY <2>4, <2>5, <2>9, <2>10, <2>11 DEF Fits, Member
  <2> QED BY <2>1, <2>4, <2>7, <2>12
<1> QED BY <1>1, <1>2, <1>3, <1>5, <1>7, <1>8, <1>9

-----------------------------------------------------------------------------
(* Recorder: every step keeps the invariant *)

LEMMA LastMember ==
  ASSUME InFile
  PROVE  \E N \in Nat : /\ N = Len(gz) /\ N >= 1 /\ DOMAIN gz = 1 .. N /\ gz \in Seq(Member) /\ gz[N] \in Member
                        /\ gz[N].bytes \in Seq(Byte) /\ gz[N].synced \in Nat /\ gz[N].ended \in BOOLEAN
                        /\ gz[N].synced <= Len(gz[N].bytes) + 1 /\ Len(gz[N].bytes) \in Nat
                        /\ gz[N] = [bytes |-> gz[N].bytes, synced |-> gz[N].synced, ended |-> gz[N].ended]
<1>1. PICK N \in Nat : N = Len(gz) /\ N >= 1 /\ DOMAIN gz = 1 .. N /\ gz \in Seq(Member) /\ N \in DOMAIN gz
  BY DEF InFile, FileOk
<1>2. gz[N] \in Member
  BY <1>1, SeqElement
<1>3. /\ gz[N].bytes \in Seq(Byte) /\ gz[N].synced \in Nat /\ gz[N].ended \in BOOLEAN
      /\ gz[N] = [bytes |-> gz[N].bytes, synced |-> gz[N].synced, ended |-> gz[N].ended]
  BY <1>2 DEF Member
<1>4. gz[N].synced <= Len(gz[N].bytes) + 1
  BY <1>1 DEF InFile, FileOk
<1>5. Len(gz[N].bytes) \in Nat
  BY <1>3
<1> QED BY <1>1, <1>2, <1>3, <1>4, <1>5

LEMMA MemberEdit ==
  ASSUME NEW r \in Member, NEW x
  PROVE  /\ [r EXCEPT !.bytes = x] = [bytes |-> x, synced |-> r.synced, ended |-> r.ended]
         /\ [r EXCEPT !.synced = x] = [bytes |-> r.bytes, synced |-> x, ended |-> r.ended]
         /\ [r EXCEPT !.ended = x] = [bytes |-> r.bytes, synced |-> r.synced, ended |-> x]
  BY DEF Member

\* The last member of a file replaced.
LEMMA LastReplaced ==
  ASSUME NEW f \in Seq(Member), NEW N, N = Len(f), N >= 1, NEW r \in Member, NEW h, h = [f EXCEPT ![N] = r]
  PROVE  DOMAIN h = 1 .. N /\ Len(h) = N /\ h[N] = r /\ h \in Seq(Member) /\ \A g \in 1 .. N : g # N => h[g] = f[g]
  OBVIOUS

\* Nothing was read yet.
LEMMA NothingRead ==
  ASSUME NEW F, F \in Seq(Byte), buf_ = <<>>, pos_ = 0, at = 0, eof_ = FALSE, replayed = <<>>
  PROVE  Buffered(F) /\ Done(F, at - Len(buf_) + pos_, replayed) /\ Stops(F)
<1>1. Len(F) \in Nat /\ <<>> \in Seq(Byte) /\ <<>> \in Seq(1 .. MaxMessages) /\ Len(<<>>) = 0 /\ DOMAIN <<>> = {}
  OBVIOUS
<1>2. Buffered(F)
  <2>1. /\ at \in 0 .. Len(F) /\ buf_ \in Seq(Byte) /\ Len(buf_) <= at /\ Len(buf_) <= BufSize /\ pos_ \in 0 .. Len(buf_)
        /\ \A k \in DOMAIN buf_ : buf_[k] = F[at - Len(buf_) + k]
    BY <1>1, RecorderAssumption
  <2> QED BY <2>1 DEF Buffered
<1>3. at - Len(buf_) + pos_ = 0 /\ \A k \in 1 .. 0 : FALSE
  <2>1. Len(buf_) = 0
    BY <1>1
  <2>2. 0 - 0 + 0 = 0 /\ \A k \in 1 .. 0 : FALSE
    OBVIOUS
  <2> QED BY <2>1, <2>2, Zenon
<1>4. Done(F, 0, replayed)
  <2>1. replayed \in Seq(1 .. MaxMessages)
    BY <1>1
  <2>2. \A x : x \notin DOMAIN replayed /\ x \notin 1 .. 0
    BY <1>1, <1>3
  <2> QED BY <2>1, <2>2, Zenon DEF Done
<1>5. Stops(F)
  BY DEF Stops
<1> QED BY <1>2, <1>3, <1>4, <1>5

LEMMA PushKeeps == RecorderIInv /\ push => RecorderIInv'
<1> SUFFICES ASSUME RecorderIInv, push PROVE RecorderIInv'
  OBVIOUS
<1>0. InRing /\ InFile /\ NothingLost /\ Phases /\ Reading
  BY DEF RecorderIInv
<1>1. /\ mode = "record" /\ running_ /\ given < MaxMessages /\ given' = given + 1
      /\ gz' = gz /\ running_' = running_ /\ recPc' = recPc /\ crashes' = crashes /\ mode' = mode
      /\ buf_' = buf_ /\ pos_' = pos_ /\ at' = at /\ eof_' = eof_ /\ replayed' = replayed
  BY DEF push, readVars
<1>2. PICK n, v, R : /\ n \in Nat /\ v \in Nat /\ n = given /\ v = n + 1 /\ v = given' /\ R = ring /\ R \in Seq(Nat)
                     /\ MaxMessages \in Nat /\ v <= MaxMessages
  BY <1>0, <1>1, RecorderAssumption DEF InRing
<1>3. /\ Len(R) \in Nat /\ DOMAIN R = 1 .. Len(R)
      /\ Append(R, v) \in Seq(Nat) /\ DOMAIN Append(R, v) = 1 .. Len(R) + 1
      /\ (\A i \in 1 .. Len(R) : Append(R, v)[i] = R[i]) /\ Append(R, v)[Len(R) + 1] = v
  BY <1>2
<1>4. \A i \in DOMAIN R : R[i] \in 1 .. n /\ R[i] \notin dropped
  BY <1>0, <1>2 DEF InRing
<1>5. \A i, j \in DOMAIN R : i < j => R[i] < R[j]
  BY <1>0, <1>2 DEF InRing
<1>6. \A m : m \in 1 .. v <=> m \in 1 .. n \/ m = v
  BY <1>2
<1>7. v \notin 1 .. n /\ \A m \in 1 .. n : m < v
  BY <1>2
<1>8. crashes = 0 => /\ \A g \in DOMAIN gz : g < Len(gz) => gz[g].ended
                     /\ \A m \in 1 .. n : m \in dropped \/ (\E i \in DOMAIN R : R[i] = m) \/ \E g \in DOMAIN gz : Has(gz[g].bytes, m)
  BY <1>0, <1>2 DEF NothingLost
<1>9. Phases' /\ Reading'
  <2>1. recPc # "ended" /\ recPc # "last"
    BY <1>0, <1>1 DEF Phases
  <2> QED BY <1>0, <1>1, <2>1 DEF Phases, Reading
<1>10. v \notin dropped /\ dropped \subseteq 1 .. n
  BY <1>0, <1>2, <1>7 DEF InRing
<1>11. CASE ring' = Append(ring, given') /\ dropped' = dropped
  <2>1. ring' = Append(R, v) /\ dropped' = dropped
    BY <1>2, <1>11
  <2>2. PICK Q : Q = ring' /\ Q \in Seq(Nat) /\ DOMAIN Q = 1 .. Len(R) + 1 /\ (\A i \in DOMAIN R : Q[i] = R[i]) /\ Q[Len(R) + 1] = v
    BY <1>3, <2>1
  <2>3. \A i : i \in DOMAIN Q <=> i \in DOMAIN R \/ i = Len(R) + 1
    BY <1>3, <2>2
  <2>4. InRing'
    <3>1. ASSUME NEW i \in DOMAIN Q PROVE Q[i] \in 1 .. v /\ Q[i] \notin dropped
      BY <1>2, <1>4, <1>6, <1>10, <2>2, <2>3
    <3>2. ASSUME NEW i \in DOMAIN Q, NEW j \in DOMAIN Q, i < j PROVE Q[i] < Q[j]
      <4>1. i \in DOMAIN R
        BY <1>3, <2>2, <3>2
      <4>2. CASE j \in DOMAIN R
        BY <1>5, <2>2, <3>2, <4>1, <4>2
      <4>3. CASE j = Len(R) + 1
        BY <1>4, <1>7, <2>2, <4>1, <4>3
      <4> QED BY <2>3, <4>2, <4>3
    <3>3. dropped' \subseteq 1 .. v
      BY <1>6, <1>10, <2>1
    <3> QED BY <1>2, <2>1, <2>2, <3>1, <3>2, <3>3 DEF InRing
  <2>5. Past \subseteq Past'
    <3> SUFFICES ASSUME NEW m \in Past PROVE m \in Past'
      OBVIOUS
    <3>1. m \in 1 .. n /\ m \notin dropped /\ \A i \in DOMAIN R : m < R[i]
      BY <1>2 DEF Past
    <3>2. \A i \in DOMAIN Q : m < Q[i]
      BY <1>7, <2>2, <2>3, <3>1
    <3> QED BY <1>2, <1>6, <2>1, <2>2, <3>1, <3>2 DEF Past
  <2>6. InFile'
    BY <1>0, <1>1, <2>5, FileMore DEF InFile
  <2>7. NothingLost'
    <3>1. ASSUME crashes = 0, NEW m \in 1 .. v
          PROVE  m \in dropped \/ (\E i \in DOMAIN Q : Q[i] = m) \/ \E g \in DOMAIN gz : Has(gz[g].bytes, m)
      BY <1>6, <1>8, <2>2, <2>3, <3>1
    <3> QED BY <1>0, <1>1, <1>2, <1>8, <2>1, <2>2, <3>1 DEF NothingLost
  <2> QED BY <1>9, <2>4, <2>6, <2>7 DEF RecorderIInv
<1>12. CASE dropped' = dropped \union {given'} /\ ring' = ring
  <2>1. dropped' = dropped \cup {v} /\ ring' = R
    BY <1>2, <1>12
  <2>2. InRing'
    <3>1. \A i \in DOMAIN R : R[i] \in 1 .. v /\ R[i] \notin dropped'
      BY <1>4, <1>6, <1>7, <2>1
    <3>2. dropped' \subseteq 1 .. v
      BY <1>6, <1>10, <2>1
    <3> QED BY <1>2, <1>5, <2>1, <3>1, <3>2 DEF InRing
  <2>3. Past \subseteq Past'
    <3> SUFFICES ASSUME NEW m \in Past PROVE m \in Past'
      OBVIOUS
    <3>1. m \in 1 .. n /\ m \notin dropped /\ \A i \in DOMAIN R : m < R[i]
      BY <1>2 DEF Past
    <3> QED BY <1>2, <1>6, <1>7, <2>1, <3>1 DEF Past
  <2>4. InFile'
    BY <1>0, <1>1, <2>3, FileMore DEF InFile
  <2>5. NothingLost'
    <3>1. ASSUME crashes = 0, NEW m \in 1 .. v
          PROVE  m \in dropped' \/ (\E i \in DOMAIN R : R[i] = m) \/ \E g \in DOMAIN gz : Has(gz[g].bytes, m)
      BY <1>6, <1>8, <2>1, <3>1
    <3> QED BY <1>0, <1>1, <1>2, <1>8, <2>1, <3>1 DEF NothingLost
  <2> QED BY <1>9, <2>2, <2>4, <2>5 DEF RecorderIInv
<1> QED BY <1>11, <1>12 DEF push

LEMMA WriteKeeps == RecorderIInv /\ WriteOne => RecorderIInv'
<1> SUFFICES ASSUME RecorderIInv, WriteOne PROVE RecorderIInv'
  OBVIOUS
<1>0. InRing /\ InFile /\ NothingLost /\ Phases /\ Reading
  BY DEF RecorderIInv
<1>1. /\ mode = "record" /\ ring # <<>> /\ ring' = Tail(ring)
      /\ gz' = [gz EXCEPT ![Len(gz)].bytes = @ \o Bytes(Head(ring))]
      /\ given' = given /\ dropped' = dropped /\ running_' = running_ /\ recPc' = recPc /\ crashes' = crashes /\ mode' = mode
      /\ buf_' = buf_ /\ pos_' = pos_ /\ at' = at /\ eof_' = eof_ /\ replayed' = replayed
      /\ recPc \in {"loop", "last"}
  BY DEF WriteOne, readVars
<1>2. PICK R : R = ring /\ R \in Seq(Nat) /\ R # <<>>
  BY <1>0, <1>1 DEF InRing
<1>3. PICK Q : /\ Q = ring' /\ Q \in Seq(Nat) /\ Len(R) \in Nat /\ Len(R) >= 1 /\ DOMAIN R = 1 .. Len(R) /\ DOMAIN Q = 1 .. Len(R) - 1
               /\ (\A i \in 1 .. Len(R) - 1 : Q[i] = R[i + 1]) /\ Head(R) = R[1]
  BY <1>1, <1>2
<1>4. PICK m : /\ m = R[1] /\ m \in 1 .. MaxMessages /\ m \in 1 .. given /\ m \notin dropped /\ 1 \in DOMAIN R
               /\ \A i \in DOMAIN R : i > 1 => m < R[i]
  <2>1. 1 \in DOMAIN R
    BY <1>3
  <2>2. R[1] \in 1 .. given /\ R[1] \notin dropped /\ \A i \in DOMAIN R : 1 < i => R[1] < R[i]
    BY <1>0, <1>2, <2>1 DEF InRing
  <2>3. R[1] \in 1 .. MaxMessages
    BY <1>0, <2>2, RecorderAssumption DEF InRing
  <2>4. \A i \in DOMAIN R : i > 1 => R[1] < R[i]
    BY <1>3, <2>2
  <2> QED BY <2>1, <2>2, <2>3, <2>4
<1>5. \A i \in DOMAIN Q : i + 1 \in DOMAIN R /\ i + 1 > 1 /\ Q[i] = R[i + 1]
  BY <1>3
<1>6. InRing'
  <2>1. /\ given \in Nat /\ given <= MaxMessages /\ dropped \subseteq 1 .. given
        /\ \A i \in DOMAIN R : R[i] \in 1 .. given /\ R[i] \notin dropped
        /\ \A i, j \in DOMAIN R : i < j => R[i] < R[j]
    BY <1>0, <1>2 DEF InRing
  <2>2. \A i \in DOMAIN Q : Q[i] \in 1 .. given /\ Q[i] \notin dropped
    BY <1>5, <2>1
  <2>3. ASSUME NEW i \in DOMAIN Q, NEW j \in DOMAIN Q, i < j PROVE Q[i] < Q[j]
    <3>1. i + 1 < j + 1
      BY <1>3, <2>3
    <3> QED BY <1>5, <2>1, <3>1
  <2> QED BY <1>1, <1>3, <2>1, <2>2, <2>3 DEF InRing
<1>7. PICK K, J : K = Past /\ J = Past'
  OBVIOUS
<1>8. K \subseteq J /\ m \in J /\ \A x \in K : x < m
  <2>1. ASSUME NEW x \in K PROVE x \in J /\ x < m
    <3>1. x \in 1 .. given /\ x \notin dropped /\ \A i \in DOMAIN R : x < R[i]
      BY <1>2, <1>7 DEF Past
    <3>2. \A i \in DOMAIN Q : x < Q[i]
      BY <1>5, <3>1
    <3> QED BY <1>1, <1>3, <1>4, <1>7, <3>1, <3>2 DEF Past
  <2>2. m \in J
    BY <1>1, <1>3, <1>4, <1>5, <1>7 DEF Past
  <2> QED BY <2>1, <2>2
<1>9. PICK N \in Nat : /\ N = Len(gz) /\ N >= 1 /\ DOMAIN gz = 1 .. N /\ gz \in Seq(Member) /\ gz[N] \in Member
                       /\ gz[N].bytes \in Seq(Byte) /\ gz[N].synced \in Nat /\ gz[N].ended \in BOOLEAN
                       /\ gz[N].synced <= Len(gz[N].bytes) + 1
                       /\ gz[N] = [bytes |-> gz[N].bytes, synced |-> gz[N].synced, ended |-> gz[N].ended]
  BY <1>0, LastMember
<1>10. PICK f, y, o, b, c, r : /\ f = gz /\ y = gz[N].synced /\ o = gz[N].ended /\ b = gz[N].bytes /\ c = b \o Bytes(m)
                               /\ r = [bytes |-> c, synced |-> y, ended |-> o]
  OBVIOUS
<1>11. FileOk(f, K) /\ N = Len(f) /\ y \in Nat /\ o \in BOOLEAN /\ y <= Len(f[N].bytes) + 1 /\ Whole(f[N].bytes)
  BY <1>0, <1>1, <1>7, <1>9, <1>10 DEF InFile, Phases
<1>12. Fits(f, J, r) /\ Whole(c) /\ Has(c, m)
  <2>1. \A mm \in 1 .. MaxMessages : \A JJ : K \subseteq JJ /\ mm \in JJ /\ y <= Len(f[N].bytes) + 1 /\ Whole(f[N].bytes) /\ (\A x \in K : x < mm) =>
              /\ Fits(f, JJ, [bytes |-> f[N].bytes \o Bytes(mm), synced |-> y, ended |-> o])
              /\ Whole(f[N].bytes \o Bytes(mm)) /\ Has(f[N].bytes \o Bytes(mm), mm)
    BY <1>11, LastFits
  <2>2. m \in 1 .. MaxMessages
    BY <1>4
  <2>3. /\ Fits(f, J, [bytes |-> f[N].bytes \o Bytes(m), synced |-> y, ended |-> o])
        /\ Whole(f[N].bytes \o Bytes(m)) /\ Has(f[N].bytes \o Bytes(m), m)
    BY <1>8, <1>11, <2>1, <2>2
  <2> QED BY <1>10, <2>3
<1>13. gz' = [f EXCEPT ![Len(f)] = r]
  <2>1. [gz[N] EXCEPT !.bytes = gz[N].bytes \o Bytes(m)] = r
    <3>1. \A x : [gz[N] EXCEPT !.bytes = x] = [bytes |-> x, synced |-> gz[N].synced, ended |-> gz[N].ended]
      BY <1>9, MemberEdit
    <3> QED BY <1>10, <3>1, Zenon
  <2>2. gz' = [gz EXCEPT ![N] = [gz[N] EXCEPT !.bytes = gz[N].bytes \o Bytes(m)]]
    <3>1. Head(ring) = m
      BY <1>2, <1>3, <1>4
    <3> QED BY <1>1, <1>9, <3>1, Zenon
  <2> QED BY <1>9, <1>10, <2>1, <2>2
<1>14. PICK h : h = gz' /\ h = [f EXCEPT ![Len(f)] = r]
  BY <1>13
<1>15. FileOk(h, J)
  <2>1. FileOk(f, J)
    BY <1>8, <1>11, FileMore
  <2>2. Left(r)
    BY <1>10, <1>12 DEF Left
  <2> QED BY <1>12, <1>14, <2>1, <2>2, FileLast
<1>16. InFile'
  BY <1>7, <1>14, <1>15 DEF InFile
<1>17. DOMAIN h = 1 .. N /\ Len(h) = N /\ h[N] = r /\ \A g \in 1 .. N : g # N => h[g] = gz[g]
  <2>1. f \in Seq(Member) /\ N = Len(f) /\ N >= 1
    BY <1>9, <1>10
  <2>2. r \in Member
    BY <1>12 DEF Fits
  <2>3. h = [f EXCEPT ![N] = r]
    BY <1>14, <2>1
  <2>4. DOMAIN h = 1 .. N /\ Len(h) = N /\ h[N] = r /\ \A g \in 1 .. N : g # N => h[g] = f[g]
    BY <2>1, <2>2, <2>3, LastReplaced
  <2> QED BY <1>10, <2>4
<1>18. NothingLost'
  <2> SUFFICES ASSUME crashes = 0
               PROVE  /\ \A g \in DOMAIN h : g < Len(h) => h[g].ended
                      /\ \A x \in 1 .. given : x \in dropped \/ (\E i \in DOMAIN Q : Q[i] = x) \/ \E g \in DOMAIN h : Has(h[g].bytes, x)
    BY <1>0, <1>1, <1>3, <1>14 DEF NothingLost
  <2>1. /\ \A g \in DOMAIN gz : g < Len(gz) => gz[g].ended
        /\ \A x \in 1 .. given : x \in dropped \/ (\E i \in DOMAIN R : R[i] = x) \/ \E g \in DOMAIN gz : Has(gz[g].bytes, x)
    BY <1>0, <1>2 DEF NothingLost
  <2>2. \A g \in DOMAIN h : g < Len(h) => h[g].ended
    BY <1>9, <1>17, <2>1
  <2>3. ASSUME NEW x, NEW g \in DOMAIN gz, Has(gz[g].bytes, x) PROVE \E k \in DOMAIN h : Has(h[k].bytes, x)
    <3>1. CASE g # N
      BY <1>9, <1>17, <2>3, <3>1
    <3>2. CASE g = N
      <4>1. Bytes(m) \in Seq(Byte)
        BY <1>4, BytesFramed DEF Framed
      <4>2. b \in Seq(Byte)
        BY <1>9, <1>10
      <4>3. \A w : Holds(b \o Bytes(m), w) <=> Holds(b, w) \/ Holds(Bytes(m), w)
        BY <4>1, <4>2, HoldsJoined
      <4>4. Has(c, x)
        BY <1>10, <2>3, <3>2, <4>3 DEF Has, Holds
      <4>5. h[N].bytes = c /\ N \in DOMAIN h
        BY <1>9, <1>10, <1>17
      <4> QED BY <4>4, <4>5
    <3> QED BY <3>1, <3>2
  <2>4. ASSUME NEW i \in DOMAIN R PROVE (\E k \in DOMAIN Q : Q[k] = R[i]) \/ \E k \in DOMAIN h : Has(h[k].bytes, R[i])
    <3>1. CASE i = 1
      <4>1. h[N].bytes = c /\ N \in DOMAIN h
        BY <1>9, <1>10, <1>17
      <4> QED BY <1>4, <1>12, <3>1, <4>1
    <3>2. CASE i # 1
      <4>1. i - 1 \in DOMAIN Q /\ Q[i - 1] = R[i]
        BY <1>3, <3>2
      <4> QED BY <4>1
    <3> QED BY <3>1, <3>2
  <2> QED BY <2>1, <2>2, <2>3, <2>4
<1>19. Phases'
  <2>1. ~ h[N].ended /\ Whole(h[N].bytes)
    BY <1>0, <1>1, <1>9, <1>10, <1>12, <1>17 DEF Phases
  <2> QED BY <1>0, <1>1, <1>14, <1>17, <2>1 DEF Phases
<1>20. Reading'
  BY <1>1 DEF Reading
<1> QED BY <1>6, <1>16, <1>18, <1>19, <1>20 DEF RecorderIInv

LEMMA ReadableFramed == InFile => Framed(Readable)
  BY ReadableIs

LEMMA ReadableFramedNext == (InFile => Framed(Readable))'
  BY ReadableFramed, PTL

\* The recorder's state left as it is.
LEMMA RecordKept ==
  ASSUME InRing, InFile, NothingLost, given' = given, ring' = ring, dropped' = dropped, gz' = gz, crashes' = crashes
  PROVE  InRing' /\ InFile' /\ NothingLost' /\ Readable' = Readable /\ Broken' = Broken
<1>1. InRing' /\ NothingLost'
  BY DEF InRing, NothingLost
<1>2. Past' = Past
  BY DEF Past
<1>3. InFile'
  BY <1>2, Zenon DEF InFile
<1>4. Readable' = Readable
  BY Zenon DEF Readable, Damaged
<1>5. Broken' = Broken
  BY Zenon DEF Broken, Damaged
<1> QED BY <1>1, <1>3, <1>4, <1>5

\* The last member changed but not its bytes.
LEMMA LastEdited ==
  ASSUME RecorderIInv, NEW y \in Nat, NEW o \in BOOLEAN, y <= Len(gz[Len(gz)].bytes) + 1, Whole(gz[Len(gz)].bytes),
         gz' = [gz EXCEPT ![Len(gz)] = [bytes |-> gz[Len(gz)].bytes, synced |-> y, ended |-> o]],
         given' = given, ring' = ring, dropped' = dropped, crashes' = crashes
  PROVE  InRing' /\ InFile' /\ NothingLost' /\ (gz[Len(gz)].ended)' = o /\ Whole(gz[Len(gz)].bytes)'
<1>0. InRing /\ InFile /\ NothingLost
  BY DEF RecorderIInv
<1>1. PICK N \in Nat : N = Len(gz) /\ N >= 1 /\ DOMAIN gz = 1 .. N /\ gz \in Seq(Member)
  BY <1>0, LastMember
<1>2. PICK f, K, b, r, h : /\ f = gz /\ K = Past /\ b = gz[N].bytes /\ r = [bytes |-> b, synced |-> y, ended |-> o]
                           /\ h = gz'
  OBVIOUS
<1>3. FileOk(f, K) /\ N = Len(f) /\ y <= Len(f[N].bytes) + 1 /\ h = [f EXCEPT ![N] = r] /\ r.bytes = b /\ r.ended = o
  BY <1>0, <1>1, <1>2 DEF InFile
<1>4. Whole(r.bytes) /\ Left(r) /\ Fits(f, K, r)
  <2>1. Whole(r.bytes)
    BY <1>1, <1>2, <1>3
  <2> QED BY <1>2, <1>3, <2>1, LastFits DEF Left
<1>5. FileOk(h, K)
  <2>1. h = [f EXCEPT ![Len(f)] = r]
    BY <1>3
  <2> QED BY <1>3, <1>4, <2>1, FileLast
<1>6. DOMAIN h = 1 .. N /\ Len(h) = N /\ h[N] = r /\ \A g \in 1 .. N : g # N => h[g] = f[g]
  <2>1. f \in Seq(Member) /\ r \in Member
    BY <1>1, <1>2, <1>4 DEF Fits
  <2> QED BY <1>1, <1>3, <2>1, LastReplaced
<1>7. InRing'
  BY <1>0 DEF InRing
<1>8. InFile'
  <2>1. Past' = Past
    BY DEF Past
  <2> QED BY <1>2, <1>5, <2>1 DEF InFile
<1>9. \A g \in 1 .. N : h[g].bytes = gz[g].bytes
  BY <1>2, <1>3, <1>6
<1>10. NothingLost'
  <2>1. /\ crashes \in Nat
        /\ crashes = 0 =>
             /\ \A g \in 1 .. N : g < N => gz[g].ended
             /\ \A m \in 1 .. given : m \in dropped \/ (\E i \in DOMAIN ring : ring[i] = m) \/ \E g \in 1 .. N : Has(gz[g].bytes, m)
    BY <1>0, <1>1 DEF NothingLost
  <2>2. ASSUME NEW g \in 1 .. N, g < N PROVE h[g] = gz[g]
    BY <1>2, <1>6, <2>2
  <2>3. crashes = 0 =>
          /\ \A g \in DOMAIN h : g < Len(h) => h[g].ended
          /\ \A m \in 1 .. given : m \in dropped \/ (\E i \in DOMAIN ring : ring[i] = m) \/ \E g \in DOMAIN h : Has(h[g].bytes, m)
    BY <1>6, <1>9, <2>1, <2>2
  <2> QED BY <1>2, <2>1, <2>3 DEF NothingLost
<1>11. (gz[Len(gz)].ended)' = o /\ Whole(gz[Len(gz)].bytes)'
  BY <1>2, <1>3, <1>4, <1>6
<1> QED BY <1>7, <1>8, <1>10, <1>11

LEMMA SyncKeeps == RecorderIInv /\ SyncFlush => RecorderIInv'
<1> SUFFICES ASSUME RecorderIInv, SyncFlush PROVE RecorderIInv'
  OBVIOUS
<1>0. InRing /\ InFile /\ NothingLost /\ Phases /\ Reading
  BY DEF RecorderIInv
<1>1. /\ mode = "record" /\ recPc = "loop"
      /\ gz' = [gz EXCEPT ![Len(gz)].synced = Len(gz[Len(gz)].bytes) + 1]
      /\ given' = given /\ ring' = ring /\ dropped' = dropped /\ running_' = running_ /\ recPc' = recPc /\ crashes' = crashes
      /\ mode' = mode /\ buf_' = buf_ /\ pos_' = pos_ /\ at' = at /\ eof_' = eof_ /\ replayed' = replayed
  BY DEF SyncFlush, readVars, LastOf
<1>2. PICK N \in Nat : /\ N = Len(gz) /\ gz[N] \in Member /\ gz[N].ended \in BOOLEAN /\ Len(gz[N].bytes) \in Nat
  BY <1>0, LastMember
<1>3. PICK y \in Nat, o \in BOOLEAN : y = Len(gz[N].bytes) + 1 /\ o = gz[N].ended
  BY <1>2
<1>4. gz' = [gz EXCEPT ![N] = [bytes |-> gz[N].bytes, synced |-> y, ended |-> o]]
  <2>1. [gz[N] EXCEPT !.synced = y] = [bytes |-> gz[N].bytes, synced |-> y, ended |-> o]
    BY <1>2, <1>3, MemberEdit
  <2>2. gz' = [gz EXCEPT ![N] = [gz[N] EXCEPT !.synced = y]]
    BY <1>1, <1>2, <1>3, Zenon
  <2> QED BY <2>1, <2>2
<1>5. InRing' /\ InFile' /\ NothingLost' /\ (gz[Len(gz)].ended)' = o /\ Whole(gz[Len(gz)].bytes)'
  <2>1. /\ y <= Len(gz[Len(gz)].bytes) + 1 /\ Whole(gz[Len(gz)].bytes)
        /\ gz' = [gz EXCEPT ![Len(gz)] = [bytes |-> gz[Len(gz)].bytes, synced |-> y, ended |-> o]]
    <3>1. y <= Len(gz[N].bytes) + 1
      BY <1>2, <1>3
    <3>2. Whole(gz[Len(gz)].bytes)
      BY <1>0, <1>1 DEF Phases
    <3> QED BY <1>2, <1>4, <3>1, <3>2, Zenon
  <2> QED BY <1>1, <2>1, LastEdited
<1>6. Phases'
  BY <1>0, <1>1, <1>2, <1>3, <1>5 DEF Phases
<1>7. Reading'
  BY <1>1 DEF Reading
<1> QED BY <1>5, <1>6, <1>7 DEF RecorderIInv

LEMMA StopKeeps == RecorderIInv /\ (stop \/ LeaveLoop) => RecorderIInv'
<1> SUFFICES ASSUME RecorderIInv, stop \/ LeaveLoop PROVE RecorderIInv'
  OBVIOUS
<1>0. InRing /\ InFile /\ NothingLost /\ Phases /\ Reading
  BY DEF RecorderIInv
<1>1. /\ mode = "record" /\ gz' = gz
      /\ given' = given /\ ring' = ring /\ dropped' = dropped /\ crashes' = crashes
      /\ mode' = mode /\ buf_' = buf_ /\ pos_' = pos_ /\ at' = at /\ eof_' = eof_ /\ replayed' = replayed
  BY DEF stop, LeaveLoop, readVars
<1>2. InRing' /\ InFile' /\ NothingLost'
  BY <1>0, <1>1, RecordKept
<1>3. Phases'
  <2>1. CASE stop
    <3>1. running_' = FALSE /\ recPc' = recPc
      BY <2>1 DEF stop
    <3> QED BY <1>0, <1>1, <3>1 DEF Phases
  <2>2. CASE LeaveLoop
    <3>1. running_' = running_ /\ \/ recPc = "loop" /\ ~running_ /\ recPc' = "last"
                                  \/ recPc = "last" /\ ring = <<>> /\ recPc' = "ended"
      BY <2>2 DEF LeaveLoop, AfterLoop
    <3> QED BY <1>0, <1>1, <3>1 DEF Phases
  <2> QED BY <2>1, <2>2
<1>4. Reading'
  BY <1>1 DEF Reading
<1> QED BY <1>2, <1>3, <1>4 DEF RecorderIInv

LEMMA ClosedKeeps == RecorderIInv /\ Closed => RecorderIInv'
<1> SUFFICES ASSUME RecorderIInv, Closed PROVE RecorderIInv'
  OBVIOUS
<1>0. InRing /\ InFile /\ NothingLost /\ Phases /\ Reading
  BY DEF RecorderIInv
<1>1. /\ mode = "record" /\ recPc = "ended"
      /\ given' = given /\ ring' = ring /\ dropped' = dropped /\ crashes' = crashes
      /\ buf_' = buf_ /\ pos_' = pos_ /\ at' = at /\ eof_' = eof_ /\ replayed' = replayed
  BY DEF Closed, readVars
<1>2. /\ buf_ = <<>> /\ pos_ = 0 /\ at = 0 /\ eof_ = FALSE /\ replayed = <<>> /\ ring = <<>> /\ ~running_
      /\ Whole(gz[Len(gz)].bytes)
  BY <1>0, <1>1 DEF Phases
<1>3. PICK N \in Nat : /\ N = Len(gz) /\ N >= 1 /\ DOMAIN gz = 1 .. N /\ gz[N] \in Member /\ gz[N].synced \in Nat
                       /\ gz[N].synced <= Len(gz[N].bytes) + 1
  BY <1>0, LastMember
<1>4. PICK y \in Nat, o \in BOOLEAN : y = gz[N].synced /\ o = TRUE
  BY <1>3
<1>5. PICK r : r = [bytes |-> gz[N].bytes, synced |-> y, ended |-> o]
  OBVIOUS
<1>6. Close(gz) = [gz EXCEPT ![N] = r]
  <2>1. [gz[N] EXCEPT !.ended = TRUE] = r
    BY <1>3, <1>4, <1>5, MemberEdit
  <2>2. Close(gz) = [gz EXCEPT ![N] = [gz[N] EXCEPT !.ended = TRUE]]
    BY <1>3, Zenon DEF Close
  <2> QED BY <2>1, <2>2
<1>7. CASE gz' = Close(gz) /\ mode' = "read" /\ running_' = running_ /\ recPc' = recPc
  <2>1. y <= Len(gz[Len(gz)].bytes) + 1 /\ gz' = [gz EXCEPT ![Len(gz)] = [bytes |-> gz[Len(gz)].bytes, synced |-> y, ended |-> o]]
    BY <1>3, <1>4, <1>5, <1>6, <1>7
  <2>2. InRing' /\ InFile' /\ NothingLost' /\ (gz[Len(gz)].ended)' = o
    BY <1>1, <1>2, <2>1, LastEdited
  <2>3. Phases'
    BY <1>1, <1>2, <1>4, <1>7, <2>2 DEF Phases
  <2>4. Reading'
    <3>1. PICK F : F = Readable' /\ F \in Seq(Byte)
      BY <2>2, ReadableFramedNext DEF Framed
    <3>2. Buffered(F) /\ Done(F, at - Len(buf_) + pos_, replayed) /\ Stops(F)
      BY <1>2, <3>1, NothingRead
    <3>3. at' - Len(buf_') + pos_' = at - Len(buf_) + pos_
      BY <1>1
    <3>4. Buffered(F)'
      BY <1>1, <3>2 DEF Buffered
    <3>5. Done(F, at - Len(buf_) + pos_, replayed)'
      BY <1>1, <3>2, Zenon
    <3>6. Stops(F)'
      BY <1>1, <1>2 DEF Stops
    <3> QED BY <1>7, <3>1, <3>4, <3>5, <3>6 DEF Reading, Buffered, Stops
  <2> QED BY <2>2, <2>3, <2>4 DEF RecorderIInv
<1>8. CASE gz' = Append(Close(gz), NewMember) /\ running_' = TRUE /\ recPc' = "loop" /\ mode' = mode
  <2>1. PICK f, K, h : f = gz /\ K = Past /\ h = gz'
    OBVIOUS
  <2>2. FileOk(f, K) /\ N = Len(f) /\ y <= Len(f[N].bytes) + 1 /\ r.bytes = f[N].bytes /\ r.ended = TRUE
    BY <1>0, <1>3, <1>4, <1>5, <2>1 DEF InFile
  <2>3. Whole(r.bytes) /\ Fits(f, K, r)
    <3>1. Whole(r.bytes)
      BY <1>2, <1>3, <1>5
    <3> QED BY <1>5, <2>1, <2>2, <3>1, LastFits
  <2>4. h = Append([f EXCEPT ![Len(f)] = r], NewMember)
    BY <1>6, <1>8, <2>1, <2>2
  <2>5. /\ FileOk(h, K) /\ Len(h) = Len(f) + 1 /\ h[Len(h)] = NewMember /\ h[Len(f)] = r
        /\ DOMAIN h = DOMAIN f \cup {Len(f) + 1} /\ \A g \in DOMAIN f : g < Len(f) => h[g] = f[g]
    <3>1. Left(r) /\ MemberAdded(f, r, h)
      BY <2>3, <2>4 DEF Left, MemberAdded
    <3>2. FileOk(h, K) /\ Longer(f, r, h)
      BY <2>2, <2>3, <3>1, FileNew
    <3> QED BY <3>2 DEF Longer
  <2>6. InRing' /\ Past' = Past
    BY <1>0, <1>1 DEF InRing, Past
  <2>7. InFile'
    BY <2>1, <2>5, <2>6 DEF InFile
  <2>8. NothingLost'
    <3>1. /\ crashes \in Nat
          /\ crashes = 0 =>
               /\ \A g \in 1 .. N : g < N => gz[g].ended
               /\ \A m \in 1 .. given : m \in dropped \/ (\E i \in DOMAIN ring : ring[i] = m) \/ \E g \in 1 .. N : Has(gz[g].bytes, m)
      BY <1>0, <1>3 DEF NothingLost
    <3>2. DOMAIN h = 1 .. N + 1 /\ Len(h) = N + 1 /\ \A g \in 1 .. N : g \in DOMAIN h
      BY <1>3, <2>1, <2>2, <2>5
    <3>3. \A g \in 1 .. N : h[g].bytes = gz[g].bytes
      BY <1>3, <2>1, <2>2, <2>5
    <3>4. ASSUME crashes = 0, NEW g \in 1 .. N + 1, g < N + 1 PROVE h[g].ended
      <4>1. CASE g = N
        BY <2>2, <2>5, <4>1
      <4>2. CASE g # N
        <5>1. g \in 1 .. N /\ g < N
          BY <3>4, <4>2
        <5> QED BY <1>3, <2>1, <2>2, <2>5, <3>1, <3>4, <5>1
      <4> QED BY <4>1, <4>2
    <3>5. ASSUME crashes = 0, NEW m \in 1 .. given
          PROVE  m \in dropped \/ (\E i \in DOMAIN ring : ring[i] = m) \/ \E g \in DOMAIN h : Has(h[g].bytes, m)
      BY <3>1, <3>2, <3>3, <3>5
    <3> QED BY <1>1, <2>1, <3>1, <3>2, <3>4, <3>5 DEF NothingLost
  <2>9. Phases'
    <3>1. ~ h[Len(h)].ended /\ Whole(h[Len(h)].bytes)
      BY <2>5 DEF NewMember, Whole
    <3> QED BY <1>0, <1>1, <1>8, <2>1, <3>1 DEF Phases
  <2>10. Reading'
    BY <1>1, <1>8 DEF Reading
  <2> QED BY <2>6, <2>7, <2>8, <2>9, <2>10 DEF RecorderIInv
<1> QED BY <1>7, <1>8 DEF Closed

\* A member begun anew, with nothing in it.
LEMMA NewFits ==
  ASSUME NEW f, NEW K
  PROVE  Fits(f, K, NewMember) /\ Left(NewMember) /\ Whole(NewMember.bytes) /\ NewMember.ended = FALSE
<1>1. NewMember \in Member /\ NewMember.bytes = <<>> /\ NewMember.synced = 0 /\ NewMember.ended = FALSE
  BY DEF NewMember, Member
<1>2. Len(<<>>) = 0 /\ <<>> \in Seq(Byte) /\ \A k : k \notin DOMAIN <<>>
  OBVIOUS
<1> HIDE DEF NewMember
<1>3. Framed(<<>>)
  BY <1>2, Zenon DEF Framed
<1>4. Within(<<>>, K) /\ Whole(<<>>) /\ \A b : Before(b, <<>>)
  BY <1>2, Zenon DEF Within, Whole, Before
<1>5. NewMember.synced <= Len(NewMember.bytes) + 1
  BY <1>1, <1>2
<1> QED BY <1>1, <1>3, <1>4, <1>5 DEF Fits, Left

LEMMA CrashKeeps == RecorderIInv /\ Crash => RecorderIInv'
<1> SUFFICES ASSUME RecorderIInv, Crash PROVE RecorderIInv'
  OBVIOUS
<1>0. InRing /\ InFile /\ NothingLost /\ Phases /\ Reading
  BY DEF RecorderIInv
<1>1. /\ mode = "record" /\ crashes' = crashes + 1 /\ ring' = <<>> /\ given' = given /\ dropped' = dropped
      /\ buf_' = buf_ /\ pos_' = pos_ /\ at' = at /\ eof_' = eof_ /\ replayed' = replayed
  BY DEF Crash, readVars
<1>2. PICK N \in Nat : /\ N = Len(gz) /\ N >= 1 /\ DOMAIN gz = 1 .. N /\ gz[N] \in Member /\ gz[N].synced \in Nat
                       /\ gz[N].ended \in BOOLEAN /\ Len(gz[N].bytes) \in Nat
  BY <1>0, LastMember
<1>3. PICK z : /\ z \in OnDisk(gz[N])
               /\ \/ /\ gz' = IF NoTrace(gz[N], z) THEN [gz EXCEPT ![N] = NewMember] ELSE Append(Cut(gz, z), NewMember)
                     /\ running_' = TRUE /\ recPc' = "loop" /\ mode' = mode
                  \/ gz' = Cut(gz, z) /\ mode' = "read" /\ running_' = running_ /\ recPc' = recPc
  BY <1>2, Zenon DEF Crash, LastOf
<1>4. PICK y \in Nat, o \in BOOLEAN : y = gz[N].synced /\ o = gz[N].ended /\ o = FALSE
  BY <1>0, <1>1, <1>2 DEF Phases
<1>5. PICK r, f, K, h : /\ r = [bytes |-> SubSeq(gz[N].bytes, 1, z), synced |-> y, ended |-> o]
                        /\ f = gz /\ K = Past /\ h = gz'
  OBVIOUS
<1>6. z \in 0 .. Len(f[N].bytes) /\ y <= z + 1
  BY <1>2, <1>3, <1>4, <1>5 DEF OnDisk
<1>7. FileOk(f, K) /\ N = Len(f) /\ r.ended = FALSE
  BY <1>0, <1>2, <1>4, <1>5 DEF InFile
<1>8. Fits(f, K, r) /\ Left(r)
  BY <1>5, <1>6, <1>7, LastFits DEF Left
<1>9. Cut(gz, z) = [f EXCEPT ![Len(f)] = r]
  <2>1. [gz[N] EXCEPT !.bytes = SubSeq(gz[N].bytes, 1, z)] = r
    <3>1. \A x : [gz[N] EXCEPT !.bytes = x] = [bytes |-> x, synced |-> gz[N].synced, ended |-> gz[N].ended]
      BY <1>2, MemberEdit
    <3> QED BY <1>4, <1>5, <3>1, Zenon
  <2>2. Cut(gz, z) = [gz EXCEPT ![N] = [gz[N] EXCEPT !.bytes = SubSeq(gz[N].bytes, 1, z)]]
    BY <1>2, Zenon DEF Cut
  <2> QED BY <1>5, <1>7, <2>1, <2>2
<1>10. InRing' /\ Past \subseteq Past' /\ NothingLost'
  <2>1. <<>> \in Seq(Nat) /\ \A i : i \notin DOMAIN <<>>
    OBVIOUS
  <2>2. InRing'
    BY <1>0, <1>1, <2>1 DEF InRing
  <2>3. Past \subseteq Past'
    BY <1>1, <2>1 DEF Past
  <2>4. NothingLost'
    BY <1>0, <1>1 DEF NothingLost
  <2> QED BY <2>2, <2>3, <2>4
<1>11. FileOk(h, K) => InFile'
  BY <1>5, <1>10, FileMore DEF InFile
<1>12. CASE mode' = "record" /\ running_' = TRUE /\ recPc' = "loop" /\ FileOk(h, K) /\ h[Len(h)] = NewMember
  <2>1. ~ h[Len(h)].ended /\ Whole(h[Len(h)].bytes)
    BY <1>12, NewFits
  <2>2. Phases'
    BY <1>0, <1>1, <1>5, <1>12, <2>1 DEF Phases
  <2>3. Reading'
    BY <1>12 DEF Reading
  <2> QED BY <1>10, <1>11, <1>12, <2>2, <2>3 DEF RecorderIInv
<1>13. CASE gz' = Cut(gz, z) /\ mode' = "read" /\ running_' = running_ /\ recPc' = recPc
  <2>1. h = [f EXCEPT ![Len(f)] = r]
    BY <1>5, <1>9, <1>13
  <2>2. InFile'
    <3>1. FileOk(h, K)
      BY <1>7, <1>8, <2>1, FileLast
    <3> QED BY <1>11, <3>1
  <2>3. Phases'
    <3>1. crashes' # 0
      BY <1>0, <1>1 DEF NothingLost
    <3> QED BY <1>0, <1>1, <1>13, <3>1 DEF Phases
  <2>4. Reading'
    <3>1. PICK F : F = Readable' /\ F \in Seq(Byte)
      BY <2>2, ReadableFramedNext DEF Framed
    <3>2. buf_ = <<>> /\ pos_ = 0 /\ at = 0 /\ eof_ = FALSE /\ replayed = <<>>
      BY <1>0, <1>1 DEF Phases
    <3>3. Buffered(F) /\ Done(F, at - Len(buf_) + pos_, replayed)
      BY <3>1, <3>2, NothingRead
    <3>4. Buffered(F)'
      BY <1>1, <3>3 DEF Buffered
    <3>5. Done(F, at - Len(buf_) + pos_, replayed)'
      BY <1>1, <3>3, Zenon
    <3>6. Stops(F)'
      BY <1>1, <3>2 DEF Stops
    <3> QED BY <1>13, <3>1, <3>4, <3>5, <3>6 DEF Reading, Buffered, Stops
  <2> QED BY <1>10, <2>2, <2>3, <2>4 DEF RecorderIInv
<1>14. CASE gz' = [gz EXCEPT ![N] = NewMember] /\ running_' = TRUE /\ recPc' = "loop" /\ mode' = mode
  <2>1. h = [f EXCEPT ![Len(f)] = NewMember]
    BY <1>5, <1>7, <1>14
  <2>2. FileOk(h, K)
    BY <1>7, <2>1, NewFits, FileLast
  <2>3. h[Len(h)] = NewMember
    <3>1. f \in Seq(Member) /\ NewMember \in Member /\ N >= 1
      BY <1>2, <1>7, NewFits DEF FileOk, Fits
    <3>2. h = [f EXCEPT ![N] = NewMember]
      BY <1>7, <2>1
    <3>3. Len(h) = N /\ h[N] = NewMember
      BY <1>7, <3>1, <3>2, LastReplaced
    <3> QED BY <3>3
  <2> QED BY <1>1, <1>12, <1>14, <2>2, <2>3
<1>15. CASE gz' = Append(Cut(gz, z), NewMember) /\ running_' = TRUE /\ recPc' = "loop" /\ mode' = mode
  <2>1. MemberAdded(f, r, h)
    BY <1>5, <1>9, <1>15 DEF MemberAdded
  <2>2. FileOk(h, K) /\ Longer(f, r, h)
    BY <1>7, <1>8, <2>1, FileNew
  <2>3. h[Len(h)] = NewMember
    BY <2>2 DEF Longer
  <2> QED BY <1>1, <1>12, <1>15, <2>2, <2>3
<1> QED BY <1>3, <1>13, <1>14, <1>15

\* The bytes of F from p to a.
PieceOf(q, F, p, a) ==
  q \in Seq(Byte) /\ Len(q) = a - p /\ DOMAIN q = 1 .. a - p /\ \A k \in 1 .. a - p : q[k] = F[p + k]

LEMMA JoinIs ==
  ASSUME NEW S, NEW q, q \in Seq(S), NEW s, s \in Seq(S), NEW u, u = q \o s, NEW x, x = Len(q), NEW y, y = Len(s)
  PROVE  /\ u \in Seq(S) /\ Len(u) = x + y /\ DOMAIN u = 1 .. x + y
         /\ \A k \in 1 .. x + y : u[k] = IF k <= x THEN q[k] ELSE s[k - x]
  OBVIOUS

LEMMA PieceJoined ==
  ASSUME NEW F, F \in Seq(Byte), NEW a \in Nat, NEW n \in Nat, a + n <= Len(F), NEW p \in Nat, p <= a,
         NEW q, PieceOf(q, F, p, a)
  PROVE  PieceOf(q \o SubSeq(F, a + 1, a + n), F, p, a + n)
<1>0. PICK L \in Nat : L = Len(F) /\ a + n <= L /\ DOMAIN F = 1 .. L
  OBVIOUS
<1>1. PICK s : s = SubSeq(F, a + 1, a + n)
  OBVIOUS
<1>2. Len(s) = n /\ DOMAIN s = 1 .. n /\ s \in Seq(Byte) /\ \A k \in 1 .. n : s[k] = F[a + k]
  <2>1. a + 1 \in Nat /\ a + n \in Nat /\ (a + n) - (a + 1) + 1 = n
    BY <1>0
  <2>2. PICK v \in Nat, w \in Nat : v = a + 1 /\ w = a + n /\ w - v + 1 = n /\ v >= 1 /\ w <= L
    BY <1>0, <2>1
  <2>3. s = SubSeq(F, v, w)
    BY <1>1, <2>2
  <2>4. Len(s) = n /\ DOMAIN s = 1 .. n /\ s \in Seq(Byte) /\ \A k \in 1 .. n : s[k] = F[v + k - 1]
    BY <1>0, <2>2, <2>3
  <2>5. \A k \in 1 .. n : v + k - 1 = a + k
    BY <2>2
  <2> QED BY <2>4, <2>5
<1>3. PICK d \in Nat : d = a - p /\ (a + n) - p = d + n
  OBVIOUS
<1>4. q \in Seq(Byte) /\ Len(q) = d /\ DOMAIN q = 1 .. d /\ \A k \in 1 .. d : q[k] = F[p + k]
  BY <1>3 DEF PieceOf
<1>5. PICK u : u = q \o s
  OBVIOUS
<1>6. /\ u \in Seq(Byte) /\ Len(u) = d + n /\ DOMAIN u = 1 .. d + n
      /\ \A k \in 1 .. d + n : u[k] = IF k <= d THEN q[k] ELSE s[k - d]
  <2>1. q \in Seq(Byte) /\ d = Len(q)
    BY <1>4
  <2>2. s \in Seq(Byte) /\ n = Len(s)
    BY <1>2
  <2> QED BY <1>5, <2>1, <2>2, JoinIs
<1>7. ASSUME NEW k \in 1 .. d + n PROVE u[k] = F[p + k]
  <2>1. CASE k <= d
    <3>1. k \in 1 .. d
      BY <2>1
    <3> QED BY <1>4, <1>6, <2>1, <3>1
  <2>2. CASE ~(k <= d)
    <3>1. k - d \in 1 .. n /\ a + (k - d) = p + k
      BY <1>3, <2>2
    <3> QED BY <1>2, <1>6, <2>2, <3>1
  <2> QED BY <2>1, <2>2
<1>8. PieceOf(u, F, p, a + n)
  BY <1>3, <1>6, <1>7 DEF PieceOf
<1> QED BY <1>1, <1>5, <1>8

LEMMA RefillKeeps == RecorderIInv /\ refill => RecorderIInv'
<1> SUFFICES ASSUME RecorderIInv, refill PROVE RecorderIInv'
  OBVIOUS
<1>0. InRing /\ InFile /\ NothingLost /\ Phases /\ Reading
  BY DEF RecorderIInv
<1>1. /\ mode = "read" /\ mode' = mode /\ pos_' = 0 /\ replayed' = replayed
      /\ given' = given /\ ring' = ring /\ dropped' = dropped /\ gz' = gz /\ running_' = running_ /\ recPc' = recPc
      /\ crashes' = crashes
  BY DEF refill, recVars
<1>2. InRing' /\ InFile' /\ NothingLost' /\ Readable' = Readable /\ Broken' = Broken
  BY <1>0, <1>1, RecordKept
<1>3. PICK F : F = Readable /\ F = Readable' /\ F \in Seq(Byte)
  BY <1>0, <1>2, ReadableFramed DEF Framed
<1>4. Buffered(F) /\ Done(F, at - Len(buf_) + pos_, replayed)
  BY <1>0, <1>1, <1>3 DEF Reading
<1>5. PICK p \in Nat : /\ p = at - Len(buf_) + pos_ /\ p <= at /\ at <= Len(F) /\ at \in Nat
                       /\ Rest \in Seq(Byte) /\ Len(Rest) = at - p /\ DOMAIN Rest = 1 .. at - p
                       /\ \A k \in 1 .. at - p : Rest[k] = F[p + k]
  BY <1>3, <1>4, RestIs
<1>6. PICK L, q, room, n, a : /\ L = Len(F) /\ q = Rest /\ room = BufSize - Len(Rest) /\ a = at /\ n \in 0 .. L - a
                              /\ buf_' = q \o SubSeq(F, a + 1, a + n) /\ at' = a + n
                              /\ \/ n = Min({room, L - a}) /\ (Broken => n = room) /\ eof_' = (n < room)
                                 \/ Broken /\ L - a < room + Ahead /\ n <= room /\ eof_' = TRUE
  BY <1>3 DEF refill
<1>7. L \in Nat /\ a \in Nat /\ a <= L /\ p <= a /\ room \in Nat /\ room <= BufSize
  <2>1. Len(buf_) \in Nat /\ Len(buf_) <= BufSize /\ pos_ \in Nat
    BY <1>4 DEF Buffered
  <2>2. Len(Rest) = Len(buf_) - pos_ /\ Len(Rest) \in Nat
    BY <1>5, <2>1
  <2> QED BY <1>3, <1>5, <1>6, <2>1, <2>2, RecorderAssumption
<1>70. n = Min({room, L - a}) => n <= room /\ (n < room => n = L - a)
  <2>1. L - a \in Nat
    BY <1>7
  <2>2. Min({room, L - a}) = IF room <= L - a THEN room ELSE L - a
    BY <1>7, <2>1, MinOfTwo
  <2> QED BY <1>7, <2>1, <2>2
<1>8. n \in Nat /\ n <= room /\ n <= L - a /\ a + n <= L
  BY <1>6, <1>7, <1>70
<1>80. eof_' = FALSE \/ a + n = L \/ (Broken /\ L < (a + n) + (BufSize + Ahead))
  <2>1. CASE n = Min({room, L - a}) /\ (Broken => n = room) /\ eof_' = (n < room)
    <3>1. CASE n < room
      BY <1>7, <1>70, <1>8, <2>1, <3>1
    <3>2. CASE (n < room) = FALSE
      BY <2>1, <3>2, Zenon
    <3>3. (n < room) \in BOOLEAN
      BY <1>7, <1>8
    <3> QED BY <3>1, <3>2, <3>3
  <2>2. CASE Broken /\ L - a < room + Ahead
    BY <1>7, <1>8, <2>2, RecorderAssumption
  <2> QED BY <1>6, <2>1, <2>2
<1>9. Len(q) = a - p /\ PieceOf(q, F, p, a)
  BY <1>5, <1>6 DEF PieceOf
<1>10. PICK u : /\ u \in Seq(Byte) /\ u = buf_' /\ Len(u) = a - p + n /\ DOMAIN u = 1 .. a - p + n
                /\ \A k \in 1 .. a - p + n : u[k] = F[p + k]
  <2>1. a + n <= Len(F) /\ (a + n) - p = a - p + n
    <3>1. a + n <= L /\ (a + n) - p = a - p + n
      BY <1>7, <1>8
    <3> QED BY <1>6, <3>1, Zenon
  <2>2. PieceOf(q \o SubSeq(F, a + 1, a + n), F, p, a + n)
    BY <1>3, <1>7, <1>8, <1>9, <2>1, PieceJoined
  <2>3. PieceOf(buf_', F, p, a + n)
    BY <1>6, <2>2, Zenon
  <2> QED BY <2>1, <2>3 DEF PieceOf
<1>11. Buffered(F)'
  <2>1. /\ at' = a + n /\ buf_' = u /\ pos_' = 0 /\ Len(u) <= BufSize /\ a + n \in 0 .. Len(F)
        /\ Len(u) <= a + n /\ 0 \in 0 .. Len(u) /\ u \in Seq(Byte)
    <3>1. Len(u) <= BufSize
      <4>1. room = BufSize - (a - p)
        BY <1>6, <1>9
      <4> QED BY <1>7, <1>8, <1>10, <4>1, RecorderAssumption
    <3>2. a + n \in 0 .. Len(F)
      <4>1. a + n \in 0 .. L
        BY <1>7, <1>8
      <4> QED BY <1>6, <4>1
    <3>3. Len(u) <= a + n /\ 0 \in 0 .. Len(u)
      BY <1>7, <1>8, <1>10
    <3> QED BY <1>1, <1>6, <1>10, <3>1, <3>2, <3>3
  <2>2. at' - Len(buf_') = p
    <3>1. (a + n) - Len(u) = p
      BY <1>7, <1>8, <1>10
    <3>2. at' = a + n /\ buf_' = u
      BY <2>1
    <3> QED BY <3>1, <3>2, Zenon
  <2>4. \A k \in DOMAIN buf_' : buf_'[k] = F[at' - Len(buf_') + k]
    <3>1. \A k \in DOMAIN u : u[k] = F[p + k]
      BY <1>10
    <3>2. \A k \in DOMAIN buf_' : buf_'[k] = F[p + k]
      BY <2>1, <3>1, Zenon
    <3> QED BY <2>2, <3>2, Zenon
  <2>5. at' \in 0 .. Len(F) /\ buf_' \in Seq(Byte) /\ Len(buf_') <= at' /\ Len(buf_') <= BufSize /\ pos_' \in 0 .. Len(buf_')
    BY <2>1, Zenon
  <2> QED BY <2>4, <2>5, Zenon DEF Buffered
<1>12. at' - Len(buf_') + pos_' = p
  BY <1>1, <1>6, <1>7, <1>8, <1>10
<1>13. Done(F, p, replayed)
  BY <1>4, <1>5
<1>14. Reading'
  <2>1. mode' # "end" /\ Done(F, p, replayed')
    BY <1>1, <1>13
  <2>2. Stops(F)'
    BY <1>2, <1>6, <1>80, Zenon DEF Stops
  <2> QED BY <1>3, <1>11, <1>12, <2>1, <2>2 DEF Reading, Buffered, Stops
<1>15. Phases'
  BY <1>0, <1>1 DEF Phases
<1> QED BY <1>2, <1>14, <1>15 DEF RecorderIInv

LEMMA DecodeKeeps == RecorderIInv /\ Decode => RecorderIInv'
<1> SUFFICES ASSUME RecorderIInv, Decode PROVE RecorderIInv'
  OBVIOUS
<1>0. InRing /\ InFile /\ NothingLost /\ Phases /\ Reading
  BY DEF RecorderIInv
<1>1. /\ mode = "read" /\ mode' = mode /\ buf_' = buf_ /\ at' = at /\ eof_' = eof_
      /\ given' = given /\ ring' = ring /\ dropped' = dropped /\ gz' = gz /\ running_' = running_ /\ recPc' = recPc
      /\ crashes' = crashes
  BY DEF Decode, recVars
<1>2. InRing' /\ InFile' /\ NothingLost' /\ Readable' = Readable /\ Broken' = Broken
  BY <1>0, <1>1, RecordKept
<1>3. PICK F : F = Readable /\ F = Readable' /\ F \in Seq(Byte) /\ Framed(F)
  BY <1>0, <1>2, ReadableFramed DEF Framed
<1>4. Buffered(F) /\ Done(F, at - Len(buf_) + pos_, replayed) /\ Stops(F)
  BY <1>0, <1>1, <1>3 DEF Reading
<1>5. PICK p \in Nat : /\ p = at - Len(buf_) + pos_ /\ p <= at /\ at <= Len(F) /\ at \in Nat
                       /\ Rest \in Seq(Byte) /\ Len(Rest) = at - p /\ DOMAIN Rest = 1 .. at - p
                       /\ \A k \in 1 .. at - p : Rest[k] = F[p + k]
  BY <1>3, <1>4, RestIs
<1>6. PICK q, m, z : /\ q = Rest /\ m = q[1][1] /\ z = SizeOf[m] /\ q # <<>> /\ Len(q) >= z
                     /\ replayed' = Append(replayed, m) /\ pos_' = pos_ + z
  BY DEF Decode, HasMessage
<1>7. at - p >= 1 /\ 1 \in 1 .. at - p /\ m = F[p + 1][1] /\ p + 1 <= Len(F)
  <2>1. at - p # 0
    BY <1>5, <1>6
  <2>2. at - p >= 1 /\ 1 \in 1 .. at - p /\ p + 1 <= Len(F)
    BY <1>3, <1>5, <2>1
  <2> QED BY <1>5, <1>6, <2>2
<1>8. Done(F, p, replayed)
  BY <1>4, <1>5
<1>9. m \in 1 .. MaxMessages /\ z \in Nat
  <2>1. p = 0 \/ F[p][2] = SizeOf[F[p][1]]
    BY <1>8 DEF Done
  <2>2. m \in 1 .. MaxMessages
    BY <1>3, <1>7, <2>1, NextMessage
  <2> QED BY <1>6, <2>2, Sizes
<1>10. p + z <= at /\ p + z <= Len(F)
  BY <1>3, <1>5, <1>6, <1>9
<1>11. Done(F, p + z, replayed')
  <2>1. p + SizeOf[m] <= Len(F)
    BY <1>6, <1>10
  <2>2. Done(F, p + SizeOf[m], Append(replayed, m))
    BY <1>3, <1>7, <1>8, <2>1, OneMore
  <2> QED BY <1>6, <2>2
<1>12. Len(buf_) \in Nat /\ pos_ \in Nat /\ pos_ + z \in 0 .. Len(buf_) /\ at - Len(buf_) + (pos_ + z) = p + z
  <2>1. Len(buf_) \in Nat /\ pos_ \in Nat
    BY <1>4 DEF Buffered
  <2> QED BY <1>5, <1>9, <1>10, <2>1
<1>13. Buffered(F)'
  BY <1>1, <1>4, <1>6, <1>12 DEF Buffered
<1>14. at' - Len(buf_') + pos_' = p + z
  BY <1>1, <1>6, <1>12
<1>15. Reading'
  <2>1. mode' # "end"
    BY <1>1
  <2>2. Stops(F)'
    BY <1>1, <1>2, <1>4, Zenon DEF Stops
  <2> QED BY <1>3, <1>11, <1>13, <1>14, <2>1, <2>2 DEF Reading, Buffered, Stops
<1>16. Phases'
  BY <1>0, <1>1 DEF Phases
<1> QED BY <1>2, <1>15, <1>16 DEF RecorderIInv

\* Nothing but the mode changed, from reading to its end, or nothing at all.
LEMMA EndKeeps ==
  ASSUME RecorderIInv, UNCHANGED <<recVars, readVars>>, mode' = mode \/ (mode = "read" /\ mode' = "end" /\ eof_ /\ ~HasMessage(Rest))
  PROVE  RecorderIInv'
<1>0. InRing /\ InFile /\ NothingLost /\ Phases /\ Reading
  BY DEF RecorderIInv
<1>1. /\ given' = given /\ ring' = ring /\ dropped' = dropped /\ gz' = gz /\ running_' = running_ /\ recPc' = recPc
      /\ crashes' = crashes /\ buf_' = buf_ /\ pos_' = pos_ /\ at' = at /\ eof_' = eof_ /\ replayed' = replayed
  BY DEF recVars, readVars
<1>2. InRing' /\ InFile' /\ NothingLost' /\ Readable' = Readable /\ Broken' = Broken
  BY <1>0, <1>1, RecordKept
<1>3. Rest' = Rest
  BY <1>1, Zenon DEF Rest
<1>4. Phases'
  BY <1>0, <1>1 DEF Phases
<1>5. mode' # "record" => mode # "record"
  OBVIOUS
<1>6. ASSUME mode' # "record" PROVE Buffered(Readable)' /\ Done(Readable, at - Len(buf_) + pos_, replayed)' /\ Stops(Readable)'
  <2>1. PICK F : F = Readable /\ F = Readable' /\ Buffered(F) /\ Done(F, at - Len(buf_) + pos_, replayed) /\ Stops(F)
    BY <1>0, <1>2, <1>5, <1>6 DEF Reading
  <2>2. Buffered(F)'
    BY <1>1, <2>1 DEF Buffered
  <2>3. Done(F, at - Len(buf_) + pos_, replayed)'
    BY <1>1, <2>1, Zenon
  <2>4. Stops(F)'
    BY <1>1, <1>2, <2>1, Zenon DEF Stops
  <2> QED BY <2>1, <2>2, <2>3, <2>4 DEF Buffered, Stops
<1>7. HasMessage(Rest)' <=> HasMessage(Rest)
  BY <1>3, Zenon DEF HasMessage
<1>8. mode' = "end" => eof_' /\ ~HasMessage(Rest)'
  BY <1>0, <1>1, <1>7 DEF Reading
<1>9. Reading'
  BY <1>6, <1>8 DEF Reading
<1> QED BY <1>2, <1>4, <1>9 DEF RecorderIInv

\* The invariant, for any number of messages, any sizes, buffer, ring and lives:
\* the file is made of whole messages in the order of the feed, cut only where a
\* process died (recorder.cpp:42, the length and the message behind it), and the
\* reader has decoded what is in front of its place, which it gives up only at
\* the end or within a read of the damage (sources.cpp:45).
THEOREM RecorderInductive == RecorderSpec => []RecorderIInv
<1>1. RecorderInit => RecorderIInv
  <2> SUFFICES ASSUME RecorderInit PROVE RecorderIInv
    OBVIOUS
  <2>1. /\ given = 0 /\ ring = <<>> /\ dropped = {} /\ gz = <<NewMember>> /\ running_ = TRUE /\ recPc = "loop" /\ mode = "record"
        /\ crashes = 0 /\ buf_ = <<>> /\ pos_ = 0 /\ at = 0 /\ eof_ = FALSE /\ replayed = <<>>
    BY DEF RecorderInit
  <2>2. /\ <<>> \in Seq(Nat) /\ <<>> \in Seq(Byte) /\ (\A i : i \notin DOMAIN <<>>) /\ Len(<<>>) = 0
    OBVIOUS
  <2>3. InRing
    <3>1. 0 \in Nat /\ 0 <= MaxMessages /\ {} \subseteq 1 .. 0
      BY RecorderAssumption
    <3> QED BY <2>1, <2>2, <3>1 DEF InRing
  <2>4. NewMember \in Member /\ NewMember.bytes = <<>> /\ NewMember.synced = 0 /\ NewMember.ended = FALSE
    BY DEF NewMember, Member
  <2>5. Len(gz) = 1 /\ DOMAIN gz = 1 .. 1 /\ gz[1] = NewMember /\ gz \in Seq(Member)
    BY <2>1, <2>4
  <2>6. \A g \in DOMAIN gz : g = 1 /\ gz[g].bytes = <<>> /\ gz[g].synced = 0
    BY <2>4, <2>5
  <2>7. InFile
    <3>1. Framed(<<>>) /\ Within(<<>>, Past) /\ Whole(<<>>)
      <4>1. Framed(<<>>)
        BY <2>2, Zenon DEF Framed
      <4>2. Within(<<>>, Past) /\ Whole(<<>>)
        BY <2>2, Zenon DEF Within, Whole
      <4> QED BY <4>1, <4>2
    <3>2. ASSUME NEW g \in DOMAIN gz
          PROVE  /\ Framed(gz[g].bytes) /\ Within(gz[g].bytes, Past) /\ gz[g].synced <= Len(gz[g].bytes) + 1
                 /\ gz[g].ended => Whole(gz[g].bytes)
      <4>1. gz[g].bytes = <<>> /\ gz[g].synced <= Len(gz[g].bytes) + 1
        BY <2>2, <2>6
      <4> QED BY <3>1, <4>1, Zenon
    <3>3. ASSUME NEW g \in DOMAIN gz, NEW h \in DOMAIN gz, g < h PROVE FALSE
      BY <2>5, <3>3
    <3> QED BY <2>5, <3>2, <3>3 DEF InFile, FileOk
  <2>8. NothingLost
    <3>1. \A m \in 1 .. 0 : FALSE
      OBVIOUS
    <3> QED BY <2>1, <2>5, <3>1 DEF NothingLost
  <2>9. Phases
    <3>1. Whole(gz[Len(gz)].bytes)
      BY <2>4, <2>5 DEF Whole
    <3> QED BY <2>1, <2>4, <2>5, <3>1 DEF Phases
  <2>10. Reading
    BY <2>1 DEF Reading
  <2> QED BY <2>3, <2>7, <2>8, <2>9, <2>10 DEF RecorderIInv
<1>2. RecorderIInv /\ [RecorderNext]_recorderVars => RecorderIInv'
  <2> SUFFICES ASSUME RecorderIInv, [RecorderNext]_recorderVars PROVE RecorderIInv'
    OBVIOUS
  <2>1. CASE push
    BY <2>1, PushKeeps
  <2>2. CASE WriteOne
    BY <2>2, WriteKeeps
  <2>3. CASE SyncFlush
    BY <2>3, SyncKeeps
  <2>4. CASE stop \/ LeaveLoop
    BY <2>4, StopKeeps
  <2>5. CASE Closed
    BY <2>5, ClosedKeeps
  <2>6. CASE Crash
    BY <2>6, CrashKeeps
  <2>7. CASE refill
    BY <2>7, RefillKeeps
  <2>8. CASE Decode
    BY <2>8, DecodeKeeps
  <2>9. CASE ReadEnd
    <3>1. mode = "read" /\ mode' = "end" /\ eof_ /\ ~HasMessage(Rest) /\ UNCHANGED <<recVars, readVars>>
      BY <2>9 DEF ReadEnd
    <3> QED BY <3>1, EndKeeps
  <2>10. CASE UNCHANGED recorderVars
    <3>1. mode' = mode /\ UNCHANGED <<recVars, readVars>>
      BY <2>10 DEF recorderVars
    <3> QED BY <3>1, EndKeeps
  <2> QED BY <2>1, <2>2, <2>3, <2>4, <2>5, <2>6, <2>7, <2>8, <2>9, <2>10 DEF RecorderNext
<1> QED BY <1>1, <1>2, PTL DEF RecorderSpec

\* What the reader decodes is what was recorded: without a crash every message
\* that was not counted as dropped; after one whole messages in order and all that
\* was synced, unless a restart appended behind the damage: then all of those
\* before it but for what one read asks for and decodes (recorder.cpp:15, :56,
\* sources.cpp:45).
THEOREM RecordingReadsBack == RecorderSpec => []ReplayInv
  BY RecorderInductive, ReplayFromIInv, PTL
=============================================================================
