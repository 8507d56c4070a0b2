------------------------- MODULE MoldReceiverProofs -------------------------
(***************************************************************************)
(* For every stream length, packet size, timeout and buffer limit: the     *)
(* MoldUDP64 receiver gives the book its messages in sequence, none twice, *)
(* and counts every one it does not give.                                  *)
(***************************************************************************)
EXTENDS MoldReceiver, SequenceTheorems, WellFoundedInduction, TLAPS

\* The least-number principle, for sets.
LEMMA LeastNatural ==
  ASSUME NEW T, T \subseteq Nat, T # {}
  PROVE  /\ \E x \in T : \A y \in T : x <= y
         /\ Least(T) \in T
         /\ \A y \in T : Least(T) <= y
<1> DEFINE R == {ss \in Nat \X Nat : ss[1] < ss[2]}
<1>1. IsWellFoundedOn(R, Nat)
  BY NatLessThanWellFounded, Zenon DEF OpToRel
<1>2. PICK x \in T : \A y \in T : ~ (<<y, x>> \in R)
  <2> HIDE DEF R
  <2> QED BY <1>1, WFMin
<1>3. \A y \in T : x <= y
  <2> TAKE y \in T
  <2>1. <<y, x>> \in R <=> y < x
    OBVIOUS
  <2>2. ~ (y < x)
    BY <1>2, <2>1
  <2> QED BY <2>2
<1> QED BY <1>3 DEF Least

\* A buffer as pending_ may be: packets within the stream.
Buffer0(p) == /\ DOMAIN p \subseteq 1 .. MaxSeq
              /\ \A k \in DOMAIN p : p[k] \in 1 .. MaxCount /\ k + p[k] <= MaxSeq + 1

\* drain() stops, at a point no buffered packet reaches beyond.
LEMMA DrainStops ==
  ASSUME NEW p, Buffer0(p), NEW e \in 0 .. MaxSeq + 1
  PROVE  /\ DrainTo(p, e) \in e .. MaxSeq + 1
         /\ Reached(p, DrainTo(p, e))
<1> USE StreamAssumption
<1> DEFINE T == {d \in e .. MaxSeq + 1 : Reached(p, d)}
<1>1. MaxSeq + 1 \in T
  BY DEF Reached, Buffer0
<1>2. T \subseteq Nat
  OBVIOUS
<1>3. PICK x \in T : \A y \in T : x <= y
  <2> HIDE DEF T
  <2> QED BY <1>1, <1>2, LeastNatural
<1>4. x \in e .. MaxSeq + 1 /\ Reached(p, x)
  BY <1>3
<1>5. \A c \in e .. x - 1 : ~ Reached(p, c)
  <2> SUFFICES ASSUME NEW c \in e .. x - 1, Reached(p, c) PROVE FALSE
    OBVIOUS
  <2>1. c \in T
    BY <1>4
  <2> QED BY <2>1, <1>3, <1>4
<1> HIDE DEF T
<1> QED BY <1>4, <1>5 DEF DrainTo

\* What is left after a drain is a buffer, and ahead of where it stopped.
LEMMA BeyondBuffer ==
  ASSUME NEW p, Buffer0(p), NEW d \in Int
  PROVE  /\ Buffer0(Beyond(p, d))
         /\ \A k \in DOMAIN Beyond(p, d) : k \in DOMAIN p /\ k > d
BY DEF Buffer0, Beyond

\* emplace() keeps a buffer a buffer.
LEMMA EmplaceBuffer ==
  ASSUME NEW p, Buffer0(p), NEW seq \in 1 .. MaxSeq, NEW count \in 1 .. MaxCount,
         seq + count <= MaxSeq + 1
  PROVE  /\ Buffer0(Emplace(p, seq, count))
         /\ \A k \in DOMAIN Emplace(p, seq, count) : k \in DOMAIN p \/ k = seq
BY DEF Buffer0, Emplace

-----------------------------------------------------------------------------
(* The messages handed to the book *)

LEMMA RunProperties ==
  ASSUME NEW a \in SeqNo, NEW b \in SeqNo, a <= b
  PROVE  /\ Feed!Run(a, b) \in Seq(SeqNo)
         /\ Len(Feed!Run(a, b)) = b - a
         /\ \A i \in 1 .. (b - a) : Feed!Run(a, b)[i] = a + i - 1
<1> USE StreamAssumption DEF SeqNo
<1>1. b - a \in Nat
  OBVIOUS
<1>2. \A i \in 1 .. (b - a) : a + i - 1 \in 0 .. MaxSeq + 1
  OBVIOUS
<1>3. Feed!Run(a, b) \in [1 .. (b - a) -> 0 .. MaxSeq + 1]
  BY <1>2 DEF Feed!Run
<1>4. Feed!Run(a, b) \in Seq(0 .. MaxSeq + 1) /\ Len(Feed!Run(a, b)) = b - a
  BY <1>1, <1>3
<1> QED BY <1>4 DEF Feed!Run

\* A run of messages after an increasing history below e is an increasing
\* history below b.
LEMMA ExtendHistory ==
  ASSUME NEW h \in Seq(SeqNo), NEW f \in SeqNo, NEW e \in SeqNo, NEW a \in SeqNo, NEW b \in SeqNo,
         f <= e, e <= a, a <= b,
         \A i, j \in 1 .. Len(h) : i < j => h[i] < h[j],
         \A i \in 1 .. Len(h) : f <= h[i] /\ h[i] < e
  PROVE  LET g == h \o Feed!Run(a, b)
         IN /\ g \in Seq(SeqNo)
            /\ Len(g) = Len(h) + (b - a)
            /\ \A i, j \in 1 .. Len(g) : i < j => g[i] < g[j]
            /\ \A i \in 1 .. Len(g) : f <= g[i] /\ g[i] < b
<1> DEFINE g == h \o Feed!Run(a, b)
<1> USE StreamAssumption DEF SeqNo
<1>1. /\ Feed!Run(a, b) \in Seq(SeqNo) /\ Len(Feed!Run(a, b)) = b - a
      /\ \A i \in 1 .. (b - a) : Feed!Run(a, b)[i] = a + i - 1
  BY RunProperties
<1>2. Len(h) \in Nat /\ b - a \in Nat /\ \A i \in 1 .. Len(h) : h[i] \in Int
  BY ElementOfSeq, LenProperties
<1>3. /\ g \in Seq(SeqNo) /\ Len(g) = Len(h) + (b - a)
      /\ \A i \in 1 .. Len(h) + (b - a) : g[i] = IF i <= Len(h) THEN h[i] ELSE Feed!Run(a, b)[i - Len(h)]
  BY <1>1, ConcatProperties
<1>4. \A i \in 1 .. Len(h) + (b - a) : g[i] = IF i <= Len(h) THEN h[i] ELSE a + (i - Len(h)) - 1
  <2> TAKE i \in 1 .. Len(h) + (b - a)
  <2>1. i > Len(h) => i - Len(h) \in 1 .. (b - a)
    BY <1>2
  <2> QED BY <2>1, <1>1, <1>2, <1>3
<1> HIDE DEF g
<1>5. \A i, j \in 1 .. Len(g) : i < j => g[i] < g[j]
  <2> SUFFICES ASSUME NEW i \in 1 .. Len(g), NEW j \in 1 .. Len(g), i < j PROVE g[i] < g[j]
    OBVIOUS
  <2>1. i \in 1 .. Len(h) + (b - a) /\ j \in 1 .. Len(h) + (b - a)
    BY <1>3
  <2>2. /\ g[i] = IF i <= Len(h) THEN h[i] ELSE a + (i - Len(h)) - 1
        /\ g[j] = IF j <= Len(h) THEN h[j] ELSE a + (j - Len(h)) - 1
    BY <1>4, <2>1
  <2>3. CASE j <= Len(h)
    <3>1. i \in 1 .. Len(h) /\ j \in 1 .. Len(h)
      BY <1>2, <2>1, <2>3
    <3>2. h[i] < h[j]
      BY <3>1
    <3> QED BY <2>2, <2>3, <3>1, <3>2
  <2>4. CASE i <= Len(h) /\ ~ (j <= Len(h))
    <3>1. i \in 1 .. Len(h) /\ j - Len(h) >= 1
      BY <1>2, <2>1, <2>4
    <3>2. h[i] < e /\ h[i] \in Int
      BY <3>1, <1>2
    <3> QED BY <1>2, <2>2, <2>4, <3>1, <3>2
  <2>5. CASE ~ (i <= Len(h))
    BY <1>2, <2>1, <2>2, <2>5
  <2> QED BY <2>3, <2>4, <2>5
<1>6. \A i \in 1 .. Len(g) : f <= g[i] /\ g[i] < b
  <2> TAKE i \in 1 .. Len(g)
  <2>1. i \in 1 .. Len(h) + (b - a)
    BY <1>3
  <2>2. g[i] = IF i <= Len(h) THEN h[i] ELSE a + (i - Len(h)) - 1
    BY <1>4, <2>1
  <2>3. CASE i <= Len(h)
    <3>1. f <= h[i] /\ h[i] < e /\ h[i] \in Int
      BY <2>1, <2>3, <1>2
    <3> QED BY <2>2, <2>3, <3>1
  <2>4. CASE ~ (i <= Len(h))
    BY <1>2, <2>1, <2>2, <2>4
  <2> QED BY <2>3, <2>4
<1> QED BY <1>3, <1>5, <1>6 DEF g

\* The receiver's view of session s, when a packet of sequence seq arrives.
LEMMA View ==
  ASSUME IInv, NEW s \in session .. MaxSession, s # NoSession, NEW seq \in 1 .. MaxSeq + 1
  PROVE  /\ s \in 1 .. MaxSession
         /\ Expected0(s) \in SeqNo
         /\ Synced(s, seq) \in 1 .. MaxSeq + 1
         /\ First0(s, seq) \in 1 .. MaxSeq + 1 /\ First0(s, seq) <= Synced(s, seq)
         /\ Buffer0(Pending0(s))
         /\ \A k \in DOMAIN Pending0(s) : k > Synced(s, seq)
         /\ Recovering0(s) \in BOOLEAN
         /\ DOMAIN Pending0(s) # {} => Recovering0(s) /\ server
         /\ Applied0(s) \in Seq(SeqNo) /\ Lost0(s) \in Nat
         /\ Expected0(s) = 0 => /\ Applied0(s) = <<>> /\ Lost0(s) = 0
                                /\ DOMAIN Pending0(s) = {} /\ ~ Recovering0(s)
<1> USE StreamAssumption, MaxSessionAssumption
<1>1. s \in 1 .. MaxSession
  BY DEF IInv, TypeOK, NoSession
<1>2. CASE s = session
  BY <1>1, <1>2 DEF IInv, TypeOK, BufferedAhead, HeldOnlyInRecovery, Unsynced, Expected0, Synced, First0,
       Pending0, Recovering0, Applied0, Lost0, Buffer0, SeqNo
<1>3. CASE s # session
  <2>1. Applied0(s) = <<>> /\ Lost0(s) = 0 /\ Expected0(s) = 0 /\ Recovering0(s) = FALSE
    BY <1>3 DEF Applied0, Lost0, Expected0, Recovering0
  <2>2. DOMAIN Pending0(s) = {} /\ Pending0(s) = <<>>
    BY <1>3 DEF Pending0
  <2>4. Applied0(s) \in Seq(SeqNo)
    BY <2>1, EmptySeq
  <2>5. Buffer0(Pending0(s))
    BY <2>2 DEF Buffer0
  <2>6. Synced(s, seq) = seq /\ First0(s, seq) = seq
    BY <2>1 DEF Synced, First0
  <2>7. Expected0(s) \in SeqNo /\ Synced(s, seq) \in 1 .. MaxSeq + 1 /\ First0(s, seq) \in 1 .. MaxSeq + 1
        /\ First0(s, seq) <= Synced(s, seq) /\ Lost0(s) \in Nat
    BY <2>1, <2>6 DEF SeqNo
  <2> QED BY <1>1, <2>1, <2>2, <2>4, <2>5, <2>7
<1> QED BY <1>2, <1>3

LEMMA Balance ==
  \A lg, lh, a, b, e, f, m, n \in Int :
    lg = lh + (b - a) /\ lh + m = e - f /\ n = m + (a - e) => lg + n = b - f
OBVIOUS

\* A step that gives up the messages before a and applies a .. b - 1 is a step
\* of the ordered feed, and keeps the history in order and accounted for.
FeedOK == /\ applied \in Seq(SeqNo) /\ gapMessages \in Nat
          /\ session \in 1 .. MaxSession /\ expected \in SeqNo /\ first \in SeqNo
          /\ 0 < first /\ first <= expected
          /\ InOrder /\ WithinSession /\ Accounted

LEMMA FeedStep ==
  ASSUME IInv, NEW s \in session .. MaxSession, s # NoSession, NEW seq \in 1 .. MaxSeq + 1,
         NEW a \in SeqNo, NEW b \in SeqNo, Synced(s, seq) <= a, a <= b,
         Expected0(s) = 0 => a = Synced(s, seq),
         session' = s, first' = First0(s, seq), expected' = b,
         applied' = Applied0(s) \o Feed!Run(a, b),
         gapMessages' = Lost0(s) + (a - Synced(s, seq))
  PROVE  Feed!Next /\ FeedOK'
<1> USE StreamAssumption, MaxSessionAssumption
<1> DEFINE e == Synced(s, seq)
           f == First0(s, seq)
           h == Applied0(s)
           g == h \o Feed!Run(a, b)
<1>1. /\ s \in 1 .. MaxSession /\ e \in SeqNo /\ e > 0 /\ f \in SeqNo /\ f > 0 /\ f <= e
      /\ h \in Seq(SeqNo) /\ Lost0(s) \in Nat
      /\ Expected0(s) = 0 => h = <<>> /\ Lost0(s) = 0
  <2>1. /\ s \in 1 .. MaxSession /\ e \in 1 .. MaxSeq + 1 /\ f \in 1 .. MaxSeq + 1 /\ f <= e
        /\ h \in Seq(SeqNo) /\ Lost0(s) \in Nat
        /\ Expected0(s) = 0 => h = <<>> /\ Lost0(s) = 0
    BY View
  <2>2. e \in SeqNo /\ e > 0 /\ f \in SeqNo /\ f > 0
    BY <2>1 DEF SeqNo
  <2> QED BY <2>1, <2>2
<1>2. CASE Expected0(s) = 0
  <2>1. h = <<>> /\ Lost0(s) = 0 /\ a = e /\ f = e /\ a = seq
    BY <1>1, <1>2 DEF Synced, First0
  <2>2. g = Feed!Run(a, b) /\ gapMessages' = 0
    <3>1. Feed!Run(a, b) \in Seq(SeqNo)
      BY RunProperties
    <3>2. <<>> \o Feed!Run(a, b) = Feed!Run(a, b)
      BY <3>1, ConcatEmptySeq
    <3>3. 0 + (a - a) = 0
      BY DEF SeqNo
    <3> QED BY <2>1, <3>2, <3>3
  <2>3. /\ g \in Seq(SeqNo) /\ Len(g) = b - a
        /\ \A i \in 1 .. (b - a) : g[i] = a + i - 1
    BY <2>2, RunProperties
  <2>4. s # session \/ expected = 0
    BY <1>2 DEF Expected0
  <2>5. Feed!Sync(s, a, b)
    BY <1>1, <2>1, <2>2, <2>4 DEF Feed!Sync
  <2>6. Feed!Next
    BY <1>1, <2>5 DEF Feed!Next, SeqNo
  <2>7. FeedOK'
    <3>1. applied' = g /\ first' = a /\ expected' = b
      BY <2>1
    <3> HIDE DEF g
    <3>2. InOrder' /\ WithinSession' /\ Accounted'
      BY <2>2, <2>3, <3>1 DEF InOrder, WithinSession, Accounted, Feed!InOrder, Feed!WithinSession,
           Feed!Accounted, SeqNo
    <3>3. /\ applied' \in Seq(SeqNo) /\ gapMessages' \in Nat
          /\ session' \in 1 .. MaxSession /\ expected' \in SeqNo /\ first' \in SeqNo
          /\ 0 < first' /\ first' <= expected'
      BY <1>1, <2>1, <2>2, <2>3, <3>1
    <3> QED BY <3>2, <3>3 DEF FeedOK, SeqNo
  <2> QED BY <2>6, <2>7
<1>3. CASE Expected0(s) # 0
  <2>1. s = session /\ expected # 0 /\ e = expected /\ f = first /\ h = applied /\ Lost0(s) = gapMessages
    BY <1>3 DEF Expected0, Synced, First0, Applied0, Lost0
  <2>2. Feed!Advance(a, b)
    BY <1>1, <2>1 DEF Feed!Advance
  <2>3. Feed!Next
    BY <2>2 DEF Feed!Next, SeqNo
  <2>4. /\ \A i, j \in 1 .. Len(h) : i < j => h[i] < h[j]
        /\ \A i \in 1 .. Len(h) : f <= h[i] /\ h[i] < e
        /\ Len(h) + gapMessages = e - f
    BY <2>1 DEF IInv, InOrder, WithinSession, Accounted, Feed!InOrder, Feed!WithinSession, Feed!Accounted
  <2>5. /\ g \in Seq(SeqNo)
        /\ Len(g) = Len(h) + (b - a)
        /\ \A i, j \in 1 .. Len(g) : i < j => g[i] < g[j]
        /\ \A i \in 1 .. Len(g) : f <= g[i] /\ g[i] < b
    <3>1. e <= a
      OBVIOUS
    <3> HIDE DEF e, f, h
    <3> QED BY <1>1, <2>4, <3>1, ExtendHistory
  <2>6. FeedOK'
    <3>1. applied' = g /\ first' = f /\ expected' = b
      OBVIOUS
    <3>2. Len(h) \in Nat
      BY <1>1, LenProperties
    <3> HIDE DEF g, h, f
    <3>3. InOrder' /\ WithinSession'
      BY <2>5, <3>1 DEF InOrder, WithinSession, Feed!InOrder, Feed!WithinSession
    <3>4. Accounted'
      <4>1. gapMessages' = gapMessages + (a - e) /\ gapMessages \in Nat
        BY <1>1, <2>1
      <4> HIDE DEF e
      <4>2. Len(g) + gapMessages' = b - f
        <5>1. e \in Int /\ f \in Int /\ a \in Int /\ b \in Int
          BY <1>1 DEF SeqNo
        <5>2. Len(g) = Len(h) + (b - a) /\ Len(h) + gapMessages = e - f
          BY <2>4, <2>5
        <5>3. Len(h) \in Int /\ gapMessages \in Int /\ Len(g) \in Int
          BY <3>2, <4>1, <5>1, <5>2
        <5>4. gapMessages' \in Int
          BY <4>1, <5>1, <5>3
        <5> QED BY <4>1, <5>1, <5>2, <5>3, <5>4, Balance
      <4> QED BY <3>1, <4>2 DEF Accounted, Feed!Accounted
    <3>5. /\ applied' \in Seq(SeqNo) /\ gapMessages' \in Nat
          /\ session' \in 1 .. MaxSession /\ expected' \in SeqNo /\ first' \in SeqNo
          /\ 0 < first' /\ first' <= expected'
      <4>1. applied' \in Seq(SeqNo) /\ session' \in 1 .. MaxSession /\ expected' \in SeqNo /\ first' \in SeqNo
        BY <1>1, <2>5, <3>1
      <4>2. gapMessages' = Lost0(s) + (a - e)
        OBVIOUS
      <4> HIDE DEF e
      <4>3. e \in Int /\ f \in Int /\ a \in Int /\ b \in Int /\ e <= a
        BY <1>1 DEF SeqNo, e
      <4>4. gapMessages' \in Nat
        BY <1>1, <4>2, <4>3
      <4>5. 0 < f /\ f <= b
        BY <1>1, <4>3
      <4> QED BY <3>1, <4>1, <4>4, <4>5
    <3> QED BY <3>3, <3>4, <3>5 DEF FeedOK, SeqNo
  <2> QED BY <2>3, <2>6
<1> QED BY <1>2, <1>3

\* The special case of a packet that brings nothing new.
LEMMA QuietStep ==
  ASSUME IInv, NEW s \in session .. MaxSession, s # NoSession, NEW seq \in 1 .. MaxSeq + 1,
         session' = s, first' = First0(s, seq), expected' = Synced(s, seq),
         applied' = Applied0(s), gapMessages' = Lost0(s)
  PROVE  Feed!Next /\ FeedOK'
<1> USE StreamAssumption
<1> DEFINE e == Synced(s, seq)
<1>1. e \in SeqNo /\ Applied0(s) \in Seq(SeqNo) /\ Lost0(s) \in Nat
  BY View DEF SeqNo
<1>2. Feed!Run(e, e) = <<>>
  <2>1. Feed!Run(e, e) \in Seq(SeqNo) /\ Len(Feed!Run(e, e)) = 0
    <3>1. e <= e /\ e - e = 0
      BY <1>1 DEF SeqNo
    <3> HIDE DEF e
    <3> QED BY <1>1, <3>1, RunProperties
  <2> QED BY <2>1, EmptySeq
<1>3. Applied0(s) \o Feed!Run(e, e) = Applied0(s)
  BY <1>1, <1>2, ConcatEmptySeq
<1>4. Lost0(s) + (e - e) = Lost0(s) /\ e <= e
  BY <1>1 DEF SeqNo
<1> QED BY <1>1, <1>3, <1>4, FeedStep

-----------------------------------------------------------------------------
(* The gap being chased *)

GapOK == /\ gapAge \in 0 .. GapTimeout + 1 /\ gapEnd \in SeqNo
         /\ reqAge \in 0 .. Retry + 1 /\ request \in [seq : SeqNo, count : SeqNo]
HeldOK == /\ recovering \in BOOLEAN
          /\ Buffer0(pending)
          /\ BufferedAhead /\ HeldOnlyInRecovery
FlagsOK == server \in BOOLEAN /\ ended \in BOOLEAN /\ polling \in BOOLEAN

LEMMA SplitInv == IInv => GapOK /\ HeldOK /\ FlagsOK
BY DEF IInv, TypeOK, GapOK, HeldOK, FlagsOK, Buffer0

\* After a packet that fixes the expected message, the parts make the whole.
LEMMA JoinInv == FeedOK /\ GapOK /\ HeldOK /\ FlagsOK => IInv
<1> SUFFICES ASSUME FeedOK, GapOK, HeldOK, FlagsOK PROVE IInv
  OBVIOUS
<1> USE StreamAssumption, MaxSessionAssumption
<1>1. expected # 0 /\ session # NoSession
  BY DEF FeedOK, SeqNo, NoSession
<1>2. TypeOK
  BY DEF FeedOK, GapOK, HeldOK, FlagsOK, TypeOK, Buffer0
<1>3. Unsynced
  BY <1>1 DEF Unsynced, FeedOK
<1> QED BY <1>2, <1>3 DEF IInv, FeedOK, HeldOK

LEMMA RequestOK ==
  ASSUME GapOK, NEW p, Buffer0(p), NEW e \in SeqNo, NEW end0 \in SeqNo, RequestGap(p, e, end0)
  PROVE  reqAge' \in 0 .. Retry + 1 /\ request' \in [seq : SeqNo, count : SeqNo]
<1> USE StreamAssumption, TimeAssumption, LimitAssumption
<1> DEFINE end == IF DOMAIN p = {} THEN end0 ELSE Least(DOMAIN p)
<1>1. end \in SeqNo
  <2>1. CASE DOMAIN p = {}
    BY <2>1
  <2>2. CASE DOMAIN p # {}
    <3>1. DOMAIN p \subseteq Nat /\ DOMAIN p \subseteq SeqNo
      BY DEF Buffer0, SeqNo
    <3>2. Least(DOMAIN p) \in DOMAIN p
      BY <2>2, <3>1, LeastNatural
    <3> QED BY <2>2, <3>1, <3>2
  <2> QED BY <2>1, <2>2
<1>2. RequestGap(p, e, end0) =
        IF end <= e
        THEN UNCHANGED <<request, reqAge>>
        ELSE /\ request' = [seq |-> e, count |-> IF end - e < MaxRequest THEN end - e ELSE MaxRequest]
             /\ reqAge' = 0
  BY DEF RequestGap
<1> HIDE DEF end
<1>3. CASE end <= e
  BY <1>2, <1>3 DEF GapOK
<1>4. CASE ~ (end <= e)
  <2> DEFINE n == IF end - e < MaxRequest THEN end - e ELSE MaxRequest
  <2>1. n \in SeqNo
    BY <1>1, <1>4 DEF SeqNo
  <2>2. request' = [seq |-> e, count |-> n] /\ reqAge' = 0
    BY <1>2, <1>4
  <2> HIDE DEF n
  <2> QED BY <2>1, <2>2
<1> QED BY <1>3, <1>4

LEMMA OpenGapOK ==
  ASSUME GapOK, NEW p, Buffer0(p), NEW e \in SeqNo, NEW seq \in SeqNo, OpenGap(p, e, seq)
  PROVE  GapOK' /\ recovering' = TRUE
<1>1. reqAge' \in 0 .. Retry + 1 /\ request' \in [seq : SeqNo, count : SeqNo]
  BY RequestOK DEF OpenGap
<1> QED BY <1>1, TimeAssumption DEF OpenGap, GapOK, SeqNo

\* drain() after messages a .. b - 1: in sequence, and what stays held is
\* ahead and still chased.
LEMMA DrainStep ==
  ASSUME IInv, UNCHANGED server, NEW s \in session .. MaxSession, s # NoSession, NEW seq \in 1 .. MaxSeq + 1,
         NEW a \in SeqNo, NEW b \in SeqNo, Synced(s, seq) <= a, a <= b,
         Expected0(s) = 0 => a = Synced(s, seq),
         session' = s, first' = First0(s, seq),
         gapMessages' = Lost0(s) + (a - Synced(s, seq)),
         gapAge' \in 0 .. GapTimeout + 1,
         ApplyAndDrain(s, Pending0(s), Recovering0(s), a, b)
  PROVE  Feed!Next /\ FeedOK' /\ GapOK' /\ HeldOK'
<1> USE StreamAssumption
<1> DEFINE p == Pending0(s)
           d == DrainTo(p, b)
           rest == Beyond(p, d)
<1>1. /\ Buffer0(p) /\ Recovering0(s) \in BOOLEAN
      /\ DOMAIN p # {} => Recovering0(s) /\ server
  BY View
<1>2. d \in b .. MaxSeq + 1
  BY <1>1, DrainStops DEF SeqNo
<1>3. /\ applied' = Applied0(s) \o Feed!Run(a, d)
      /\ expected' = d
      /\ pending' = rest
      /\ recovering' = (Recovering0(s) /\ DOMAIN rest # {})
      /\ gapEnd' = gapEnd
      /\ IF Recovering0(s) /\ DOMAIN rest # {} THEN RequestGap(rest, d, gapEnd) ELSE UNCHANGED <<request, reqAge>>
  BY DEF ApplyAndDrain
<1> HIDE DEF p, d
<1>4. d \in SeqNo /\ a <= d
  BY <1>2 DEF SeqNo
<1>5. Feed!Next /\ FeedOK'
  BY <1>3, <1>4, FeedStep
<1>6. Buffer0(rest) /\ \A k \in DOMAIN rest : k \in DOMAIN p /\ k > d
  <2>1. d \in Int
    BY <1>4 DEF SeqNo
  <2> QED BY <1>1, <2>1, BeyondBuffer
<1>8. GapOK
  BY SplitInv
<1>9. GapOK'
  <2>1. CASE Recovering0(s) /\ DOMAIN rest # {}
    <3>1. reqAge' \in 0 .. Retry + 1 /\ request' \in [seq : SeqNo, count : SeqNo]
      BY <2>1, <1>3, <1>4, <1>6, <1>8, RequestOK DEF GapOK
    <3> QED BY <1>3, <1>8, <3>1 DEF GapOK, SeqNo
  <2>2. CASE ~ (Recovering0(s) /\ DOMAIN rest # {})
    BY <2>2, <1>3, <1>8 DEF GapOK, SeqNo
  <2> QED BY <2>1, <2>2
<1>10. HeldOK'
  <2>1. recovering' \in BOOLEAN
    BY <1>1, <1>3
  <2>2. Buffer0(pending')
    BY <1>3, <1>6
  <2>4. BufferedAhead'
    BY <1>3, <1>6 DEF BufferedAhead
  <2>5. HeldOnlyInRecovery'
    <3>1. DOMAIN rest # {} => DOMAIN p # {}
      BY <1>6
    <3> QED BY <1>1, <1>3, <3>1 DEF HeldOnlyInRecovery
  <2> QED BY <2>1, <2>2, <2>4, <2>5 DEF HeldOK, Buffer0
<1> QED BY <1>5, <1>9, <1>10

-----------------------------------------------------------------------------
(* Packets and ticks *)

LEMMA PacketStep ==
  ASSUME IInv, UNCHANGED server, NEW s \in session .. MaxSession, s # NoSession,
         NEW seq \in 1 .. MaxSeq, NEW count \in 1 .. MaxCount, seq + count <= MaxSeq + 1,
         Data(s, seq, count), UNCHANGED polling
  PROVE  Feed!Next /\ IInv'
<1> USE StreamAssumption
<1>a. GapOK /\ HeldOK /\ FlagsOK /\ seq \in 1 .. MaxSeq + 1 /\ seq \in SeqNo /\ seq + count \in SeqNo
  BY SplitInv DEF SeqNo
<1>b. /\ Synced(s, seq) \in 1 .. MaxSeq + 1 /\ Expected0(s) \in SeqNo
      /\ Buffer0(Pending0(s)) /\ \A k \in DOMAIN Pending0(s) : k > Synced(s, seq)
      /\ Recovering0(s) \in BOOLEAN /\ (DOMAIN Pending0(s) # {} => Recovering0(s) /\ server)
      /\ Lost0(s) \in Nat
  BY <1>a, View
<1>c. Synced(s, seq) \in SeqNo /\ Synced(s, seq) \in Int
  BY <1>b DEF SeqNo
<1>d. Expected0(s) = 0 => Synced(s, seq) = seq
  BY DEF Synced
<1>1. CASE Duplicate(s, seq, count)
  <2>1. Feed!Next /\ FeedOK'
    BY <1>1, <1>a, QuietStep DEF Duplicate
  <2>2. GapOK' /\ FlagsOK'
    BY <1>1, <1>a DEF Duplicate, gapVars, GapOK, FlagsOK, SeqNo
  <2>3. HeldOK'
    BY <1>1, <1>b DEF Duplicate, HeldOK, BufferedAhead, HeldOnlyInRecovery, Buffer0
  <2> QED BY <2>1, <2>2, <2>3, JoinInv, PTL
<1>2. CASE SkipGap(s, seq, count)
  <2>1. Feed!Next /\ FeedOK'
    <3>1. Synced(s, seq) <= seq /\ seq <= seq + count /\ (Expected0(s) = 0 => seq = Synced(s, seq))
      BY <1>2, <1>c, <1>d DEF SkipGap
    <3>2. /\ session' = s /\ first' = First0(s, seq) /\ expected' = seq + count
          /\ applied' = Applied0(s) \o Feed!Run(seq, seq + count)
          /\ gapMessages' = Lost0(s) + (seq - Synced(s, seq))
      BY <1>2 DEF SkipGap
    <3> QED BY <1>a, <3>1, <3>2, FeedStep
  <2>2. GapOK' /\ FlagsOK'
    BY <1>2, <1>a DEF SkipGap, gapVars, GapOK, FlagsOK, SeqNo
  <2>3. HeldOK'
    <3>1. DOMAIN Pending0(s) = {} /\ pending' = Pending0(s) /\ recovering' = Recovering0(s)
      BY <1>2, <1>b DEF SkipGap
    <3> QED BY <1>b, <3>1 DEF HeldOK, BufferedAhead, HeldOnlyInRecovery, Buffer0
  <2> QED BY <2>1, <2>2, <2>3, JoinInv, PTL
<1>3. CASE Buffer(s, seq, count)
  <2> DEFINE p == Emplace(Pending0(s), seq, count)
  <2>1. Feed!Next /\ FeedOK'
    BY <1>3, <1>a, QuietStep DEF Buffer
  <2>2. Buffer0(p) /\ \A k \in DOMAIN p : k \in DOMAIN Pending0(s) \/ k = seq
    BY <1>b, EmplaceBuffer
  <2>3. pending' = p /\ seq > Synced(s, seq) /\ server /\ expected' = Synced(s, seq)
    BY <1>3 DEF Buffer
  <2> HIDE DEF p
  <2>5. GapOK' /\ recovering' = TRUE
    <3>1. CASE Recovering0(s)
      BY <1>3, <1>a, <3>1 DEF Buffer, gapVars, GapOK, SeqNo
    <3>2. CASE ~ Recovering0(s)
      BY <1>3, <1>a, <1>c, <2>2, <3>2, OpenGapOK DEF Buffer, p
    <3> QED BY <3>1, <3>2
  <2>6. HeldOK'
    <3>1. \A k \in DOMAIN p : k > Synced(s, seq)
      BY <1>b, <2>2, <2>3
    <3> QED BY <2>2, <2>3, <2>5, <3>1 DEF HeldOK, BufferedAhead, HeldOnlyInRecovery, Buffer0
  <2>7. FlagsOK'
    BY <1>3, <1>a DEF Buffer, FlagsOK
  <2> QED BY <2>1, <2>5, <2>6, <2>7, JoinInv, PTL
<1>4. CASE Apply(s, seq, count)
  <2>1. /\ session' = s /\ first' = First0(s, seq)
        /\ ApplyAndDrain(s, Pending0(s), Recovering0(s), Synced(s, seq), seq + count)
        /\ gapMessages' = Lost0(s) /\ gapAge' = gapAge /\ ended' = ended
        /\ Synced(s, seq) < seq + count
    BY <1>4 DEF Apply
  <2>2. /\ Lost0(s) + (Synced(s, seq) - Synced(s, seq)) = Lost0(s)
        /\ Synced(s, seq) <= Synced(s, seq) /\ Synced(s, seq) <= seq + count
    BY <1>b, <1>c, <2>1
  <2>3. gapAge' \in 0 .. GapTimeout + 1
    BY <1>a, <2>1 DEF GapOK
  <2>4. Feed!Next /\ FeedOK' /\ GapOK' /\ HeldOK'
    BY <1>a, <1>c, <2>1, <2>2, <2>3, DrainStep
  <2>5. FlagsOK'
    BY <1>a, <2>1 DEF FlagsOK
  <2> QED BY <2>4, <2>5, JoinInv, PTL
<1> QED BY <1>1, <1>2, <1>3, <1>4 DEF Data

LEMMA HeartbeatStep ==
  ASSUME IInv, UNCHANGED server, NEW s \in session .. MaxSession, s # NoSession, NEW seq \in 1 .. MaxSeq + 1,
         Heartbeat(s, seq), UNCHANGED polling
  PROVE  Feed!Next /\ IInv'
<1> USE StreamAssumption
<1>a. GapOK /\ HeldOK /\ FlagsOK /\ seq \in SeqNo
  BY SplitInv DEF SeqNo
<1>b. /\ Synced(s, seq) \in 1 .. MaxSeq + 1
      /\ Buffer0(Pending0(s)) /\ \A k \in DOMAIN Pending0(s) : k > Synced(s, seq)
      /\ Recovering0(s) \in BOOLEAN /\ (DOMAIN Pending0(s) # {} => Recovering0(s) /\ server)
  BY View
<1>c. Synced(s, seq) \in SeqNo
  BY <1>b DEF SeqNo
<1>1. Feed!Next /\ FeedOK'
  BY QuietStep DEF Heartbeat
<1>2. GapOK' /\ recovering' \in BOOLEAN /\ (Recovering0(s) => recovering')
  <2>1. CASE seq > Synced(s, seq) /\ server /\ ~ Recovering0(s)
    <3>1. OpenGap(Pending0(s), Synced(s, seq), seq)
      BY <2>1 DEF Heartbeat
    <3> QED BY <1>a, <1>b, <1>c, <3>1, OpenGapOK
  <2>2. CASE ~ (seq > Synced(s, seq) /\ server /\ ~ Recovering0(s))
    <3>1. recovering' = Recovering0(s) /\ UNCHANGED gapVars
      BY <2>2 DEF Heartbeat
    <3> QED BY <1>a, <1>b, <3>1 DEF gapVars, GapOK, SeqNo
  <2> QED BY <2>1, <2>2
<1>3. HeldOK'
  <2>1. pending' = Pending0(s) /\ expected' = Synced(s, seq)
    BY DEF Heartbeat
  <2> QED BY <1>b, <1>2, <2>1 DEF HeldOK, BufferedAhead, HeldOnlyInRecovery, Buffer0
<1>4. FlagsOK'
  BY <1>a DEF Heartbeat, FlagsOK
<1> QED BY <1>1, <1>2, <1>3, <1>4, JoinInv, PTL

\* A step that leaves the feed alone keeps its part of the invariant.
FeedPart == /\ session \in 0 .. MaxSession /\ expected \in SeqNo /\ first \in SeqNo
            /\ gapMessages \in Nat /\ applied \in Seq(SeqNo)
            /\ InOrder /\ WithinSession /\ Accounted
Fresh == /\ expected = 0 => first = 0 /\ applied = <<>> /\ gapMessages = 0
         /\ expected # 0 => 0 < first /\ first <= expected
         /\ session = NoSession => expected = 0
Waiting == expected = 0 => DOMAIN pending = {} /\ ~ recovering

LEMMA Parts == IInv <=> FeedPart /\ Fresh /\ Waiting /\ GapOK /\ HeldOK /\ FlagsOK
BY DEF IInv, TypeOK, Unsynced, FeedPart, Fresh, Waiting, GapOK, HeldOK, FlagsOK, Buffer0

LEMMA FeedUnchanged ==
  ASSUME FeedPart, Fresh, UNCHANGED Feed!vars
  PROVE  FeedPart' /\ Fresh'
<1>1. /\ session' = session /\ first' = first /\ expected' = expected
      /\ applied' = applied /\ gapMessages' = gapMessages
  BY DEF Feed!vars
<1>2. FeedPart'
  BY <1>1 DEF FeedPart, InOrder, WithinSession, Accounted, Feed!InOrder, Feed!WithinSession, Feed!Accounted, SeqNo
<1>3. Fresh'
  BY <1>1 DEF Fresh
<1> QED BY <1>2, <1>3

LEMMA EndStep ==
  ASSUME IInv, UNCHANGED server, NEW s \in session .. MaxSession, s # NoSession, EndOfSession(s), UNCHANGED polling
  PROVE  [Feed!Next]_(Feed!vars) /\ IInv'
<1> USE StreamAssumption, MaxSessionAssumption
<1>a. FeedPart /\ Fresh /\ Waiting /\ GapOK /\ HeldOK /\ FlagsOK
  BY Parts
<1>b. GapOK' /\ FlagsOK'
  BY <1>a DEF EndOfSession, gapVars, GapOK, FlagsOK, SeqNo
<1>1. CASE s = session
  <2>1. UNCHANGED Feed!vars /\ UNCHANGED <<pending, recovering>>
    BY <1>1, <1>a DEF EndOfSession, Feed!vars, Expected0, Pending0, Recovering0, Applied0, Lost0, HeldOK
  <2>2. FeedPart' /\ Fresh'
    BY <1>a, <2>1, FeedUnchanged
  <2>3. HeldOK' /\ Waiting'
    BY <1>a, <2>1 DEF HeldOK, Waiting, Feed!vars, BufferedAhead, HeldOnlyInRecovery, Buffer0
  <2> QED BY <1>b, <2>1, <2>2, <2>3, Parts, PTL
<1>2. CASE s # session
  <2>1. /\ session' = s /\ expected' = 0 /\ first' = 0 /\ applied' = <<>> /\ gapMessages' = 0
        /\ pending' = <<>> /\ recovering' = FALSE
    BY <1>2 DEF EndOfSession, Expected0, Pending0, Recovering0, Applied0, Lost0
  <2>2. s \in 1 .. MaxSession
    BY <1>a DEF FeedPart, NoSession
  <2>3. Feed!Next
    BY <1>2, <2>1, <2>2 DEF Feed!Next, Feed!Enter
  <2>4. FeedPart'
    <3>1. applied' \in Seq(SeqNo) /\ Len(applied') = 0
      BY <2>1, EmptySeq
    <3>2. InOrder' /\ WithinSession' /\ Accounted'
      BY <2>1, <3>1 DEF InOrder, WithinSession, Accounted, Feed!InOrder, Feed!WithinSession, Feed!Accounted
    <3> QED BY <2>1, <2>2, <3>1, <3>2 DEF FeedPart, SeqNo
  <2>5. Fresh' /\ Waiting'
    BY <2>1, <2>2 DEF Fresh, Waiting, NoSession
  <2>6. HeldOK'
    <3>1. DOMAIN pending' = {}
      BY <2>1
    <3>3. recovering' \in BOOLEAN
      BY <2>1
    <3> QED BY <3>1, <3>3 DEF HeldOK, BufferedAhead, HeldOnlyInRecovery, Buffer0
  <2> QED BY <1>b, <2>3, <2>4, <2>5, <2>6, Parts, PTL
<1> QED BY <1>1, <1>2

LEMMA TickStep ==
  ASSUME IInv, UNCHANGED server, GiveUp \/ GiveUpEmpty \/ RetryRequest \/ TickIdle
  PROVE  [Feed!Next]_(Feed!vars) /\ IInv'
<1> USE StreamAssumption, TimeAssumption
<1>a. FeedPart /\ Fresh /\ Waiting /\ GapOK /\ HeldOK /\ FlagsOK
  BY Parts
<1>1. CASE GiveUp
  <2> DEFINE e == Least(DOMAIN pending)
  <2>1. expected # 0 /\ session # NoSession /\ session \in session .. MaxSession /\ expected \in 1 .. MaxSeq + 1
    BY <1>1, <1>a DEF GiveUp, Waiting, Fresh, FeedPart, SeqNo, NoSession
  <2>2. e \in DOMAIN pending
    <3>1. DOMAIN pending \subseteq Nat
      BY <1>a DEF HeldOK, Buffer0
    <3> QED BY <1>1, <3>1, LeastNatural DEF GiveUp
  <2>3. e \in SeqNo /\ expected < e /\ e <= e
    BY <2>2, <1>a DEF HeldOK, Buffer0, BufferedAhead, SeqNo, FeedPart
  <2>4. /\ Synced(session, expected) = expected /\ First0(session, expected) = first
        /\ Pending0(session) = pending /\ Lost0(session) = gapMessages /\ Expected0(session) = expected
        /\ Recovering0(session) = recovering
    BY <2>1, <1>a DEF Synced, First0, Pending0, Lost0, Expected0, Recovering0, HeldOK
  <2>5. /\ gapMessages' = gapMessages + (e - expected)
        /\ ApplyAndDrain(session, pending, recovering, e, e)
        /\ gapAge' = 0 /\ polling' = FALSE /\ session' = session /\ first' = first /\ ended' = ended
    BY <1>1 DEF GiveUp
  <2>6. gapAge' \in 0 .. GapTimeout + 1
    BY <2>5
  <2> HIDE DEF e
  <2>7. expected <= e
    BY <2>3, <1>a DEF SeqNo, FeedPart
  <2>8. Feed!Next /\ FeedOK' /\ GapOK' /\ HeldOK'
    BY <2>1, <2>3, <2>4, <2>5, <2>6, <2>7, DrainStep
  <2>9. FlagsOK'
    BY <1>a, <2>5 DEF FlagsOK
  <2> QED BY <2>8, <2>9, JoinInv, PTL
<1>2. CASE GiveUpEmpty \/ RetryRequest \/ TickIdle
  <2>1. UNCHANGED Feed!vars /\ UNCHANGED <<pending, ended>> /\ polling' = FALSE
    BY <1>2 DEF GiveUpEmpty, RetryRequest, TickIdle, Feed!vars, history
  <2>2. FeedPart' /\ Fresh'
    BY <1>a, <2>1, FeedUnchanged
  <2>3. recovering' \in BOOLEAN /\ (DOMAIN pending # {} => recovering') /\ (~ recovering => ~ recovering')
    <3>1. CASE GiveUpEmpty
      BY <3>1 DEF GiveUpEmpty
    <3>2. CASE RetryRequest \/ TickIdle
      <4>1. recovering' = recovering
        BY <3>2 DEF RetryRequest, TickIdle
      <4> QED BY <4>1, <1>a DEF HeldOK, HeldOnlyInRecovery
    <3> QED BY <1>2, <3>1, <3>2
  <2>4. HeldOK' /\ Waiting' /\ FlagsOK'
    BY <1>a, <2>1, <2>3 DEF HeldOK, Waiting, FlagsOK, Feed!vars, BufferedAhead, HeldOnlyInRecovery, Buffer0
  <2>5. GapOK'
    <3>1. CASE RetryRequest
      <4>1. reqAge' \in 0 .. Retry + 1 /\ request' \in [seq : SeqNo, count : SeqNo]
        BY <3>1, <1>a, RequestOK DEF RetryRequest, HeldOK, FeedPart, GapOK
      <4> QED BY <3>1, <4>1, <1>a DEF RetryRequest, GapOK, SeqNo
    <3>2. CASE GiveUpEmpty \/ TickIdle
      BY <3>2, <1>a DEF GiveUpEmpty, TickIdle, gapVars, GapOK, SeqNo
    <3> QED BY <1>2, <3>1, <3>2
  <2> QED BY <2>1, <2>2, <2>4, <2>5, Parts, PTL
<1> QED BY <1>1, <1>2

LEMMA ClockStep ==
  ASSUME IInv, UNCHANGED server, NEW d \in 1 .. GapTimeout + 1, Clock(d)
  PROVE  UNCHANGED Feed!vars /\ IInv'
<1> USE TimeAssumption
<1>a. FeedPart /\ Fresh /\ Waiting /\ GapOK /\ HeldOK /\ FlagsOK
  BY Parts
<1>1. UNCHANGED Feed!vars /\ UNCHANGED <<pending, recovering, ended, gapEnd, request>> /\ polling' = TRUE
  BY DEF Clock, Feed!vars
<1>2. FeedPart' /\ Fresh'
  BY <1>a, <1>1, FeedUnchanged
<1>3. \A age, limit \in Nat : age \in 0 .. limit + 1 => Until(age, d, limit) \in 0 .. limit + 1
  BY DEF Until
<1>4. GapOK'
  <2>1. gapAge' = Until(gapAge, d, GapTimeout) /\ reqAge' = Until(reqAge, d, Retry)
    BY DEF Clock
  <2>2. gapAge \in Nat /\ reqAge \in Nat
    BY <1>a DEF GapOK
  <2>3. gapAge' \in 0 .. GapTimeout + 1 /\ reqAge' \in 0 .. Retry + 1
    BY <1>a, <1>3, <2>1, <2>2 DEF GapOK
  <2> QED BY <1>a, <1>1, <2>3 DEF GapOK, SeqNo
<1>5. HeldOK' /\ Waiting' /\ FlagsOK'
  BY <1>a, <1>1 DEF HeldOK, Waiting, FlagsOK, Feed!vars, BufferedAhead, HeldOnlyInRecovery, Buffer0
<1> QED BY <1>1, <1>2, <1>4, <1>5, Parts, PTL

-----------------------------------------------------------------------------
LEMMA InitInv == Init => IInv /\ Feed!Init
<1> SUFFICES ASSUME Init PROVE IInv /\ Feed!Init
  OBVIOUS
<1> USE StreamAssumption, TimeAssumption, MaxSessionAssumption DEF Init
<1>1. applied \in Seq(SeqNo) /\ Len(applied) = 0
  BY EmptySeq
<1>2. InOrder /\ WithinSession /\ Accounted
  BY <1>1 DEF InOrder, WithinSession, Accounted, Feed!InOrder, Feed!WithinSession, Feed!Accounted
<1>3. FeedPart
  BY <1>1, <1>2 DEF FeedPart, SeqNo, NoSession
<1>6. Fresh /\ FlagsOK
  BY DEF Fresh, FlagsOK
<1>7. Waiting
  BY DEF Waiting
<1>4. GapOK
  BY DEF GapOK, SeqNo, NoRequest
<1>5. HeldOK
  <2>1. DOMAIN pending = {}
    OBVIOUS
  <2>3. recovering \in BOOLEAN
    OBVIOUS
  <2> QED BY <2>1, <2>3 DEF HeldOK, BufferedAhead, HeldOnlyInRecovery, Buffer0
<1> QED BY <1>3, <1>4, <1>5, <1>6, <1>7, Parts DEF Feed!Init

LEMMA StepInv == IInv /\ [Next]_vars => IInv' /\ [Feed!Next]_(Feed!vars)
<1> SUFFICES ASSUME IInv, [Next]_vars PROVE IInv' /\ [Feed!Next]_(Feed!vars)
  OBVIOUS
<1>0. UNCHANGED server
  BY DEF Next, vars, OnPacket, Tick, Clock
<1>1. CASE OnPacket
  <2>1. PICK s \in session .. MaxSession :
          /\ s # NoSession /\ polling /\ UNCHANGED <<server, polling>>
          /\ \/ EndOfSession(s)
             \/ \E seq \in 1 .. MaxSeq + 1 : Heartbeat(s, seq)
             \/ \E seq \in 1 .. MaxSeq, count \in 1 .. MaxCount :
                   seq + count <= MaxSeq + 1 /\ Data(s, seq, count)
    BY <1>1 DEF OnPacket
  <2>2. CASE EndOfSession(s)
    BY <1>0, <2>1, <2>2, EndStep
  <2>3. CASE \E seq \in 1 .. MaxSeq + 1 : Heartbeat(s, seq)
    BY <1>0, <2>1, <2>3, HeartbeatStep
  <2>4. CASE \E seq \in 1 .. MaxSeq, count \in 1 .. MaxCount :
               seq + count <= MaxSeq + 1 /\ Data(s, seq, count)
    BY <1>0, <2>1, <2>4, PacketStep
  <2> QED BY <2>1, <2>2, <2>3, <2>4
<1>2. CASE Tick
  BY <1>0, <1>2, TickStep DEF Tick
<1>3. CASE \E d \in 1 .. GapTimeout + 1 : Clock(d)
  BY <1>0, <1>3, ClockStep
<1>4. CASE UNCHANGED vars
  <2>1. UNCHANGED Feed!vars /\ UNCHANGED <<recovering, gapAge, gapEnd, reqAge, pending, ended, request, polling>>
    BY <1>4 DEF vars, Feed!vars
  <2>2. FeedPart' /\ Fresh'
    BY <2>1, FeedUnchanged, Parts
  <2>3. Waiting' /\ GapOK' /\ HeldOK' /\ FlagsOK'
    BY <1>0, <2>1, Parts DEF Waiting, GapOK, HeldOK, FlagsOK, Feed!vars, BufferedAhead, HeldOnlyInRecovery, Buffer0, SeqNo
  <2> QED BY <2>1, <2>2, <2>3, Parts, PTL
<1> QED BY <1>1, <1>2, <1>3, <1>4 DEF Next

\* The inductive invariant of the receiver holds for every stream, timeout,
\* request size and buffer limit: types, BufferedAhead, HeldOnlyInRecovery and
\* the three properties of the history.
THEOREM InductiveInvariant == Spec => []IInv
<1>1. Init => IInv
  BY InitInv
<1>2. IInv /\ [Next]_vars => IInv'
  BY StepInv
<1> QED BY <1>1, <1>2, PTL DEF Spec

\* on_packet(), drain() and tick() never give the book a message out of
\* sequence, nor one twice.
THEOREM BookInOrder == Spec => []InOrder
<1>1. IInv => InOrder
  BY DEF IInv
<1> QED BY <1>1, InductiveInvariant, PTL

\* Every message since the session was joined was applied or counted in
\* gap_messages.
THEOREM LossesCounted == Spec => []Accounted
<1>1. IInv => Accounted
  BY DEF IInv
<1> QED BY <1>1, InductiveInvariant, PTL

\* A packet is held back only while a gap is chased, so that tick() will
\* release it.
THEOREM HeldIsChased == Spec => []HeldOnlyInRecovery
<1>1. IInv => HeldOnlyInRecovery
  BY DEF IInv
<1> QED BY <1>1, InductiveInvariant, PTL

\* The receiver implements the ordered feed (the promise of sources.hpp:97-98).
THEOREM ReceiverIsOrderedFeed == Spec => RefinesOrderedFeed
<1>1. Init => Feed!Init
  BY InitInv
<1>2. IInv /\ [Next]_vars => [Feed!Next]_(Feed!vars)
  BY StepInv
<1> QED BY <1>1, <1>2, InductiveInvariant, PTL DEF Spec, RefinesOrderedFeed, Feed!Spec
=============================================================================
