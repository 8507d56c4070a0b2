-------------------------- MODULE FeedPollerProofs --------------------------
(***************************************************************************)
(* The feed poller.  For any number of lanes, any page depth, ring size    *)
(* and run of items: an item reaches the engine at most once and the       *)
(* backlog never does.                                                     *)
(***************************************************************************)
EXTENDS FeedPoller, TLAPS

USE PollerAssumption

\* The items of a page, whatever version it was composed from, are items.
LEMMA NewestType == ASSUME NEW v \in 0 .. MaxVersion PROVE Newest(v) \in Seq(Item)
<1> DEFINE n == IF v < Depth THEN v ELSE Depth
<1>1. n \in Nat /\ n <= v
  OBVIOUS
<1>2. \A k \in 1 .. n : v + 1 - k \in Item
  BY <1>1 DEF Item
<1>3. Newest(v) = [k \in 1 .. n |-> v + 1 - k]
  BY DEF Newest
<1> HIDE DEF n
<1> QED
  BY <1>1, <1>2, <1>3

LEMMA InitIInv == Init => IInv
<1> SUFFICES ASSUME Init PROVE IInv
  OBVIOUS
<1>1. TypeOK
  <2>1. Off \in Connection
    BY DEF Connection, Off, NoAnswer, Status
  <2>2. lane \in [Lane -> Connection]
    BY <2>1 DEF Init
  <2>3. pub \in Item /\ times \in [Item -> Nat] /\ page \in Seq(Item) /\ ring \in Seq(Item) /\ Len(ring) <= RingCap
    BY DEF Init, Item
  <2>4. junk \subseteq Item /\ etag \in 0 .. MaxVersion /\ seen \subseteq Item /\ baseline \subseteq Item
        /\ dropped \subseteq Item /\ unread \subseteq Item
    BY DEF Init, Item
  <2>5. primed \in BOOLEAN /\ backoff \in BOOLEAN /\ scanning \in BOOLEAN
    BY DEF Init
  <2> QED
    BY <2>2, <2>3, <2>4, <2>5 DEF TypeOK
<1>2. EmittedOnce /\ NoBacklog /\ Remembered
  BY DEF Init, EmittedOnce, NoBacklog, Remembered, Item
<1> QED
  BY <1>1, <1>2 DEF IInv

\* A step that leaves the seen set, the ring and the histories of emission
\* alone keeps the invariant when it keeps the types.
LEMMA Untouched ==
  ASSUME IInv, TypeOK', UNCHANGED <<seen, times, baseline>> PROVE IInv'
BY DEF IInv, EmittedOnce, NoBacklog, Remembered

\* The steps of lanes and of the publisher change neither.
LEMMA LaneStep ==
  ASSUME IInv, NEW l \in Lane,
         Reply(l) \/ Connect(l) \/ Fire(l) \/ Connected(l) \/ Closed(l) \/ OnResponse(l)
  PROVE  IInv'
<1> USE DEF history, feedVars, scanVars
<1>0. TypeOK /\ lane[l] \in Connection /\ Off \in Connection /\ lane[l].answer.version \in 0 .. MaxVersion
  BY DEF IInv, TypeOK, Connection, Off, NoAnswer, Status
<1>1. CASE Reply(l)
  <2>1. PICK status \in Status \ {"none"} : Answer(l, status)
    BY <1>1 DEF Reply
  <2>2. [lane[l] EXCEPT !.answer = [status |-> status, version |-> pub]] \in Connection
    <3>1. pub \in 0 .. MaxVersion
      BY <1>0 DEF TypeOK, Item
    <3> QED
      BY <1>0, <3>1 DEF Connection
  <2>3. TypeOK'
    BY <1>0, <2>1, <2>2 DEF Answer, TypeOK
  <2> QED
    BY <2>1, <2>3, Untouched DEF Answer
<1>2. CASE Connect(l) \/ Connected(l) \/ Closed(l) \/ Fire(l)
  <2>0. PICK c \in Connection : lane' = [lane EXCEPT ![l] = c]
    <3>1. \A state \in {"connecting", "ready"} : [lane[l] EXCEPT !.state = state] \in Connection
      BY <1>0 DEF Connection
    <3>2. [state |-> "waiting", sent |-> etag, answer |-> NoAnswer] \in Connection
      BY <1>0 DEF Connection, TypeOK, NoAnswer, Status
    <3> QED
      BY <1>0, <1>2, <3>1, <3>2 DEF Connect, Connected, Closed, Fire, AfterClose
  <2>1. lane' \in [Lane -> Connection]
    BY <1>0, <2>0 DEF TypeOK
  <2>2. TypeOK'
    BY <1>0, <1>2, <2>1 DEF Connect, Connected, Closed, Fire, TypeOK
  <2> QED
    BY <1>2, <2>2, Untouched DEF Connect, Connected, Closed, Fire
<1>3. ASSUME NEW status \in Status, Answered(l, status)
      PROVE  lane' \in [Lane -> Connection] /\ UNCHANGED <<junk, pub, ring, seen, primed, times, baseline, dropped>>
  <2>1. \A state \in {"ready", "down"} : [Off EXCEPT !.state = state] \in Connection
    BY <1>0 DEF Connection
  <2>2. lane' \in [Lane -> Connection]
    BY <1>0, <1>3, <2>1 DEF Answered, Recycle, TypeOK
  <2> QED
    BY <1>3, <2>2 DEF Answered
<1>4. CASE NotModified(l) \/ HttpError(l) \/ Throttled(l)
  <2>1. /\ lane' \in [Lane -> Connection]
        /\ UNCHANGED <<junk, pub, ring, seen, primed, times, baseline, dropped, etag, page, scanning, unread>>
        /\ backoff' \in BOOLEAN
    BY <1>0, <1>3, <1>4 DEF NotModified, HttpError, Throttled, Status, TypeOK
  <2>2. TypeOK'
    BY <1>0, <2>1 DEF TypeOK
  <2> QED
    BY <2>1, <2>2, Untouched
<1>5. CASE BadPayload(l)
  <2>1. /\ lane' \in [Lane -> Connection]
        /\ UNCHANGED <<junk, pub, ring, seen, primed, times, baseline, dropped, backoff, page, scanning>>
        /\ etag' \in 0 .. MaxVersion /\ unread' \subseteq Item
    BY <1>0, <1>3, <1>5 DEF BadPayload, Status, TypeOK, Shown
  <2>2. TypeOK'
    BY <1>0, <2>1 DEF TypeOK
  <2> QED
    BY <2>1, <2>2, Untouched
<1>6. CASE Document(l)
  <2>1. /\ lane' \in [Lane -> Connection]
        /\ UNCHANGED <<junk, pub, ring, seen, primed, times, baseline, dropped, backoff, unread>>
        /\ etag' \in 0 .. MaxVersion /\ scanning' = TRUE /\ page' \in Seq(Item)
    BY <1>0, <1>3, <1>6, NewestType DEF Document, Status
  <2>2. TypeOK'
    BY <1>0, <2>1 DEF TypeOK
  <2> QED
    BY <2>1, <2>2, Untouched
<1> QED
  BY <1>1, <1>2, <1>4, <1>5, <1>6 DEF OnResponse

\* Scanning: an item enters the ring only when it is not in the seen set, and
\* is in it afterwards.
LEMMA ScanKeepsIInv == ASSUME IInv, Scan PROVE IInv'
<1> USE DEF history
<1>0. TypeOK /\ EmittedOnce /\ NoBacklog /\ Remembered
  BY DEF IInv
<1>1. ASSUME ScanStep
      PROVE  /\ Head(page) \in Item /\ page' \in Seq(Item)
             /\ UNCHANGED <<pub, lane, etag, primed, backoff, scanning>>
  BY <1>0, <1>1 DEF ScanStep, TypeOK
<1>2. CASE Known
  <2>1. TypeOK'
    BY <1>0, <1>1, <1>2 DEF Known, TypeOK
  <2> QED
    BY <1>2, <2>1, Untouched DEF Known
<1>3. CASE RingFull
  <2>1. TypeOK'
    BY <1>0, <1>1, <1>3 DEF RingFull, TypeOK
  <2> QED
    BY <1>3, <2>1, Untouched DEF RingFull
<1>4. CASE Prime
  <2>1. TypeOK'
    BY <1>0, <1>1, <1>4 DEF Prime, TypeOK
  <2>2. EmittedOnce' /\ Remembered'
    BY <1>0, <1>4 DEF Prime, EmittedOnce, Remembered
  <2>3. times[Head(page)] = 0
    <3>1. Head(page) \in Item /\ Head(page) \notin seen /\ times \in [Item -> Nat]
      BY <1>0, <1>1, <1>4 DEF Prime, TypeOK
    <3> QED
      BY <1>0, <3>1 DEF EmittedOnce, Remembered
  <2>4. NoBacklog'
    BY <1>0, <1>4, <2>3 DEF Prime, NoBacklog
  <2> QED
    BY <2>1, <2>2, <2>4 DEF IInv
<1>5. CASE Rejected
  <2>1. TypeOK'
    BY <1>0, <1>1, <1>5 DEF Rejected, TypeOK
  <2>2. EmittedOnce' /\ Remembered' /\ NoBacklog'
    BY <1>0, <1>5 DEF Rejected, EmittedOnce, Remembered, NoBacklog
  <2> QED
    BY <2>1, <2>2 DEF IInv
<1>6. CASE Emit
  <2> DEFINE i == Head(page)
  <2>0. i \in Item /\ i \notin seen /\ times \in [Item -> Nat]
    BY <1>0, <1>1, <1>6 DEF Emit, TypeOK
  <2>1. times[i] = 0 /\ i \notin baseline
    BY <1>0, <2>0 DEF EmittedOnce, Remembered
  <2>2. times' \in [Item -> Nat] /\ times'[i] = 1 /\ \A j \in Item \ {i} : times'[j] = times[j]
    BY <1>6, <2>0, <2>1 DEF Emit
  <2>3. ring' \in Seq(Item) /\ Len(ring') <= RingCap
    BY <1>0, <1>6, <2>0 DEF Emit, Full, TypeOK
  <2>4. seen' = seen \cup {i} /\ UNCHANGED <<junk, baseline, dropped, unread>>
    BY <1>6 DEF Emit
  <2>5. TypeOK'
    BY <1>0, <1>1, <1>6, <2>0, <2>2, <2>3, <2>4 DEF Emit, TypeOK
  <2> HIDE DEF i
  <2>6. EmittedOnce' /\ Remembered'
    BY <1>0, <2>0, <2>2, <2>4 DEF EmittedOnce, Remembered
  <2>7. baseline \subseteq Item
    BY <1>0 DEF TypeOK
  <2>8. NoBacklog'
    BY <1>0, <2>1, <2>2, <2>4, <2>7 DEF NoBacklog
  <2> QED
    BY <2>5, <2>6, <2>8 DEF IInv
<1>7. CASE ScanEnd
  <2>1. TypeOK'
    BY <1>0, <1>7 DEF ScanEnd, TypeOK
  <2> QED
    BY <1>7, <2>1, Untouched DEF ScanEnd
<1> QED
  BY <1>2, <1>3, <1>4, <1>5, <1>6, <1>7 DEF Scan

LEMMA NextIInv == IInv /\ [Next]_vars => IInv'
<1> USE DEF history, feedVars, scanVars
<1> SUFFICES ASSUME IInv, [Next]_vars PROVE IInv'
  OBVIOUS
<1>0. TypeOK
  BY DEF IInv
<1>1. CASE PublishItem
  <2>1. TypeOK'
    BY <1>0, <1>1 DEF PublishItem, TypeOK, Item
  <2> QED
    BY <1>1, <2>1, Untouched DEF PublishItem
<1>2. CASE Take
  <2>1. TypeOK'
    BY <1>0, <1>2 DEF Take, TypeOK
  <2> QED
    BY <1>2, <2>1, Untouched DEF Take
<1>3. CASE BackoffOver
  <2>1. TypeOK'
    BY <1>0, <1>3 DEF BackoffOver, TypeOK
  <2> QED
    BY <1>3, <2>1, Untouched DEF BackoffOver
<1>4. CASE UNCHANGED vars
  <2>1. TypeOK'
    BY <1>0, <1>4 DEF vars, TypeOK
  <2> QED
    BY <1>4, <2>1, Untouched DEF vars
<1> QED
  BY <1>1, <1>2, <1>3, <1>4, ScanKeepsIInv, LaneStep DEF Next

\* The inductive invariant of the poller.
THEOREM InductiveInvariant == Spec => []IInv
BY InitIInv, NextIInv, PTL DEF Spec

\* However the lanes' answers overtake each other, on_response() puts an item
\* into the engine's ring at most once.
THEOREM ItemsEmittedOnce == Spec => []EmittedOnce
<1>1. IInv => EmittedOnce
  BY DEF IInv
<1> QED
  BY <1>1, InductiveInvariant, PTL

\* What the priming document showed is never put into the ring.
THEOREM BacklogNotEmitted == Spec => []NoBacklog
<1>1. IInv => NoBacklog
  BY DEF IInv
<1> QED
  BY <1>1, InductiveInvariant, PTL
=============================================================================
