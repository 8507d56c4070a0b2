----------------------------- MODULE FeedPoller -----------------------------
(***************************************************************************)
(* feeds/poller.cpp: one feed polled over several connections (lanes) by   *)
(* the net thread, and the items it puts into the engine's ring.           *)
(*                                                                         *)
(* The publisher is external: version v of the feed shows the Depth latest *)
(* items, number v the newest, and has v as its validator; a conditional   *)
(* GET with the current validator is answered 304.  Answers are composed   *)
(* when the request reaches the publisher and handled when they arrive, so *)
(* those of two lanes can overtake each other.  The rate limit, the poll   *)
(* period and the reconnect delays only postpone a request: a lane may     *)
(* fire at any moment it is ready.                                         *)
(***************************************************************************)
EXTENDS Naturals, Sequences

CONSTANTS Lane,
          Depth,       \* items on a page of the feed
          MaxVersion,  \* bound: items published in a behaviour
          RingCap,     \* slots of the engine's ring
          EmitBacklog, \* FeedSpec::emit_backlog: report what the feed shows at start-up
          Junk         \* items that fill_event() may reject

ASSUME PollerAssumption == /\ Depth \in Nat \ {0} /\ MaxVersion \in Nat \ {0} /\ RingCap \in Nat \ {0}
                           /\ Junk \subseteq 1 .. MaxVersion /\ EmitBacklog \in BOOLEAN

VARIABLES junk,      \* the items that fill_event() rejects
          pub,       \* external: the version the publisher shows
          lane,      \* lane -> state of its connection and its exchange
          etag,      \* Feed::etag, 0 for none
          seen,      \* Feed::seen
          primed,    \* Feed::primed
          backoff,   \* now < Feed::backoff_until
          page,      \* items of the document in hand still to be scanned
          scanning,  \* inside scan_feed()
          ring,      \* the engine's ring
          times,     \* history: how often each item entered the ring
          baseline,  \* history: what the priming document showed
          dropped,   \* history: items met with the ring full
          unread     \* history: items of documents that could not be decoded

feedVars == <<etag, seen, primed, backoff>>
scanVars == <<page, scanning>>
history == <<junk, times, baseline, dropped, unread>>
vars == <<junk, pub, lane, etag, seen, primed, backoff, page, scanning, ring, times, baseline, dropped, unread>>

Item == 1 .. MaxVersion
Shown(v) == {i \in Item : i <= v /\ i + Depth > v}
Newest(v) == [k \in 1 .. (IF v < Depth THEN v ELSE Depth) |-> v + 1 - k]

Status == {"none", "ok", "bad", "unchanged", "throttled", "error"}
NoAnswer == [status |-> "none", version |-> 0]
Off == [state |-> "down", sent |-> 0, answer |-> NoAnswer]

Init == /\ junk \in SUBSET Junk /\ pub = 1
        /\ lane = [l \in Lane |-> Off]
        /\ etag = 0 /\ seen = {} /\ primed = FALSE /\ backoff = FALSE
        /\ page = <<>> /\ scanning = FALSE /\ ring = <<>>
        /\ times = [i \in Item |-> 0] /\ baseline = {} /\ dropped = {} /\ unread = {}

-----------------------------------------------------------------------------
(* The publisher *)
PublishItem == /\ pub < MaxVersion
               /\ pub' = pub + 1
               /\ UNCHANGED <<lane, ring>> /\ UNCHANGED feedVars /\ UNCHANGED scanVars /\ UNCHANGED history

Answer(l, status) ==
  /\ lane[l].state = "waiting" /\ lane[l].answer = NoAnswer
  /\ lane[l].sent = pub => status \in {"unchanged", "throttled", "error"}
  /\ lane[l].sent # pub => status \in {"ok", "bad", "throttled", "error"}
  /\ lane' = [lane EXCEPT ![l].answer = [status |-> status, version |-> pub]]
  /\ UNCHANGED <<pub, ring>> /\ UNCHANGED feedVars /\ UNCHANGED scanVars /\ UNCHANGED history

-----------------------------------------------------------------------------
(* service_lane() and start_connect() *)
Connect(l) ==
  /\ ~ scanning /\ lane[l].state = "down"
  /\ lane' = [lane EXCEPT ![l].state = "connecting"]
  /\ UNCHANGED <<pub, ring>> /\ UNCHANGED feedVars /\ UNCHANGED scanVars /\ UNCHANGED history

\* A conditional GET with the validator stored now.
Fire(l) ==
  /\ ~ scanning /\ lane[l].state = "ready" /\ ~ backoff
  /\ lane' = [lane EXCEPT ![l] = [state |-> "waiting", sent |-> etag, answer |-> NoAnswer]]
  /\ UNCHANGED <<pub, ring>> /\ UNCHANGED feedVars /\ UNCHANGED scanVars /\ UNCHANGED history

(* on_lane_event() *)
Connected(l) ==
  /\ ~ scanning /\ lane[l].state = "connecting"
  /\ lane' = [lane EXCEPT ![l].state = "ready"]
  /\ UNCHANGED <<pub, ring>> /\ UNCHANGED feedVars /\ UNCHANGED scanVars /\ UNCHANGED history

\* Mutant: a connection that fails with a request out is not opened again.
ClosedLane(l) == IF lane[l].state = "waiting" THEN [lane[l] EXCEPT !.sent = 0, !.answer = [status |-> "none", version |-> 1]] ELSE Off
AfterClose(l) == Off

\* The connection fails, times out or is closed by the server; an answer on
\* its way is lost.
Closed(l) ==
  /\ ~ scanning /\ lane[l].state # "down"
  /\ lane' = [lane EXCEPT ![l] = AfterClose(l)]
  /\ UNCHANGED <<pub, ring>> /\ UNCHANGED feedVars /\ UNCHANGED scanVars /\ UNCHANGED history

\* recycle(): the connection is kept, unless the server asked to close it.
Recycle(l) == \E state \in {"ready", "down"} : lane' = [lane EXCEPT ![l] = [Off EXCEPT !.state = state]]

Answered(l, status) ==
  /\ ~ scanning /\ lane[l].state = "waiting" /\ lane[l].answer.status = status
  /\ Recycle(l)
  /\ UNCHANGED <<junk, pub, ring, seen, primed, times, baseline, dropped>>

NotModified(l) ==
  /\ Answered(l, "unchanged")
  /\ UNCHANGED <<etag, backoff, unread>> /\ UNCHANGED scanVars

HttpError(l) ==
  /\ Answered(l, "error")
  /\ UNCHANGED <<etag, backoff, unread>> /\ UNCHANGED scanVars

Throttled(l) ==
  /\ Answered(l, "throttled")
  /\ backoff' = TRUE
  /\ UNCHANGED <<etag, unread>> /\ UNCHANGED scanVars

\* The validator is stored before the document is looked at ...
BadPayload(l) ==
  /\ Answered(l, "bad")
  /\ etag' = lane[l].answer.version
  /\ unread' = unread \cup (Shown(etag') \ seen)
  /\ UNCHANGED backoff /\ UNCHANGED scanVars

\* ... and before it is scanned.
Document(l) ==
  /\ Answered(l, "ok")
  /\ etag' = lane[l].answer.version
  /\ page' = Newest(lane[l].answer.version) /\ scanning' = TRUE
  /\ UNCHANGED <<backoff, unread>>

-----------------------------------------------------------------------------
(* scan_feed()'s callback, one item at a time *)
ScanStep == /\ scanning /\ page # <<>>
            /\ page' = Tail(page)
            /\ UNCHANGED <<pub, lane, etag, primed, backoff, scanning>>

Known == /\ ScanStep /\ Head(page) \in seen
         /\ UNCHANGED <<seen, ring>> /\ UNCHANGED history

Reports == primed \/ EmitBacklog

\* Mutant: one event more than the ring has slots for.
FullLate == Len(ring) > RingCap
Full == Len(ring) = RingCap

\* The first document only tells what is old news.
Prime == /\ ScanStep /\ Head(page) \notin seen
         /\ ~ primed /\ ~ EmitBacklog
         /\ seen' = seen \cup {Head(page)}
         /\ baseline' = baseline \cup {Head(page)}
         /\ UNCHANGED <<junk, ring, times, dropped, unread>>

RingFull == /\ ScanStep /\ Head(page) \notin seen
            /\ Reports /\ Full
            /\ dropped' = dropped \cup {Head(page)}
            /\ UNCHANGED <<junk, seen, ring, times, baseline, unread>>

Rejected == /\ ScanStep /\ Head(page) \notin seen
            /\ Reports /\ ~ Full /\ Head(page) \in junk
            /\ seen' = seen \cup {Head(page)}
            /\ UNCHANGED ring /\ UNCHANGED history

\* Mutant: an item is remembered only if it is the newest on the page.
EmitForget == /\ ScanStep /\ Head(page) \notin seen
              /\ Reports /\ ~ Full /\ Head(page) \notin junk
              /\ ring' = Append(ring, Head(page))
              /\ times' = [times EXCEPT ![Head(page)] = @ + 1]
              /\ seen' = IF Len(page) = Depth THEN seen \cup {Head(page)} ELSE seen
              /\ UNCHANGED <<junk, baseline, dropped, unread>>

Emit == /\ ScanStep /\ Head(page) \notin seen
        /\ Reports /\ ~ Full /\ Head(page) \notin junk
        /\ ring' = Append(ring, Head(page))
        /\ times' = [times EXCEPT ![Head(page)] = @ + 1]
        /\ seen' = seen \cup {Head(page)}
        /\ UNCHANGED <<junk, baseline, dropped, unread>>

\* Mutant: the items met while priming are forgotten when it ends.
ScanEndEarly == /\ scanning /\ page = <<>>
                /\ scanning' = FALSE /\ primed' = TRUE
                /\ seen' = IF primed THEN seen ELSE {}
                /\ UNCHANGED <<pub, lane, etag, backoff, page, ring>> /\ UNCHANGED history
ScanEnd == /\ scanning /\ page = <<>>
           /\ scanning' = FALSE /\ primed' = TRUE
           /\ UNCHANGED <<pub, lane, etag, seen, backoff, page, ring>> /\ UNCHANGED history

Scan == Known \/ Prime \/ RingFull \/ Rejected \/ Emit \/ ScanEnd

(* The engine takes an event; the time of a backoff passes *)
Take == /\ ring # <<>> /\ ring' = Tail(ring)
        /\ UNCHANGED <<pub, lane>> /\ UNCHANGED feedVars /\ UNCHANGED scanVars /\ UNCHANGED history

BackoffOver == /\ backoff /\ backoff' = FALSE
               /\ UNCHANGED <<pub, lane, ring, etag, seen, primed>> /\ UNCHANGED scanVars /\ UNCHANGED history

-----------------------------------------------------------------------------
OnResponse(l) == NotModified(l) \/ HttpError(l) \/ Throttled(l) \/ BadPayload(l) \/ Document(l)
Reply(l) == \E status \in Status \ {"none"} : Answer(l, status)
Good(l) == \E status \in {"ok", "unchanged"} : Answer(l, status)

Next == \/ PublishItem \/ Take \/ BackoffOver \/ Scan
        \/ \E l \in Lane : Reply(l) \/ Connect(l) \/ Fire(l) \/ Connected(l) \/ Closed(l) \/ OnResponse(l)

Spec == Init /\ [][Next]_vars

\* The net and engine threads run; the network fails at times but lets a
\* connection, a request and a good answer through again and again.
FairSpec == /\ Spec
            /\ WF_vars(Scan) /\ WF_vars(Take) /\ WF_vars(BackoffOver)
            /\ WF_vars(\E l \in Lane : Connect(l)) /\ SF_vars(\E l \in Lane : Connected(l))
            /\ SF_vars(\E l \in Lane : Fire(l)) /\ SF_vars(\E l \in Lane : Good(l))
            /\ WF_vars(\E l \in Lane : OnResponse(l)) /\ SF_vars(\E l \in Lane : Document(l))

-----------------------------------------------------------------------------
Connection == [state : {"down", "connecting", "ready", "waiting"}, sent : 0 .. MaxVersion,
               answer : [status : Status, version : 0 .. MaxVersion]]

TypeOK == /\ junk \subseteq Item /\ pub \in Item /\ lane \in [Lane -> Connection] /\ etag \in 0 .. MaxVersion
          /\ seen \subseteq Item /\ primed \in BOOLEAN /\ backoff \in BOOLEAN
          /\ page \in Seq(Item) /\ scanning \in BOOLEAN
          /\ ring \in Seq(Item) /\ Len(ring) <= RingCap
          /\ times \in [Item -> Nat] /\ baseline \subseteq Item
          /\ dropped \subseteq Item /\ unread \subseteq Item

\* An item reaches the engine at most once, whichever lanes bring it and
\* however their answers overtake each other.
EmittedOnce == \A i \in Item : times[i] <= 1

\* With emit_backlog off, what the first document showed never reaches the
\* engine, whatever later documents repeat of it.
NoBacklog == \A i \in baseline : times[i] = 0

\* What EmittedOnce and NoBacklog rest on: what was reported, and what the
\* priming document showed, is in the seen set.
Remembered == /\ \A i \in Item : times[i] = 1 => i \in seen
              /\ baseline \subseteq seen
IInv == TypeOK /\ EmittedOnce /\ NoBacklog /\ Remembered

\* A new item on the feed is reported, rejected, or has scrolled off, unless it
\* was met with the ring full or in a document that could not be read.
NewsReported ==
  \A i \in Item : (primed /\ i \in Shown(pub)) ~> (i \in seen \cup dropped \cup unread \/ i \notin Shown(pub))

\* "engine ring full: not marked seen, retried next poll" (poller.cpp:342).
DroppedIsRetried == \A i \in Item : (i \in dropped) ~> (i \in seen \/ i \notin Shown(pub))
=============================================================================
