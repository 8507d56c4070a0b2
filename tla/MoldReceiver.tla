---------------------------- MODULE MoldReceiver ----------------------------
(***************************************************************************)
(* market/sources.hpp, class MoldUdp64Receiver: the multicast receiver     *)
(* that turns a lossy, duplicating, reordering packet stream into the      *)
(* in-sequence messages the order book and the recorder are given.         *)
(*                                                                         *)
(* The network is the choice of packet: any packet of the session, in any  *)
(* order and any number of times, which covers loss, duplication,          *)
(* reordering and the re-request server's replies (they come in through    *)
(* the same socket).  Packets are well formed and of the session followed  *)
(* or a later one.  Times are ages, in steps of the clock, that stop at    *)
(* the first value past their limit.                                       *)
(***************************************************************************)
EXTENDS Integers, Sequences, FiniteSets

CONSTANTS MaxSession,   \* bound: sessions are 1 .. MaxSession
          MaxSeq,       \* bound: last sequence number of a session
          MaxCount,     \* bound: messages per packet
          GapTimeout,   \* gap_timeout_ms
          Retry,        \* retry_ms
          MaxRequest,   \* max_request
          MaxBuffered   \* max_buffered

ASSUME MaxSessionAssumption == MaxSession \in Nat
ASSUME StreamAssumption == MaxSeq \in Nat \ {0} /\ MaxCount \in Nat \ {0}
ASSUME TimeAssumption == GapTimeout \in Nat /\ Retry \in Nat
ASSUME LimitAssumption == MaxRequest \in Nat \ {0} /\ MaxBuffered \in Nat

NoSession == 0
NoRequest == [seq |-> 0, count |-> 0]

VARIABLES server,      \* a re-request server is configured (request_fn_)
          session,     \* session_
          expected,    \* expected_seq_, 0 = take the next packet's
          recovering,  \* recovering_
          gapAge,      \* now - gap_since_
          gapEnd,      \* gap_end_
          reqAge,      \* now - last_request_
          pending,     \* pending_: sequence number -> message count
          ended,       \* ended_
          request,     \* the last range asked of the re-request server
          polling,     \* inside poll(), which reads the clock once
          gapMessages, \* st_.gap_messages, of this session
          first,       \* history: where this session was joined
          applied      \* history: messages decoded, in this session

gapVars == <<gapAge, gapEnd, reqAge, request>>
history == <<first, applied>>
vars == <<server, session, expected, recovering, gapAge, gapEnd, reqAge, pending, ended,
          request, polling, gapMessages, first, applied>>

Feed == INSTANCE OrderedFeed WITH
          Session <- 1 .. MaxSession, SeqNo <- 0 .. MaxSeq + 1, next <- expected, lost <- gapMessages

Init == /\ server \in BOOLEAN
        /\ session = NoSession /\ expected = 0
        /\ recovering = FALSE /\ pending = <<>>
        /\ gapAge = 0 /\ gapEnd = 0 /\ reqAge = 0
        /\ ended = FALSE /\ request = NoRequest /\ polling = FALSE
        /\ gapMessages = 0 /\ first = 0 /\ applied = <<>>

-----------------------------------------------------------------------------
(* Helpers *)

Least(S) == CHOOSE x \in S : \A y \in S : x <= y

\* on_packet() of a session not seen before forgets the old one.
Expected0(s) == IF s = session THEN expected ELSE 0
Pending0(s) == IF s = session THEN pending ELSE <<>>
Recovering0(s) == s = session /\ recovering
Applied0(s) == IF s = session THEN applied ELSE <<>>
Lost0(s) == IF s = session THEN gapMessages ELSE 0

\* if (expected_seq_ == 0) expected_seq_ = seq
Synced(s, seq) == IF Expected0(s) = 0 THEN seq ELSE Expected0(s)
First0(s, seq) == IF Expected0(s) = 0 THEN seq ELSE first

\* pending_.emplace(): an occupied place keeps its packet, a full map too.
Emplace(p, seq, count) ==
  IF seq \in DOMAIN p \/ Cardinality(DOMAIN p) >= MaxBuffered
  THEN p
  ELSE [k \in DOMAIN p \cup {seq} |-> IF k = seq THEN count ELSE p[k]]

\* request_gap(): asks for the range up to the first buffered packet, or up
\* to the end the gap was opened with, when nothing is buffered.
RequestGap(p, e, end0) ==
  LET end == IF DOMAIN p = {} THEN end0 ELSE Least(DOMAIN p)
  IN IF end <= e
     THEN UNCHANGED <<request, reqAge>>
     ELSE /\ request' = [seq |-> e, count |-> IF end - e < MaxRequest THEN end - e ELSE MaxRequest]
          /\ reqAge' = 0

\* The opening of a gap, by a packet or a heartbeat of sequence seq.
OpenGap(p, e, seq) ==
  /\ recovering' = TRUE
  /\ gapAge' = 0
  /\ gapEnd' = seq
  /\ RequestGap(p, e, seq)

\* drain() plays the buffered packets that start at or before `expected'.
\* Where it stops: the least point no such packet reaches beyond.
Reached(p, e) == \A k \in DOMAIN p : k <= e => k + p[k] <= e
\* Mutant: drain() stops after one packet.
DrainToOne(p, e) ==
  LET ends == {k + p[k] : k \in {k \in DOMAIN p : k <= e /\ k + p[k] > e}}
  IN IF ends = {} THEN e ELSE Least(ends)
DrainTo(p, e) == CHOOSE d \in e .. MaxSeq + 1 :
                   Reached(p, d) /\ \A c \in e .. d - 1 : ~ Reached(p, c)
\* Mutant: the packets played stay in the buffer.
BeyondAll(p, e) == p
Beyond(p, e) == [k \in {k \in DOMAIN p : k > e} |-> p[k]]

\* Mutant: every drain ends the recovery, with packets still held.
ApplyAndDrainEnds(s, p, rec, a, b) ==
  LET d == DrainTo(p, b)
  IN /\ applied' = Applied0(s) \o Feed!Run(a, d)
     /\ expected' = d /\ pending' = Beyond(p, d) /\ recovering' = FALSE
     /\ UNCHANGED <<request, reqAge, gapEnd>>

\* Messages a .. b - 1 are decoded, then drain() runs with the buffer p.
ApplyAndDrain(s, p, rec, a, b) ==
  LET d == DrainTo(p, b)
      rest == Beyond(p, d)
  IN /\ applied' = Applied0(s) \o Feed!Run(a, d)
     /\ expected' = d
     /\ pending' = rest
     /\ recovering' = (rec /\ DOMAIN rest # {})
     /\ IF rec /\ DOMAIN rest # {} THEN RequestGap(rest, d, gapEnd) ELSE UNCHANGED <<request, reqAge>>
     /\ UNCHANGED gapEnd

-----------------------------------------------------------------------------
(* on_packet(): the kinds of packet *)

EndOfSession(s) ==
  /\ session' = s
  /\ expected' = Expected0(s) /\ pending' = Pending0(s) /\ recovering' = Recovering0(s)
  /\ gapMessages' = Lost0(s) /\ applied' = Applied0(s)
  /\ first' = IF s = session THEN first ELSE 0
  /\ ended' = TRUE
  /\ UNCHANGED gapVars

\* Mutant: a heartbeat moves the receiver on, past a gap.
HeartbeatMoves(s, seq) ==
  /\ session' = s
  /\ expected' = (IF seq > Synced(s, seq) THEN seq ELSE Synced(s, seq))
  /\ first' = First0(s, seq)
  /\ pending' = Pending0(s) /\ gapMessages' = Lost0(s) /\ applied' = Applied0(s)
  /\ recovering' = Recovering0(s)
  /\ UNCHANGED gapVars /\ UNCHANGED ended

\* A packet without messages announces the next sequence number.
Heartbeat(s, seq) ==
  /\ session' = s
  /\ expected' = Synced(s, seq)
  /\ first' = First0(s, seq)
  /\ pending' = Pending0(s) /\ gapMessages' = Lost0(s) /\ applied' = Applied0(s)
  /\ IF seq > Synced(s, seq) /\ server /\ ~ Recovering0(s)
     THEN OpenGap(Pending0(s), Synced(s, seq), seq)
     ELSE recovering' = Recovering0(s) /\ UNCHANGED gapVars
  /\ UNCHANGED ended

\* Everything in the packet has been seen.
Duplicate(s, seq, count) ==
  /\ seq + count <= Synced(s, seq)
  /\ session' = s
  /\ expected' = Synced(s, seq) /\ first' = First0(s, seq)
  /\ pending' = Pending0(s) /\ recovering' = Recovering0(s)
  /\ gapMessages' = Lost0(s) /\ applied' = Applied0(s)
  /\ UNCHANGED gapVars /\ UNCHANGED ended

\* Without a re-request server a gap is counted and skipped.
SkipGap(s, seq, count) ==
  /\ seq > Synced(s, seq)
  /\ ~ server
  /\ session' = s
  /\ first' = First0(s, seq)
  /\ gapMessages' = Lost0(s) + (seq - Synced(s, seq))
  /\ applied' = Applied0(s) \o Feed!Run(seq, seq + count)
  /\ expected' = seq + count
  /\ pending' = Pending0(s) /\ recovering' = Recovering0(s)
  /\ UNCHANGED gapVars /\ UNCHANGED ended

\* With one, the packet is held back and the first one opens the gap.
Buffer(s, seq, count) ==
  /\ seq > Synced(s, seq)
  /\ server
  /\ session' = s
  /\ expected' = Synced(s, seq) /\ first' = First0(s, seq)
  /\ gapMessages' = Lost0(s) /\ applied' = Applied0(s)
  /\ pending' = Emplace(Pending0(s), seq, count)
  /\ IF Recovering0(s)
     THEN recovering' = TRUE /\ UNCHANGED gapVars
     ELSE OpenGap(Emplace(Pending0(s), seq, count), Synced(s, seq), seq)
  /\ UNCHANGED ended

\* Mutant: the whole packet is decoded, its known part too.
ApplyNoSkip(s, seq, count) ==
  /\ seq <= Synced(s, seq) /\ Synced(s, seq) < seq + count
  /\ session' = s /\ first' = First0(s, seq)
  /\ ApplyAndDrain(s, Pending0(s), Recovering0(s), seq, seq + count)
  /\ gapMessages' = Lost0(s)
  /\ UNCHANGED <<gapAge, ended>>

\* The packet holds the expected message: its new part is decoded.
Apply(s, seq, count) ==
  /\ seq <= Synced(s, seq)
  /\ Synced(s, seq) < seq + count
  /\ session' = s
  /\ first' = First0(s, seq)
  /\ ApplyAndDrain(s, Pending0(s), Recovering0(s), Synced(s, seq), seq + count)
  /\ gapMessages' = Lost0(s)
  /\ UNCHANGED <<gapAge, ended>>

-----------------------------------------------------------------------------
(* tick(), at the end of poll() *)

\* Mutant: the give-up forgets to drain what it skipped to.
GiveUpNoDrain ==
  /\ recovering /\ gapAge > GapTimeout
  /\ DOMAIN pending # {}
  /\ gapMessages' = gapMessages + (Least(DOMAIN pending) - expected)
  /\ expected' = Least(DOMAIN pending)
  /\ gapAge' = 0 /\ polling' = FALSE
  /\ UNCHANGED <<session, first, ended, recovering, pending, applied, gapEnd, reqAge, request>>

\* Mutant: the messages given up are not counted.
GiveUpUncounted ==
  /\ recovering /\ gapAge > GapTimeout
  /\ DOMAIN pending # {}
  /\ ApplyAndDrain(session, pending, recovering, Least(DOMAIN pending), Least(DOMAIN pending))
  /\ gapAge' = 0 /\ polling' = FALSE
  /\ UNCHANGED <<session, first, ended, gapMessages>>

\* The gap was not filled in time: lose it and go on with what is buffered.
GiveUp ==
  /\ recovering /\ gapAge > GapTimeout
  /\ DOMAIN pending # {}
  /\ LET e == Least(DOMAIN pending)
     IN /\ gapMessages' = gapMessages + (e - expected)
        /\ ApplyAndDrain(session, pending, recovering, e, e)
  /\ gapAge' = 0
  /\ polling' = FALSE
  /\ UNCHANGED <<session, first, ended>>

\* Mutant: an empty gap goes on being chased.
GiveUpEmptyNever ==
  /\ recovering /\ gapAge > GapTimeout
  /\ DOMAIN pending = {}
  /\ gapAge' = 0 /\ polling' = FALSE
  /\ UNCHANGED <<session, expected, recovering, pending, ended, gapMessages, gapEnd, reqAge, request>>
  /\ UNCHANGED history

\* Nothing is buffered: a gap known from a heartbeat only is left open.
GiveUpEmpty ==
  /\ recovering /\ gapAge > GapTimeout
  /\ DOMAIN pending = {}
  /\ recovering' = FALSE
  /\ polling' = FALSE
  /\ UNCHANGED <<session, expected, pending, ended, gapMessages>>
  /\ UNCHANGED gapVars /\ UNCHANGED history

\* The request is repeated every retry_ms while the gap is open.
RetryRequest ==
  /\ recovering /\ gapAge <= GapTimeout
  /\ reqAge > Retry
  /\ RequestGap(pending, expected, gapEnd)
  /\ polling' = FALSE
  /\ UNCHANGED <<session, expected, recovering, gapAge, gapEnd, pending, ended, gapMessages>>
  /\ UNCHANGED history

TickIdle ==
  /\ recovering => gapAge <= GapTimeout /\ reqAge <= Retry
  /\ polling' = FALSE
  /\ UNCHANGED <<session, expected, recovering, pending, ended, gapMessages>>
  /\ UNCHANGED gapVars /\ UNCHANGED history

\* Between two polls time passes; the next poll() reads the clock.
Until(age, d, limit) == IF age + d > limit THEN limit + 1 ELSE age + d
Clock(d) ==
  /\ ~ polling
  /\ gapAge' = Until(gapAge, d, GapTimeout)
  /\ reqAge' = Until(reqAge, d, Retry)
  /\ polling' = TRUE
  /\ UNCHANGED <<server, session, expected, recovering, gapEnd, pending, ended, request, gapMessages, first, applied>>

-----------------------------------------------------------------------------
Data(s, seq, count) == \/ Duplicate(s, seq, count) \/ SkipGap(s, seq, count)
                       \/ Buffer(s, seq, count) \/ Apply(s, seq, count)

OnPacket == \E s \in session .. MaxSession :
              /\ s # NoSession /\ polling /\ UNCHANGED <<server, polling>>
              /\ \/ EndOfSession(s)
                 \/ \E seq \in 1 .. MaxSeq + 1 : Heartbeat(s, seq)
                 \/ \E seq \in 1 .. MaxSeq, count \in 1 .. MaxCount :
                       seq + count <= MaxSeq + 1 /\ Data(s, seq, count)

Tick == polling /\ UNCHANGED server /\ (GiveUp \/ GiveUpEmpty \/ RetryRequest \/ TickIdle)

Next == OnPacket \/ Tick \/ \E d \in 1 .. GapTimeout + 1 : Clock(d)

Spec == Init /\ [][Next]_vars

\* The market thread polls for ever and time does not stop; no packet is ever
\* promised.
FairSpec == Spec /\ WF_vars(Tick) /\ WF_vars(Clock(1))

-----------------------------------------------------------------------------
SeqNo == 0 .. MaxSeq + 1

TypeOK ==
  /\ server \in BOOLEAN /\ session \in 0 .. MaxSession
  /\ expected \in SeqNo /\ first \in SeqNo /\ gapEnd \in SeqNo
  /\ recovering \in BOOLEAN /\ ended \in BOOLEAN /\ polling \in BOOLEAN
  /\ gapAge \in 0 .. GapTimeout + 1
  /\ reqAge \in 0 .. Retry + 1
  /\ DOMAIN pending \subseteq 1 .. MaxSeq
  /\ \A k \in DOMAIN pending : pending[k] \in 1 .. MaxCount /\ k + pending[k] <= MaxSeq + 1
  /\ request \in [seq : SeqNo, count : SeqNo]
  /\ gapMessages \in Nat
  /\ applied \in Seq(SeqNo)

\* What is held back is ahead of the book, so a drain can never take the
\* stream backwards; and a packet is only held back while a gap is chased:
\* tick() returns at once when recovering_ is false, and a buffered packet
\* left over then would never be played.
BufferedAhead == \A k \in DOMAIN pending : k > expected
HeldOnlyInRecovery == DOMAIN pending # {} => recovering /\ server

\* In sequence, no message twice, none lost without being counted in
\* gap_messages: whatever the network drops, repeats or reorders.
InOrder == Feed!InOrder
WithinSession == Feed!WithinSession
Accounted == Feed!Accounted

\* Part of the inductive invariant: a receiver that has not synced holds
\* nothing.
Unsynced == /\ expected = 0 => first = 0 /\ applied = <<>> /\ gapMessages = 0
                               /\ DOMAIN pending = {} /\ ~ recovering
            /\ expected # 0 => 0 < first /\ first <= expected
            /\ session = NoSession => expected = 0

\* The inductive invariant behind them.
IInv == /\ TypeOK /\ BufferedAhead /\ HeldOnlyInRecovery /\ Unsynced
        /\ InOrder /\ WithinSession /\ Accounted

\* "replays everything strictly in sequence once the gap is filled, so the
\* order book never sees messages out of order" (sources.hpp:97-98).
RefinesOrderedFeed == Feed!Spec

\* No gap holds the stream up for ever, even if the re-request server never
\* answers: every message known to exist is passed, as a book update or as a
\* counted loss.
HeldIsReleased ==
  \A k \in 1 .. MaxSeq, s \in 1 .. MaxSession :
    (session = s /\ k \in DOMAIN pending) ~> (session # s \/ expected > k)
RecoveryEnds == recovering ~> ~ recovering

\* A gap never holds the stream up for good: what is held is released, and the
\* recovery ends, with or without an answer (sources.hpp:288).
RecoverySettles == HeldIsReleased /\ RecoveryEnds
=============================================================================
