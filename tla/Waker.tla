-------------------------------- MODULE Waker --------------------------------
(***************************************************************************)
(* core/waker.hpp: the sleep/wake protocol between the producers of a      *)
(* thread's rings and the thread, with the loop that uses it (Engine::run; *)
(* AlertSink::run and Journal::run are the case of one ring).              *)
(*                                                                         *)
(* Relaxed and release stores go through a store buffer of the storing     *)
(* thread and become visible later; a seq_cst fence waits for the buffer   *)
(* to empty.  A ring is its head index, as its producer wrote it and as    *)
(* memory has it, and its tail.  ppoll() may also return because its       *)
(* timeout expires.                                                        *)
(***************************************************************************)
EXTENDS Integers, Sequences

CONSTANTS N,         \* the rings, 1 .. N, in the order the loop looks at them
          MaxItems   \* bound: events each producer ever publishes

ASSUME NAssumption == N \in Nat \ {0}
ASSUME MaxItemsAssumption == MaxItems \in Nat

Ring == 1 .. N

VARIABLES pub,       \* ring -> head index its producer has stored
          head,      \* ring -> head index in memory
          tail,      \* ring -> tail index
          producer,  \* ring -> where its producer is
          sleeping,  \* sleeping_ in memory
          buffer,    \* the consumer's stores to sleeping_ not yet visible
          signalled, \* the eventfd's counter is not zero
          consumer,  \* where the consumer is
          at,        \* the ring it is looking at
          did,       \* did: this pass found an event
          stop,      \* the stop flag
          main       \* where the thread that stops the consumer is

ringVars == <<pub, head, tail, producer>>
sleepVars == <<sleeping, buffer>>
stopVars == <<stop, main>>
wakerVars == <<pub, head, tail, producer, sleeping, buffer, signalled, consumer, at, did, stop, main>>

WakerInit == /\ pub = [r \in Ring |-> 0] /\ head = pub /\ tail = pub
             /\ producer = [r \in Ring |-> "idle"]
             /\ sleeping = FALSE /\ buffer = <<>> /\ signalled = FALSE
             /\ consumer = "top" /\ at = 1 /\ did = FALSE
             /\ stop = FALSE /\ main = "waiting"

-----------------------------------------------------------------------------
(* A producer: one or more publish(), then notify() *)

Publish(r) ==
  /\ main = "waiting"
  /\ producer[r] \in {"idle", "published"}
  /\ pub[r] < MaxItems
  /\ pub' = [pub EXCEPT ![r] = @ + 1]
  /\ producer' = [producer EXCEPT ![r] = "published"]
  /\ UNCHANGED <<head, tail, signalled, consumer, at, did>>
  /\ UNCHANGED sleepVars /\ UNCHANGED stopVars

\* The oldest store in the producer's buffer reaches memory.
HeadVisible(r) ==
  /\ head[r] < pub[r]
  /\ head' = [head EXCEPT ![r] = @ + 1]
  /\ UNCHANGED <<pub, tail, producer, signalled, consumer, at, did>>
  /\ UNCHANGED sleepVars /\ UNCHANGED stopVars

\* Mutant: notify() without its fence.
NotifyNoFence(r) ==
  /\ producer[r] = "published"
  /\ producer' = [producer EXCEPT ![r] = "fenced"]
  /\ UNCHANGED <<pub, head, tail, signalled, consumer, at, did>>
  /\ UNCHANGED sleepVars /\ UNCHANGED stopVars

\* notify(): atomic_thread_fence(seq_cst)
NotifyFence(r) ==
  /\ producer[r] = "published"
  /\ head[r] = pub[r]
  /\ producer' = [producer EXCEPT ![r] = "fenced"]
  /\ UNCHANGED <<pub, head, tail, signalled, consumer, at, did>>
  /\ UNCHANGED sleepVars /\ UNCHANGED stopVars

\* notify(): the consumer is asleep, or has said that it is about to be ...
NotifyLoad(r) ==
  /\ producer[r] = "fenced"
  /\ producer' = [producer EXCEPT ![r] = IF sleeping THEN "waking" ELSE "idle"]
  /\ UNCHANGED <<pub, head, tail, signalled, consumer, at, did>>
  /\ UNCHANGED sleepVars /\ UNCHANGED stopVars

\* ... and is woken by a write to the eventfd.
NotifyWrite(r) ==
  /\ producer[r] = "waking"
  /\ signalled' = TRUE
  /\ producer' = [producer EXCEPT ![r] = "idle"]
  /\ UNCHANGED <<pub, head, tail, consumer, at, did>>
  /\ UNCHANGED sleepVars /\ UNCHANGED stopVars

-----------------------------------------------------------------------------
(* The thread that stops the consumer, once the producers are joined *)

\* Once before and once after the flag is set, it notifies the consumer.
JoinProducers ==
  /\ main = "waiting"
  /\ \A r \in Ring : producer[r] = "idle"
  /\ main' = "fenced"
  /\ UNCHANGED <<signalled, consumer, at, did, stop>>
  /\ UNCHANGED ringVars /\ UNCHANGED sleepVars

SetStop ==
  /\ main = "joined"
  /\ stop' = TRUE
  /\ main' = "fenced"
  /\ UNCHANGED <<signalled, consumer, at, did>>
  /\ UNCHANGED ringVars /\ UNCHANGED sleepVars

Notified == IF stop THEN "joining" ELSE "joined"

StopLoad ==
  /\ main = "fenced"
  /\ main' = IF sleeping THEN "waking" ELSE Notified
  /\ UNCHANGED <<signalled, consumer, at, did, stop>>
  /\ UNCHANGED ringVars /\ UNCHANGED sleepVars

StopWrite ==
  /\ main = "waking"
  /\ signalled' = TRUE
  /\ main' = Notified
  /\ UNCHANGED <<consumer, at, did, stop>>
  /\ UNCHANGED ringVars /\ UNCHANGED sleepVars

-----------------------------------------------------------------------------
(* The consumer's loop *)

Goto(pc) == consumer' = pc /\ at' = 1

\* Mutant: the stop flag is looked at only after a pass that found something.
LoopTopBusy ==
  /\ consumer = "top"
  /\ IF stop /\ did THEN Goto("done") ELSE Goto("drain")
  /\ did' = FALSE
  /\ UNCHANGED signalled
  /\ UNCHANGED ringVars /\ UNCHANGED sleepVars /\ UNCHANGED stopVars

LoopTop ==
  /\ consumer = "top"
  /\ IF stop THEN Goto("done") ELSE Goto("drain")
  /\ did' = FALSE
  /\ UNCHANGED signalled
  /\ UNCHANGED ringVars /\ UNCHANGED sleepVars /\ UNCHANGED stopVars

\* front(), the handler and pop() of one event.
Take ==
  /\ consumer = "drain" /\ at \in Ring
  /\ tail[at] < head[at]
  /\ tail' = [tail EXCEPT ![at] = @ + 1]
  /\ did' = TRUE
  /\ UNCHANGED <<pub, head, producer, signalled, consumer, at>>
  /\ UNCHANGED sleepVars /\ UNCHANGED stopVars

\* The ring looked at is empty: on to the next one.
SkipEmpty ==
  /\ consumer = "drain" /\ at \in Ring
  /\ tail[at] = head[at]
  /\ at' = at + 1
  /\ UNCHANGED <<signalled, consumer, did>>
  /\ UNCHANGED ringVars /\ UNCHANGED sleepVars /\ UNCHANGED stopVars

\* All were: if (did) continue; otherwise wait(), unless its deadline has
\* already passed (or busy_poll is set), when the loop just goes round.
DrainEnd ==
  /\ consumer = "drain" /\ at = N + 1
  /\ \/ Goto("top")
     \/ ~ did /\ Goto("announce")
  /\ UNCHANGED <<signalled, did>>
  /\ UNCHANGED ringVars /\ UNCHANGED sleepVars /\ UNCHANGED stopVars

\* wait(): sleeping_.store(true)
Announce ==
  /\ consumer = "announce"
  /\ buffer' = Append(buffer, TRUE)
  /\ Goto("fence")
  /\ UNCHANGED <<signalled, did, sleeping>>
  /\ UNCHANGED ringVars /\ UNCHANGED stopVars

\* The oldest store in the consumer's buffer reaches memory.
SleepingVisible ==
  /\ buffer # <<>>
  /\ sleeping' = Head(buffer)
  /\ buffer' = Tail(buffer)
  /\ UNCHANGED <<signalled, consumer, at, did>>
  /\ UNCHANGED ringVars /\ UNCHANGED stopVars

\* Mutant: wait() without its fence.
WaitNoFence ==
  /\ consumer = "fence"
  /\ Goto("check")
  /\ UNCHANGED <<signalled, did>>
  /\ UNCHANGED ringVars /\ UNCHANGED sleepVars /\ UNCHANGED stopVars

\* wait(): atomic_thread_fence(seq_cst)
WaitFence ==
  /\ consumer = "fence"
  /\ buffer = <<>>
  /\ Goto("check")
  /\ UNCHANGED <<signalled, did>>
  /\ UNCHANGED ringVars /\ UNCHANGED sleepVars /\ UNCHANGED stopVars

\* has_work() looks at the rings one by one; the stop flag is no part of it.
CheckRing ==
  /\ consumer = "check" /\ at \in Ring
  /\ IF tail[at] # head[at]
     THEN Goto("awake")
     ELSE at' = at + 1 /\ UNCHANGED consumer
  /\ UNCHANGED <<signalled, did>>
  /\ UNCHANGED ringVars /\ UNCHANGED sleepVars /\ UNCHANGED stopVars

Block ==
  /\ consumer = "check" /\ at = N + 1
  /\ Goto("blocked")
  /\ UNCHANGED <<signalled, did>>
  /\ UNCHANGED ringVars /\ UNCHANGED sleepVars /\ UNCHANGED stopVars

\* ppoll() returns: the eventfd is readable ...
Wake ==
  /\ consumer = "blocked" /\ signalled
  /\ Goto("awake")
  /\ UNCHANGED <<signalled, did>>
  /\ UNCHANGED ringVars /\ UNCHANGED sleepVars /\ UNCHANGED stopVars

\* ... or the timeout has expired.
Timeout ==
  /\ consumer = "blocked" /\ ~ signalled
  /\ Goto("awake")
  /\ UNCHANGED <<signalled, did>>
  /\ UNCHANGED ringVars /\ UNCHANGED sleepVars /\ UNCHANGED stopVars

\* sleeping_.store(false)
Retract ==
  /\ consumer = "awake"
  /\ buffer' = Append(buffer, FALSE)
  /\ Goto("clear")
  /\ UNCHANGED <<signalled, did, sleeping>>
  /\ UNCHANGED ringVars /\ UNCHANGED stopVars

\* read(fd_): the counter is emptied, or the read fails with EAGAIN.
Clear ==
  /\ consumer = "clear"
  /\ signalled' = FALSE
  /\ Goto("top")
  /\ UNCHANGED did
  /\ UNCHANGED ringVars /\ UNCHANGED sleepVars /\ UNCHANGED stopVars

-----------------------------------------------------------------------------
Notify(r) == HeadVisible(r) \/ NotifyFence(r) \/ NotifyLoad(r) \/ NotifyWrite(r)
Stop == JoinProducers \/ SetStop \/ StopLoad \/ StopWrite
Loop == \/ LoopTop \/ Take \/ SkipEmpty \/ DrainEnd
        \/ Announce \/ WaitFence \/ CheckRing \/ Block \/ Wake \/ Retract \/ Clear

WakerNext == \/ \E r \in Ring : Publish(r) \/ Notify(r)
             \/ Stop
             \/ Loop \/ SleepingVisible \/ Timeout

WakerSpec == WakerInit /\ [][WakerNext]_wakerVars

\* Threads that can run do run and buffers drain; ppoll()'s timeout is NOT
\* relied on.
WakerFairSpec == /\ WakerSpec
                 /\ \A r \in Ring : WF_wakerVars(Notify(r))
                 /\ WF_wakerVars(Loop) /\ WF_wakerVars(SleepingVisible)

-----------------------------------------------------------------------------
ProducerAt == {"idle", "published", "fenced", "waking"}
ConsumerAt == {"top", "drain", "announce", "fence", "check", "blocked", "awake", "clear", "done"}

RingType == /\ pub \in [Ring -> 0 .. MaxItems] /\ head \in [Ring -> 0 .. MaxItems]
            /\ tail \in [Ring -> 0 .. MaxItems]
            /\ producer \in [Ring -> ProducerAt]
LoopType == consumer \in ConsumerAt /\ at \in 1 .. N + 1
FlagType == /\ sleeping \in BOOLEAN /\ signalled \in BOOLEAN /\ did \in BOOLEAN /\ stop \in BOOLEAN
            /\ main \in {"waiting", "fenced", "waking", "joined", "joining"}
BufferType == buffer \in Seq(BOOLEAN)
WakerTypeOK == RingType /\ LoopType /\ FlagType /\ BufferType

Indices == \A r \in Ring : tail[r] <= head[r] /\ head[r] <= pub[r]

\* Past its fence a producer has nothing left in its buffer.
Flushed == \A r \in Ring : producer[r] # "published" => head[r] = pub[r]

\* The consumer's announcement is its last store, and from its fence to its
\* wake-up it is visible.
Announced == /\ consumer = "fence" => IF buffer = <<>> THEN sleeping ELSE buffer[Len(buffer)]
             /\ consumer \in {"check", "blocked"} => sleeping /\ buffer = <<>>

\* A ring whose emptiness the consumer relies on, to sleep.
Relied(r) == consumer = "blocked" \/ (consumer = "check" /\ r < at)

\* An event that arrives after the consumer looked at its ring is followed by
\* a wake-up: already in the eventfd, or still to be written by the producer.
Followed == \A r \in Ring : Relied(r) /\ tail[r] < head[r] => signalled \/ producer[r] # "idle"

\* The fence pair of notify() and wait() "close the lost-wakeup race"
\* (waker.hpp:19): the consumer is never left blocked, with an event in a ring
\* and nobody about to wake it.
NoLostWakeup ==
  consumer = "blocked" /\ ~ signalled =>
    \A r \in Ring : tail[r] < pub[r] => producer[r] \in {"published", "fenced", "waking"}

WakerIInv == WakerTypeOK /\ Indices /\ Flushed /\ Announced /\ Followed

\* Every published event is consumed, without the help of the timeout, unless
\* the consumer is stopped first.
PublishedIsConsumed ==
  \A r \in Ring : \A n \in 1 .. MaxItems : (pub[r] >= n) ~> (tail[r] >= n \/ stop)

\* A stopped consumer ends.  has_work() does not look at the stop flag, so a
\* notify() between the loop's check and the announcement wakes nobody and it
\* is the timeout that ends the wait.
StopEnds == WF_wakerVars(Timeout) => (stop ~> consumer = "done")
=============================================================================
