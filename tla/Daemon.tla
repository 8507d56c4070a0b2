------------------------------- MODULE Daemon -------------------------------
(* The life of stokd: the threads, the rings between them, the orderly        *)
(* shutdown in main(), and a crash with the restart after it. The net and the *)
(* market thread put events into the engine's two rings; the engine journals  *)
(* each story, remembers the filings among them, and sends signals; alerts    *)
(* and journal drain their rings. Rings are the bounded queues of Fifo; what  *)
(* wakes a thread is Waker.                                                   *)
EXTENDS Naturals, Sequences, SequencesExt, FiniteSets

CONSTANTS RingCap,    \* capacity of each ring
          MaxEvents,  \* bound on the events offered, over all lives
          MaxLives    \* bound on the starts of the process

ASSUME DaemonAssumption == RingCap \in Nat

VARIABLES stage,      \* how far main() is, see below
          ended,      \* threads that have returned
          ring,       \* the four rings by name
          offered,    \* history: events each producer has offered so far
          lost,       \* history: records that found a ring full, or died with the process
          left,       \* history: events that an orderly shutdown left in the engine's rings
          buffered, file,     \* journal lines in stdio's buffer, and on disk
          torn,       \* kinds of line whose file ends in a part of one
          spoilt,     \* history: the lines, by life, written behind such a part
          filings, saved, tmp, \* filings in memory, in the saved file, in its .tmp
          dns, dnsRunning, \* the resolver's thread and its flag
          lives

daemonVars == <<stage, ended, ring, offered, lost, left, buffered, file, torn, spoilt, filings, saved, tmp,
                dns, dnsRunning, lives>>

\* main(): running; stop_producers set; producers joined and stop_engine set;
\* engine joined and stop_sinks set; sinks joined; filings written to the
\* temporary file; renamed, the process ends.
Stage == <<"up", "stop_producers", "stop_engine", "stop_sinks", "joined", "saving", "exited">>
AtStage(s) == stage = Stage[s]
Reached(s) == \E i \in s..Len(Stage) : AtStage(i)

Thread == {"net", "market", "engine", "alerts", "journal"}
Producer == {"net", "market"}
RingOf(t) == CASE t = "net" -> "news" [] t = "market" -> "events"
EngineRings == {"news", "events"}
Empty == [r \in EngineRings \union {"alerts", "journal"} |-> <<>>]
Runs(t) == t \notin ended

DaemonInit ==
  /\ stage = Stage[1] /\ ended = {} /\ ring = Empty
  /\ offered = [p \in Producer |-> 0] /\ lost = {} /\ left = {}
  /\ buffered = <<>> /\ file = <<>> /\ torn = {} /\ spoilt = {}
  /\ filings = {} /\ saved = {} /\ tmp = {}
  /\ dns = "look" /\ dnsRunning = TRUE /\ lives = 1

\* Records put into a ring one after another; those that find it full are lost.
Fits(q, recs) == SubSeq(recs, 1, IF Len(recs) < RingCap - Len(q) THEN Len(recs) ELSE RingCap - Len(q))

-----------------------------------------------------------------------------
(* Producers: FeedPoller::run and MarketRunner::run *)

Offer(p) ==
  /\ Runs(p) /\ AtStage(1) /\ offered["net"] + offered["market"] < MaxEvents
  /\ offered' = [offered EXCEPT ![p] = @ + 1]
  /\ LET ev == <<p, offered'[p]>>
     IN  IF Len(ring[RingOf(p)]) < RingCap
           THEN ring' = [ring EXCEPT ![RingOf(p)] = Append(@, ev)] /\ UNCHANGED lost
           ELSE lost' = lost \union {ev} /\ UNCHANGED ring
  /\ UNCHANGED <<stage, ended, left, buffered, file, torn, spoilt, filings, saved, tmp, dns, dnsRunning, lives>>

\* The net thread stops the resolver on its way out and joins its thread.
LeaveProducer(p) ==
  /\ Runs(p) /\ Reached(2)
  /\ p = "net" => ~dnsRunning /\ dns = "ended"
  /\ ended' = ended \union {p}
  /\ UNCHANGED <<stage, ring, offered, lost, left, buffered, file, torn, spoilt, filings, saved, tmp, dns, dnsRunning, lives>>

\* Resolver::stop(): the flag, then notify_all() without the mutex, which only
\* wakes a thread that is already blocked.
ResolverStop ==
  /\ Runs("net") /\ Reached(2) /\ dnsRunning
  /\ dnsRunning' = FALSE
  /\ dns' = IF dns = "blocked" THEN "look" ELSE dns
  /\ UNCHANGED <<stage, ended, ring, offered, lost, left, buffered, file, torn, spoilt, filings, saved, tmp, lives>>

\* Mutant: the thread waits without a time limit.
WaitExpiresNever == FALSE
WaitExpires == TRUE

\* The refresh thread: look at the flag, block, and after at most the interval
\* look again.
DnsStep ==
  /\ dns' \in CASE dns = "look" -> {IF dnsRunning THEN "blocking" ELSE "ended"}
                [] dns = "blocking" -> {"blocked"}
                [] dns = "blocked" -> IF WaitExpires THEN {"look"} ELSE {}
                [] dns = "ended" -> {}
  /\ UNCHANGED <<stage, ended, ring, offered, lost, left, buffered, file, torn, spoilt, filings, saved, tmp, dnsRunning, lives>>

-----------------------------------------------------------------------------
(* Engine::run *)

\* on_news() journals the story and, when it is signalled, the signal, which
\* also goes to the alerts; a market event is only signalled.
Records(ev, signal) ==
  (IF ev[1] = "net" THEN << <<"story", ev>> >> ELSE <<>>) \o (IF signal THEN << <<"signal", ev>> >> ELSE <<>>)

Handle(r, signal) ==
  /\ Runs("engine") /\ ring[r] # <<>>
  /\ LET ev == Head(ring[r])
         recs == Records(ev, signal)
         toJournal == Fits(ring["journal"], recs)
         toAlerts == Fits(ring["alerts"], IF signal THEN << <<"signal", ev>> >> ELSE <<>>)
     IN  /\ ring' = [ring EXCEPT ![r] = Tail(@), !["journal"] = @ \o toJournal, !["alerts"] = @ \o toAlerts]
         /\ lost' = lost \union (ToSet(recs) \ ToSet(toJournal))
         /\ filings' = IF r = "news" THEN filings \union {ev} ELSE filings
  /\ UNCHANGED <<stage, ended, offered, left, buffered, file, torn, spoilt, saved, tmp, dns, dnsRunning, lives>>

\* The flag is looked at once for each round, before the rings. On the way out
\* Engine::shutdown() journals the trades it closes.
LeaveEngine ==
  /\ Runs("engine") /\ Reached(3)
  /\ ended' = ended \union {"engine"}
  /\ LET recs == << <<"trade", <<"engine", lives>> >> >>
         toJournal == Fits(ring["journal"], recs)
     IN  /\ ring' = [ring EXCEPT !["journal"] = @ \o toJournal]
         /\ lost' = lost \union (ToSet(recs) \ ToSet(toJournal))
  /\ left' = left \union UNION {ToSet(ring[r]) : r \in EngineRings}
  /\ UNCHANGED <<stage, offered, buffered, file, torn, spoilt, filings, saved, tmp, dns, dnsRunning, lives>>

-----------------------------------------------------------------------------
(* AlertSink::run and Journal::run *)

DeliverAlert ==
  /\ Runs("alerts") /\ ring["alerts"] # <<>>
  /\ ring' = [ring EXCEPT !["alerts"] = Tail(@)]
  /\ UNCHANGED <<stage, ended, offered, lost, left, buffered, file, torn, spoilt, filings, saved, tmp, dns, dnsRunning, lives>>

Write ==
  /\ Runs("journal") /\ ring["journal"] # <<>>
  /\ buffered' = Append(buffered, Head(ring["journal"]))
  /\ ring' = [ring EXCEPT !["journal"] = Tail(@)]
  /\ UNCHANGED <<stage, ended, offered, lost, left, file, torn, spoilt, filings, saved, tmp, dns, dnsRunning, lives>>

\* Mutant: the buffer is written again with the next flush.
AfterFlushKept == buffered
AfterFlush == <<>>

Kinds(recs) == {recs[i][1] : i \in 1..Len(recs)}
First(recs, i) == \A j \in 1..(i - 1) : recs[j][1] # recs[i][1]

\* Lines reach their files, one file for each kind. The first one behind a
\* part of a line continues it, and the two are no line of JSON.
Reach(recs) ==
  /\ file' = file \o recs
  /\ spoilt' = spoilt \union {<<lives, recs[i]>> : i \in {k \in 1..Len(recs) : recs[k][1] \in torn /\ First(recs, k)}}

\* The line that follows a part ends the joint one.
TornAfter(recs) == torn \ Kinds(recs)

Flush ==
  /\ Runs("journal") /\ buffered # <<>>
  /\ Reach(buffered) /\ torn' = TornAfter(buffered) /\ buffered' = AfterFlush
  /\ UNCHANGED <<stage, ended, ring, offered, lost, left, filings, saved, tmp, dns, dnsRunning, lives>>

\* Mutant: a sink that sees the flag leaves at once.
SinkDoneAtOnce(t) == TRUE
\* The flag is set and the last drain has found the ring empty.
SinkDone(t) == ring[t] = <<>>

LeaveSink(t) ==
  /\ t \in {"alerts", "journal"} /\ Runs(t) /\ Reached(4) /\ SinkDone(t)
  /\ ended' = ended \union {t}
  /\ IF t = "journal" THEN Reach(buffered) /\ torn' = TornAfter(buffered) /\ buffered' = <<>>
     ELSE UNCHANGED <<file, torn, spoilt, buffered>>
  /\ UNCHANGED <<stage, ring, offered, lost, left, filings, saved, tmp, dns, dnsRunning, lives>>

-----------------------------------------------------------------------------
(* main(), and a crash *)

\* The threads main() joins before it goes on from a stage.
Joins == [s \in 1..Len(Stage) |->
  CASE s = 2 -> Producer [] s = 3 -> {"engine"} [] s = 4 -> {"alerts", "journal"} [] OTHER -> {}]

\* Mutant: the file is written in place.
TempOrFileInPlace == tmp' = filings /\ saved' = {}
\* write_file_atomic(): first the temporary file ...
TempOrFile == tmp' = filings /\ UNCHANGED saved

Advance ==
  \E s \in 1..(Len(Stage) - 1) :
    /\ AtStage(s) /\ Joins[s] \subseteq ended
    /\ stage' = Stage[s + 1]
    /\ CASE s = 5 -> TempOrFile
         [] s = 6 -> saved' = tmp /\ UNCHANGED tmp  \* ... then the rename
         [] OTHER -> UNCHANGED <<saved, tmp>>
    /\ UNCHANGED <<ended, ring, offered, lost, left, buffered, file, torn, spoilt, filings, dns, dnsRunning, lives>>

\* make_dirs(), the write or the rename fails, which only the missing log line
\* tells: the saved file stays as it was.
SaveFails ==
  /\ AtStage(5) /\ stage' = Stage[7]
  /\ tmp' \in {tmp, filings}
  /\ UNCHANGED <<ended, ring, offered, lost, left, buffered, file, torn, spoilt, filings, saved, dns, dnsRunning, lives>>

\* A new process: memory is gone, the files are as they were. Of the lines in
\* stdio's buffer a crash leaves any first part, which may end inside a line;
\* the new process appends behind it.
Restart ==
  /\ lives < MaxLives
  /\ lives' = lives + 1
  /\ stage' = Stage[1] /\ ended' = {} /\ ring' = Empty
  /\ \E n \in 0..Len(buffered) :
       LET whole == SubSeq(buffered, 1, n)
           behind == SubSeq(buffered, n + 1, Len(buffered))
       IN  /\ Reach(whole)
           /\ \E cut \in SUBSET Kinds(behind) : torn' = TornAfter(whole) \union cut
  /\ lost' = lost \union (IF AtStage(7) THEN {} ELSE (UNION {ToSet(ring[r]) : r \in DOMAIN ring}) \union ToSet(buffered))
  /\ buffered' = <<>> /\ filings' = saved /\ tmp' = {}
  /\ dns' = "look" /\ dnsRunning' = TRUE
  /\ UNCHANGED <<offered, left, saved>>

DaemonNext ==
  \/ \E p \in Producer : Offer(p) \/ LeaveProducer(p)
  \/ ResolverStop \/ DnsStep
  \/ \E r \in EngineRings, signal \in BOOLEAN : Handle(r, signal)
  \/ LeaveEngine \/ DeliverAlert \/ Write \/ Flush
  \/ \E t \in {"alerts", "journal"} : LeaveSink(t)
  \/ Advance \/ SaveFails \/ Restart

\* Every thread runs; nobody has to ask for the shutdown, and nothing has to
\* crash.
Fair(t) ==
  CASE t = "main" -> (Advance \/ SaveFails) /\ ~AtStage(1)
    [] t = "net" -> LeaveProducer("net") \/ ResolverStop
    [] t = "market" -> LeaveProducer("market")
    [] t = "dns" -> DnsStep
    [] t = "engine" -> LeaveEngine
    [] t = "alerts" -> DeliverAlert \/ LeaveSink("alerts")
    [] t = "journal" -> Write \/ LeaveSink("journal")
DaemonFairness == \A t \in Thread \union {"main", "dns"} : WF_daemonVars(Fair(t))

DaemonSpec == DaemonInit /\ [][DaemonNext]_daemonVars /\ DaemonFairness

-----------------------------------------------------------------------------
Stories == {<<"net", n>> : n \in 1..offered["net"]}
Gone(ev) == ev \in lost \/ <<"story", ev>> \in lost

\* When the process has ended in order, every story that reached it in any
\* life is in the journal, or was counted when a ring was full, or went down
\* with a crash, or stood in the engine's ring when it was told to stop: the
\* engine, unlike the sinks, does not drain once more. Nothing is lost behind
\* the engine. (A line in the file may stand behind a torn one: TornOnce.)
ShutdownComplete ==
  AtStage(7) =>
    /\ \A ev \in Stories : Gone(ev) \/ ev \in left \/ <<"story", ev>> \in ToSet(file)
    /\ ring["journal"] = <<>> /\ ring["alerts"] = <<>> /\ buffered = <<>>

\* The journal has no record twice, and the stories in the order in which the
\* net thread found them, over crashes and restarts too.
JournalInOrder ==
  \A i, j \in DOMAIN file :
    i < j => /\ file[i] # file[j]
             /\ file[i][1] = "story" /\ file[j][1] = "story" => file[i][2][2] < file[j][2][2]

\* A crash spoils at most one line of each kind: two lines of one kind that
\* were written behind part of a line were so in different lives.
TornOnce ==
  \A x, y \in spoilt : x[1] = y[1] /\ x[2][1] = y[2][1] => x = y

\* The saved filings never lose one, wherever a crash or a failing write falls
\* in the writing of the file, and the rename adds those of this life.
FilingsKept == [][saved \subseteq saved' /\ (AtStage(6) /\ AtStage(7)' => filings \subseteq saved')]_daemonVars

\* Once a shutdown has begun the process exits, unless it crashes first, even
\* if the resolver's thread misses its notification: its wait has a time limit.
DaemonStops == AtStage(2) ~> (AtStage(7) \/ AtStage(1))

\* The journal over lives and shutdowns: complete behind the engine, in order,
\* nothing twice, and no more spoilt by a crash than one line of a kind
\* (engine.cpp:631, journal.cpp:105, 334).
JournalInv == ShutdownComplete /\ JournalInOrder /\ TornOnce
=============================================================================
