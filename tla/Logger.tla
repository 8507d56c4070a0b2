------------------------------- MODULE Logger -------------------------------
(* The log: a bounded queue of cells with sequence numbers that every thread  *)
(* pushes to (MpscQueue), and the logger around it. While it runs, the log    *)
(* thread is the queue's one consumer; before start() and after stop() a      *)
(* thread that logs drains the queue itself.                                  *)
(*                                                                            *)
(* Main's life is that of stokd: it logs, starts the logger and the threads,  *)
(* joins the threads, logs again, stops the logger and may still log.         *)
EXTENDS Naturals, Sequences, FiniteSets, SequencesExt

CONSTANTS Thread,   \* the threads that log, without main and the log thread
          Main, LogThread,
          QueueCap, \* number of cells
          MaxLogs   \* bound on the records of all threads

\* MpscQueue rounds a smaller capacity up: with one cell, full would look free.
ASSUME LoggerAssumption ==
  /\ QueueCap \in Nat /\ QueueCap >= 2
  /\ Main \notin Thread /\ LogThread \notin Thread \union {Main}

VARIABLES cellSeq, cellData,  \* the cells
          enqueue_pos, dequeue_pos,
          pc, pos,            \* where a thread is in vlog(), and its copy of enqueue_pos
          logged, dropped,    \* history: records offered by each thread; those that found it full
          running_,
          consumer,           \* actors between front() and pop()
          logPc,              \* the log thread: "off", "loop", "look", "last", "ended"
          phase,              \* main: "boot", "up", "stopping", "down"
          written             \* history: what write_record() wrote

queueVars == <<cellSeq, cellData, enqueue_pos, dequeue_pos>>
loggerVars == <<queueVars, pc, pos, logged, dropped, running_, consumer, logPc, phase, written>>

Caller == Thread \union {Main}          \* who calls vlog()
Drainer == Caller \union {LogThread}    \* who may call front() and pop()
Half == <<Main, 0>>                \* the data of a cell that is being filled
Cell(p) == p % QueueCap
Record(t) == <<t, logged[t]>>

LoggerInit ==
  /\ cellSeq = [i \in 0..(QueueCap - 1) |-> i]
  /\ cellData = [i \in 0..(QueueCap - 1) |-> Half]
  /\ enqueue_pos = 0 /\ dequeue_pos = 0
  /\ pc = [t \in Caller |-> "out"] /\ pos = [t \in Caller |-> 0]
  /\ logged = [t \in Caller |-> 0] /\ dropped = {}
  /\ running_ = FALSE /\ consumer = {} /\ logPc = "off" /\ phase = "boot" /\ written = <<>>

Goto(t, l) == pc' = [pc EXCEPT ![t] = l]

-----------------------------------------------------------------------------
(* vlog(): claim a cell, fill it, commit it, then look at running_ *)

\* Threads log while main has them running; main logs at any time.
Call(t) ==
  /\ pc[t] = "out" /\ MapThenSumSet(LAMBDA x : logged[x], Caller) < MaxLogs
  /\ t = Main \/ phase = "up"
  /\ t = Main => phase # "stopping"
  /\ logged' = [logged EXCEPT ![t] = @ + 1]
  /\ pos' = [pos EXCEPT ![t] = enqueue_pos]
  /\ Goto(t, "claim")
  /\ UNCHANGED <<queueVars, dropped, running_, consumer, logPc, phase, written>>

\* Mutant: the position is stored without asking whether another thread took it.
SwappedBlind(t) == TRUE
Swapped(t) == enqueue_pos = pos[t]

\* The cell's number says free: take the position, unless another thread has.
ClaimFree(t) ==
  /\ pc[t] = "claim" /\ cellSeq[Cell(pos[t])] = pos[t]
  /\ IF Swapped(t)
       THEN /\ enqueue_pos' = pos[t] + 1
            /\ cellData' = [cellData EXCEPT ![Cell(pos[t])] = Half]
            /\ Goto(t, "fill") /\ UNCHANGED pos
       ELSE /\ pos' = [pos EXCEPT ![t] = enqueue_pos]
            /\ UNCHANGED <<enqueue_pos, cellData, pc>>
  /\ UNCHANGED <<cellSeq, dequeue_pos, logged, dropped, running_, consumer, logPc, phase, written>>

ClaimFull(t) ==
  /\ pc[t] = "claim" /\ cellSeq[Cell(pos[t])] < pos[t]
  /\ dropped' = dropped \union {Record(t)}
  /\ Goto(t, "check")
  /\ UNCHANGED <<queueVars, pos, logged, running_, consumer, logPc, phase, written>>

\* The cell is further on: the copied position was old.
ClaimStale(t) ==
  /\ pc[t] = "claim" /\ cellSeq[Cell(pos[t])] > pos[t]
  /\ pos' = [pos EXCEPT ![t] = enqueue_pos]
  /\ UNCHANGED <<queueVars, pc, logged, dropped, running_, consumer, logPc, phase, written>>

Fill(t) ==
  /\ pc[t] = "fill"
  /\ cellData' = [cellData EXCEPT ![Cell(pos[t])] = Record(t)]
  /\ Goto(t, "commit")
  /\ UNCHANGED <<cellSeq, enqueue_pos, dequeue_pos, pos, logged, dropped, running_, consumer, logPc, phase, written>>

commit(t) ==
  /\ pc[t] = "commit"
  /\ cellSeq' = [cellSeq EXCEPT ![Cell(pos[t])] = @ + 1]
  /\ Goto(t, "check")
  /\ UNCHANGED <<cellData, enqueue_pos, dequeue_pos, pos, logged, dropped, running_, consumer, logPc, phase, written>>

CheckRunning(t) ==
  /\ pc[t] = "check"
  /\ Goto(t, IF running_ THEN "out" ELSE "drain")
  /\ UNCHANGED <<queueVars, pos, logged, dropped, running_, consumer, logPc, phase, written>>

-----------------------------------------------------------------------------
(* front() and pop(), by whoever drains *)

Draining(c) == IF c = LogThread THEN logPc \in {"loop", "last"} ELSE pc[c] = "drain"

Committed == cellSeq[Cell(dequeue_pos)] >= dequeue_pos + 1

front(c) ==
  /\ Draining(c) /\ c \notin consumer /\ Committed
  /\ consumer' = consumer \union {c}
  /\ UNCHANGED <<queueVars, pc, pos, logged, dropped, running_, logPc, phase, written>>

pop(c) ==
  /\ c \in consumer
  /\ written' = Append(written, cellData[Cell(dequeue_pos)])
  /\ cellSeq' = [cellSeq EXCEPT ![Cell(dequeue_pos)] = dequeue_pos + QueueCap]
  /\ dequeue_pos' = dequeue_pos + 1
  /\ consumer' = consumer \ {c}
  /\ UNCHANGED <<cellData, enqueue_pos, pc, pos, logged, dropped, running_, logPc, phase>>

Drained(t) ==
  /\ pc[t] = "drain" /\ t \notin consumer /\ ~Committed
  /\ Goto(t, "out")
  /\ UNCHANGED <<queueVars, pos, logged, dropped, running_, consumer, logPc, phase, written>>

\* Mutant: the log thread leaves without a last drain.
AfterLoopAtOnce == IF running_ THEN "loop" ELSE "ended"
\* Mutant: the log thread does not look at running_.
AfterLoopNever == "loop"
AfterLoop == IF running_ THEN "loop" ELSE "last"

\* The log thread has found the queue empty, later looks at running_, and when
\* it is to stop drains once more.
LogLoop ==
  /\ LogThread \notin consumer
  /\ \/ logPc = "loop" /\ ~Committed /\ logPc' = "look"
     \/ logPc = "look" /\ logPc' = AfterLoop
     \/ logPc = "last" /\ ~Committed /\ logPc' = "ended"
  /\ UNCHANGED <<queueVars, pc, pos, logged, dropped, running_, consumer, phase, written>>

-----------------------------------------------------------------------------
(* Main *)

start ==
  /\ phase = "boot" /\ pc[Main] = "out"
  /\ phase' = "up" /\ running_' = TRUE /\ logPc' = "loop"
  /\ UNCHANGED <<queueVars, pc, pos, logged, dropped, consumer, written>>

\* Mutant: main does not wait for the threads.
JoinedNot == TRUE
Joined == \A t \in Thread : pc[t] = "out"

stop ==
  /\ phase = "up" /\ pc[Main] = "out" /\ Joined
  /\ phase' = "stopping" /\ running_' = FALSE
  /\ UNCHANGED <<queueVars, pc, pos, logged, dropped, consumer, logPc, written>>

\* The log thread is joined and the file closed.
StopReturns ==
  /\ phase = "stopping" /\ logPc = "ended"
  /\ phase' = "down"
  /\ UNCHANGED <<queueVars, pc, pos, logged, dropped, running_, consumer, logPc, written>>

Vlog(t) == ClaimFree(t) \/ ClaimFull(t) \/ ClaimStale(t) \/ Fill(t) \/ commit(t) \/ CheckRunning(t) \/ Drained(t)
Drain(c) == front(c) \/ pop(c)

LoggerNext ==
  \/ \E t \in Caller : Call(t) \/ Vlog(t)
  \/ \E c \in Drainer : Drain(c)
  \/ LogLoop \/ start \/ stop \/ StopReturns

\* A thread inside vlog() and the log thread run; nobody has to log or to stop.
Logs(t) == Vlog(t) \/ Drain(t)
LogThreadRuns == Drain(LogThread) \/ LogLoop
LoggerFairness ==
  /\ \A t \in Caller : WF_loggerVars(Logs(t))
  /\ WF_loggerVars(LogThreadRuns) /\ WF_loggerVars(StopReturns)

LoggerSpec == LoggerInit /\ [][LoggerNext]_loggerVars /\ LoggerFairness

-----------------------------------------------------------------------------
\* front() and pop() are for a single consumer, and which thread that is
\* changes twice: the log thread takes over from main at start() and hands back
\* at stop(), with no moment at which two of them drain.
OneConsumer == Cardinality({c \in Drainer : Draining(c)}) <= 1

\* Records are written whole, once, and a thread's in the order it logged them,
\* although cells are claimed in one order and committed in another.
WrittenInOrder ==
  \A i, j \in DOMAIN written :
    /\ written[i] # Half
    /\ i < j /\ written[i][1] = written[j][1] => written[i][2] < written[j][2]

\* Once the logger is down and nobody is inside vlog(), every record was
\* written or counted as dropped: the log thread's last drain, and the drain by
\* the caller, leave nothing in the queue.
LogComplete ==
  phase = "down" /\ (\A t \in Caller : pc[t] = "out") =>
    \A t \in Caller : \A n \in 1..logged[t] : <<t, n>> \in dropped \union ToSet(written)

\* stop() returns: a claimed cell is committed, and the log thread gets to the
\* end of the queue.
LoggerStops == (phase = "stopping") ~> (phase = "down")

\* The log's invariant over start() and stop(): one consumer at a time, records
\* whole, once and in order, nothing left behind (log.cpp:89).
LoggerInv == OneConsumer /\ WrittenInOrder /\ LogComplete
=============================================================================
