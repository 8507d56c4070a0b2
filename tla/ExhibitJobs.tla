---------------------------- MODULE ExhibitJobs -----------------------------
(***************************************************************************)
(* feeds/poller.cpp: the fetches of press-release exhibits (a filing's     *)
(* index page, stage 0, then the exhibit, stage 1) on a connection of      *)
(* their own, and the host's token bucket they share with the feed polls.  *)
(*                                                                         *)
(* Tokens are counted in halves and time in ticks.  The connection is the  *)
(* abstraction FeedPoller uses; a reconnect delay may end at any moment.   *)
(***************************************************************************)
EXTENDS Naturals, Sequences, FiniteSetsExt

CONSTANTS MaxJobs,   \* bound: filings worth an exhibit
          QueueMax,  \* exhibit_queue_max
          Refill,    \* half tokens a tick brings (max_rps)
          Window     \* ticks over which requests are counted

\* With exhibit_queue_max 0, pop_back() would be called on an empty queue.
ASSUME JobsAssumption == /\ MaxJobs \in Nat /\ Window \in Nat
                         /\ QueueMax \in Nat \ {0} /\ Refill \in Nat

VARIABLES q, cur, inflight, conn,
          outcome,        \* history: job -> how it ended, "open" until then, "none" before it starts
          tries,          \* history: job -> stage -> times its request was sent
          tokens, elapsed,\* the bucket, and the ticks since last_refill
          sent            \* history: k -> the requests of the last k ticks, this one included

bucket == <<tokens, elapsed, sent>>
jobVars == <<q, cur, inflight, conn, outcome, tries, tokens, elapsed, sent>>

Job == 1 .. MaxJobs
Token == 2
Burst == Max({Token, Min({Refill, 4 * Token})})

\* Mutant: a job waits for one and a half tokens even where the bucket holds one.
ThresholdFixed == 3
Threshold == Min({3, Burst})   \* std::min(1.5, burst)

NoJob == [id |-> 0, stage |-> 0]

JobsInit == /\ q = <<>> /\ cur = NoJob /\ inflight = FALSE /\ conn = "down"
            /\ outcome = [j \in Job |-> "none"] /\ tries = [j \in Job |-> [s \in {0, 1} |-> 0]]
            /\ tokens = Burst /\ elapsed = 0 /\ sent = [k \in 1 .. Window |-> 0]

-----------------------------------------------------------------------------
(* Host: the bucket is refilled when it is looked at *)

\* Mutant: a quiet spell saves up requests without limit.
refilledUnbounded == tokens + elapsed * Refill
refilled == Min({Burst, tokens + elapsed * Refill})

take == /\ refilled >= Token
        /\ tokens' = refilled - Token /\ elapsed' = 0
        /\ sent' = [k \in 1 .. Window |-> sent[k] + 1]

\* The clock: elapsed is capped where the bucket is full whatever it held.
Tick == /\ elapsed' = Min({elapsed + 1, 2 * Burst})
        /\ sent' = [k \in 1 .. Window |-> IF k = 1 THEN 0 ELSE sent[k - 1]]
        /\ UNCHANGED <<q, cur, inflight, conn, outcome, tries, tokens>>

\* service_lane(): a feed poll takes a token.
Poll == take /\ UNCHANGED <<q, cur, inflight, conn, outcome, tries>>

-----------------------------------------------------------------------------
Ends(id, how) == outcome' = [outcome EXCEPT ![id] = how]

\* maybe_queue_exhibit(): with the queue full, the last one gives way.
maybe_queue_exhibit(id) ==
  /\ outcome[id] = "none" /\ \A j \in Job : outcome[j] = "none" => id <= j
  /\ LET full == Len(q) >= QueueMax
     IN  /\ q' = Append(IF full THEN SubSeq(q, 1, Len(q) - 1) ELSE q, [id |-> id, stage |-> 0])
         /\ outcome' = [j \in Job |-> CASE j = id -> "open"
                                        [] full /\ j = q[Len(q)].id -> "overflow"
                                        [] OTHER -> outcome[j]]
  /\ UNCHANGED <<cur, inflight, conn, tries>> /\ UNCHANGED bucket

\* service_jobs()
Connect == /\ conn = "down" /\ conn' = "connecting"
           /\ UNCHANGED <<q, cur, inflight, outcome, tries>> /\ UNCHANGED bucket

Takes == /\ ~ inflight /\ q # <<>> /\ conn = "ready" /\ refilled >= Threshold
         /\ take

SendJob == /\ Takes
           /\ cur' = Head(q) /\ q' = Tail(q) /\ inflight' = TRUE /\ conn' = "waiting"
           /\ tries' = [tries EXCEPT ![Head(q).id][Head(q).stage % 10] = @ + 1]
           /\ UNCHANGED outcome
SendFails == /\ Takes
             /\ cur' = Head(q) /\ conn' = "down"
             /\ UNCHANGED <<q, inflight, outcome, tries>>
\* The link found on the index page is no URL.
BadHref == /\ Takes /\ Head(q).stage % 10 = 1
           /\ cur' = Head(q) /\ q' = Tail(q) /\ Ends(Head(q).id, "error")
           /\ UNCHANGED <<inflight, conn, tries>>

(* on_job_event() *)
JobConnected == /\ conn = "connecting" /\ conn' = "ready"
                /\ UNCHANGED <<q, cur, inflight, outcome, tries>> /\ UNCHANGED bucket

\* Mutant: the mark of a retry is forgotten.
RetryMarkLost(job) == job
RetryMark(job) == [job EXCEPT !.stage = @ + 10]

JobClosed == /\ conn # "down" /\ conn' = "down"
             /\ inflight' = FALSE
             /\ \/ inflight /\ cur.stage < 10 /\ q' = <<RetryMark(cur)>> \o q /\ UNCHANGED outcome
                \/ inflight /\ cur.stage >= 10 /\ Ends(cur.id, "error") /\ UNCHANGED q
                \/ ~ inflight /\ UNCHANGED <<q, outcome>>
             /\ UNCHANGED <<cur, tries>> /\ UNCHANGED bucket

\* on_job_response(): an error, no exhibit, the second stage, or the event
\* for the engine, whose ring may be full.
JobStage == cur.stage % 10

\* Mutant: the second stage queues behind the other filings and drops one.
NextStageLast(job) == IF Len(q) >= QueueMax THEN Append(SubSeq(q, 1, Len(q) - 1), job) ELSE Append(q, job)
NextStage(job) == <<job>> \o q

JobResponse == /\ conn = "waiting"
               /\ inflight' = FALSE /\ conn' \in {"ready", "down"}
               /\ \/ Ends(cur.id, "error") /\ UNCHANGED q
                  \/ JobStage = 0 /\ Ends(cur.id, "no exhibit") /\ UNCHANGED q
                  \/ JobStage = 0 /\ q' = NextStage([cur EXCEPT !.stage = 1]) /\ UNCHANGED outcome
                  \/ JobStage = 1 /\ Ends(cur.id, "fetched") /\ UNCHANGED q
               /\ UNCHANGED <<cur, tries>> /\ UNCHANGED bucket

JobStep == Connect \/ SendJob \/ SendFails \/ BadHref \/ JobConnected \/ JobClosed \/ JobResponse
JobsNext == Tick \/ Poll \/ JobStep \/ \E id \in Job : maybe_queue_exhibit(id)

\* The net thread runs and the clock advances; a send succeeds at times, and
\* an answer arrives or the request times out.
JobsFairness == /\ WF_jobVars(Tick) /\ WF_jobVars(Connect) /\ SF_jobVars(SendJob)
                /\ WF_jobVars(JobClosed \/ JobResponse)
JobsSpec == JobsInit /\ [][JobsNext]_jobVars /\ JobsFairness

-----------------------------------------------------------------------------
\* A filing whose exhibit was queued is in exactly one place until it ends, and
\* in none after: no error path loses it or works on it twice.
JobsAccounted ==
  \A id \in Job : Cardinality({k \in DOMAIN q : q[k].id = id}) + (IF inflight /\ cur.id = id THEN 1 ELSE 0)
                  = IF outcome[id] = "open" THEN 1 ELSE 0

\* "Retry the job once on a fresh connection" (poller.cpp:442): each of its two
\* pages is asked for at most twice.
RetriedOnce == \A id \in Job, s \in {0, 1} : tries[id][s] <= 2

\* Polls and exhibits together never exceed the host's rate: over any number
\* of ticks, at most a full bucket and what those ticks brought.
WithinRate == \A k \in 1 .. Window : Token * sent[k] <= Burst + k * Refill

\* Every queued filing ends: fetched, without exhibit, dropped or in error,
\* provided that again and again the connection is up with the bucket full.
Served == conn = "ready" /\ refilled = Burst
JobsEnd == []<>Served => \A id \in Job : (outcome[id] = "open") ~> (outcome[id] # "open")

\* The jobs are accounted for, retried once per page, and with the polls within
\* the host's rate (poller.cpp:133, 445).
JobsInv == JobsAccounted /\ RetriedOnce /\ WithinRate
=============================================================================
