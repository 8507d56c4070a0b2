----------------------------- MODULE HttpClient -----------------------------
(***************************************************************************)
(* net/http_client.cpp: the blocking client built on Connection, used to   *)
(* deliver alerts and to fetch reference data.  Requests are numbered; the *)
(* deadline of the one in hand may pass at any moment.                     *)
(***************************************************************************)
EXTENDS Connection

CONSTANTS MaxRequests   \* bound: calls of request()

VARIABLES pc,        \* where request() is: "idle", "check", "connect", "wait"
          id,        \* the request in hand, 0 before the first
          attempt, was_ready, reused,
          late,      \* mono_ns() >= deadline
          result,    \* res of the last call
          written,   \* history: attempt -> the request was written whole
          heard      \* history: attempt -> bytes of an answer arrived

client == <<pc, id, attempt, was_ready, reused, late, result, written, heard>>
clientVars == <<connection, network, client>>

NoResult == [status |-> 0, body |-> <<>>, error |-> TRUE]

ClientInit == /\ ConnectionInit
              /\ pc = "idle" /\ id = 0 /\ attempt = 0 /\ was_ready = FALSE /\ reused = FALSE /\ late = FALSE
              /\ result = NoResult /\ written = {} /\ heard = {}

Trace == /\ written' = IF state_' = "Reading" THEN written \cup {attempt} ELSE written
         /\ heard' = IF first_byte' /\ pc = "wait" THEN heard \cup {attempt} ELSE heard

Return(r) == pc' = "idle" /\ result' = r
Answered == [status |-> parser_.status, body |-> body(parser_, rbuf_), error |-> FALSE]

\* request(): the call, and the head of its loop
Call == /\ pc = "idle" /\ id < MaxRequests
        /\ id' = id + 1 /\ attempt' = 0 /\ was_ready' = ready /\ late' = FALSE /\ pc' = "check"
        /\ result' = NoResult /\ written' = {} /\ heard' = {}
        /\ UNCHANGED reused /\ UNCHANGED connection /\ UNCHANGED network

\* ensure_connected(): a ready connection is asked for a close it missed ...
ReuseChecked == /\ pc = "check" /\ ready /\ Readable
                /\ on_events
                /\ UNCHANGED client
Reuse == /\ pc = "check" /\ ready /\ ~ Readable
         /\ reused' = (was_ready /\ used) /\ pc' = "send"
         /\ UNCHANGED <<id, attempt, was_ready, late, result, written, heard>>
         /\ UNCHANGED connection /\ UNCHANGED network
\* ... and any other is connected anew, if its name is resolved.
Reconnect == /\ pc = "check" /\ ~ ready
             /\ connect
             /\ \/ ready' /\ pc' = "send" /\ reused' = FALSE
                \/ ~ ready' /\ pc' = "connect" /\ UNCHANGED reused
             /\ UNCHANGED <<id, attempt, was_ready, late, result, written, heard>>
NoConnect == /\ pc = "check" /\ ~ ready
             /\ \/ connectFails
                \/ UNCHANGED connection /\ UNCHANGED network
             /\ Return(NoResult)
             /\ UNCHANGED <<id, attempt, was_ready, reused, late, written, heard>>

\* pump(): one wait for the socket
Pumped == ~ late /\ (on_events \/ check_timeout)

Connecting == /\ pc = "connect" /\ ~ ready
              /\ Pumped
              /\ event' # "Closed" /\ UNCHANGED client
\* The deadline is looked at after every wait: a connection that is ready only
\* then is closed too.
ConnectFailed == /\ pc = "connect"
                 /\ \/ ~ ready /\ Pumped /\ event' = "Closed"
                    \/ late /\ close /\ UNCHANGED event
                 /\ Return(NoResult)
                 /\ UNCHANGED <<id, attempt, was_ready, reused, late, written, heard>>
Connected == /\ pc = "connect" /\ ready /\ ~ late
             /\ reused' = (was_ready /\ used) /\ pc' = "send"
             /\ UNCHANGED <<id, attempt, was_ready, late, result, written, heard>>
             /\ UNCHANGED connection /\ UNCHANGED network

Again == attempt' = attempt + 1 /\ was_ready' = FALSE /\ pc' = "check" /\ UNCHANGED result

Send == /\ pc = "send" /\ send
        /\ Trace /\ pc' = "wait"
        /\ UNCHANGED <<id, attempt, was_ready, reused, late, result>>
SendFailed == /\ pc = "send" /\ sendFails
              /\ \/ attempt = 0 /\ reused /\ Again
                 \/ ~ (attempt = 0 /\ reused) /\ Return(NoResult) /\ UNCHANGED <<attempt, was_ready>>
              /\ UNCHANGED <<id, reused, late, written, heard>>

Wait == /\ pc = "wait" /\ state_ # "Done" /\ Pumped /\ event' # "Closed"
        /\ Trace
        /\ UNCHANGED <<pc, id, attempt, was_ready, reused, late, result>>

\* Mutant: whatever arrived, a request on a reused connection is sent again.
RetryAnyway == attempt = 0 /\ reused
Retry == attempt = 0 /\ reused /\ ~ first_byte'

Lost == /\ pc = "wait" /\ state_ # "Done"
        /\ Pumped /\ event' = "Closed"
        /\ Trace
        /\ \/ Retry /\ Again
           \/ ~ Retry /\ Return(NoResult) /\ UNCHANGED <<attempt, was_ready>>
        /\ UNCHANGED <<id, reused, late>>

\* Mutant: a call whose deadline has passed goes on waiting.
PassedNever == FALSE
Passed == late

TooLate == /\ pc = "wait" /\ state_ # "Done" /\ Passed
           /\ \/ /\ attempt = 0 /\ reused /\ ~ first_byte
                 /\ Again /\ UNCHANGED connection /\ UNCHANGED network
              \/ /\ ~ (attempt = 0 /\ reused /\ ~ first_byte)
                 /\ close /\ UNCHANGED event
                 /\ Return(NoResult) /\ UNCHANGED <<attempt, was_ready>>
           /\ UNCHANGED <<id, reused, late, written, heard>>

Respond == /\ pc = "wait" /\ state_ = "Done"
           /\ Return(Answered)
           /\ recycle /\ UNCHANGED event
           /\ UNCHANGED <<id, attempt, was_ready, reused, late, written, heard>>

TimePasses == /\ pc # "idle" /\ ~ late /\ late' = TRUE
              /\ UNCHANGED <<pc, id, attempt, was_ready, reused, result, written, heard>>
              /\ UNCHANGED connection /\ UNCHANGED network

Server == /\ Answer(id) /\ arrived = <<>> /\ coming = <<>> /\ rbuf_ = <<>> /\ UNCHANGED client
Network == (Deliver \/ ServerCloses) /\ UNCHANGED client

Request == \/ ReuseChecked \/ Reuse \/ Reconnect \/ NoConnect \/ Connecting \/ ConnectFailed \/ Connected
           \/ Send \/ SendFailed \/ Wait \/ Lost \/ TooLate \/ Respond

ClientNext == Call \/ Request \/ TimePasses \/ Server \/ Network

\* The calling thread runs and the clock advances; the network owes nothing.
ClientFairness == WF_clientVars(Request) /\ WF_clientVars(TimePasses)
ClientSpec == ClientInit /\ [][ClientNext]_clientVars /\ ClientFairness

-----------------------------------------------------------------------------
\* A result with a status is an answer to the request of this very call, and
\* its body is one the server gave, however reads cut it and whatever became
\* of the requests before on the same connection.
AnswerIsOwn ==
  pc = "idle" /\ ~ result.error =>
    /\ \A k \in 1 .. Len(result.body) : result.body[k][2][1] = id
    /\ \E r \in Responses : result.body = [k \in 1 .. Len(result.body) |-> Byte(<<id, k>>)]
                            /\ Len(result.body) = Cardinality({k \in 1 .. Len(r) : r[k][1] = "byte"})

\* How far a parse has come does not depend on how the reads cut the answer.
ParsedAsWhole ==
  state_ \in {"Reading", "Done"} =>
    \A whole \in {feed(reset(FALSE), rbuf_, FALSE)} :
        IF state_ = "Reading" THEN [parser_ EXCEPT !.scan = 0] = [whole.p EXCEPT !.scan = 0]
        ELSE whole.result = "Done" => body(parser_, rbuf_) = body(whole.p, rbuf_)

\* "retry once on a new connection" (http_client.cpp:119): a request is written
\* at most twice, and never again once a byte of an answer has arrived.
ResentOnlyUnanswered == Cardinality(written) <= 2 /\ (heard # {} => \A a \in written, b \in heard : a <= b)

\* Every call returns, whatever the server does.
CallReturns == (pc # "idle") ~> (pc = "idle")

\* What a call hands out is the server's answer to it, whole, for a request
\* that was not sent again once answered (http_client.cpp:120, http.cpp:253).
ClientInv == AnswerIsOwn /\ ParsedAsWhole /\ ResentOnlyUnanswered
=============================================================================
