----------------------------- MODULE Connection -----------------------------
(***************************************************************************)
(* net/connection.cpp: one persistent HTTP/1.1 connection driven as a      *)
(* non-blocking state machine, plain or TLS, over ResponseParser.          *)
(*                                                                         *)
(* External: the socket, OpenSSL and the server.  The server answers a     *)
(* request it has received whole with one of Responses, a token at a time  *)
(* or many, and may close at any moment.  SSL_write and SSL_read may ask   *)
(* for the other direction first.  Times are not modelled: a limit may     *)
(* have passed at any moment.  The operations are the ones an owner calls; *)
(* each leaves in `event' what the code returns.                           *)
(***************************************************************************)
EXTENDS ResponseParser

CONSTANTS Responses,    \* token sequences of the answers, without the request they belong to
          RequestSize   \* units in which a request may be written

VARIABLES state_, fd_, tls_, interest_, wpos_, rbuf_, parser_, idle_close_,
          first_byte,   \* t_first_byte # 0
          used,         \* requests_on_connection > 0
          blocked,      \* history: the direction the last call on the socket waits for
          event,        \* what the last operation returned
          arrived,      \* external: tokens received and not yet read
          fin,          \* external: the server has closed behind them
          coming        \* external: tokens of the answer still on their way

connection == <<state_, fd_, tls_, interest_, wpos_, rbuf_, parser_, idle_close_, first_byte, used, blocked, event>>
network == <<arrived, fin, coming>>

ConnectionInit ==
  /\ state_ = "Idle" /\ fd_ = FALSE /\ tls_ \in BOOLEAN /\ interest_ = {} /\ wpos_ = 0 /\ rbuf_ = <<>>
  /\ parser_ = reset(FALSE) /\ idle_close_ = FALSE /\ first_byte = FALSE /\ used = FALSE
  /\ blocked = {} /\ event = "None" /\ arrived = <<>> /\ fin = FALSE /\ coming = <<>>

ready == state_ = "Ready"
Readable == arrived # <<>> \/ fin

Await(directions, on) == interest_' = on /\ blocked' = directions
Read == {"in", "rdhup"}
NewSocket == arrived' = <<>> /\ fin' = FALSE /\ coming' = <<>>

\* close(): whatever the server still sends is lost with the socket.
close == /\ fd_' = FALSE /\ interest_' = {} /\ blocked' = {} /\ state_' = "Idle"
         /\ NewSocket
         /\ UNCHANGED <<tls_, wpos_, rbuf_, parser_, idle_close_, first_byte, used>>

fail(read, p) ==
  /\ fd_' = FALSE /\ interest_' = {} /\ blocked' = {} /\ state_' = "Failed" /\ event' = "Closed"
  /\ idle_close_' = (state_ = "Ready")
  /\ rbuf_' = read /\ parser_' = p /\ first_byte' = (first_byte \/ read # <<>>)
  /\ NewSocket
  /\ UNCHANGED <<tls_, wpos_, used>>
Fail == fail(rbuf_, parser_)

\* finish_connect() and do_handshake(): ready at once, waiting for the peer, or failed.
Established == /\ state_' = "Ready" /\ event' = "Connected" /\ Await({"in"}, Read)
Handshake == \/ Established
             \/ /\ state_' = "Handshaking" /\ event' = "None"
                /\ \E d \in {"in", "out"} : Await({d}, {d})

connect ==
  /\ fd_' = TRUE /\ idle_close_' = FALSE /\ used' = FALSE
  /\ NewSocket
  /\ \/ state_' = "Connecting" /\ event' = "None" /\ Await({"out"}, {"out"})
     \/ IF tls_ THEN Handshake ELSE Established
  /\ UNCHANGED <<tls_, wpos_, rbuf_, parser_, first_byte>>

\* socket() or connect() fails, or the immediate handshake does.
connectFails ==
  /\ fd_' = FALSE /\ idle_close_' = FALSE /\ used' = FALSE
  /\ interest_' = {} /\ blocked' = {} /\ state_' = "Failed" /\ event' = "Closed"
  /\ NewSocket
  /\ UNCHANGED <<tls_, wpos_, rbuf_, parser_, first_byte>>

finish_connect ==
  \/ /\ IF tls_ THEN Handshake ELSE Established
     /\ UNCHANGED <<fd_, tls_, wpos_, rbuf_, parser_, idle_close_, first_byte, used>> /\ UNCHANGED network
  \/ Fail

do_handshake ==
  \/ Handshake /\ UNCHANGED <<fd_, tls_, wpos_, rbuf_, parser_, idle_close_, first_byte, used>> /\ UNCHANGED network
  \/ Fail

\* do_write() from unit `from' on: as much as the socket takes.
do_write(from) ==
  \E upto \in from .. RequestSize :
    /\ wpos_' = upto /\ event' = "None"
    /\ \/ upto = RequestSize /\ state_' = "Reading" /\ Await({"in"}, Read)
       \/ upto < RequestSize /\ state_' = "Writing" /\ Await({"out"}, {"out"})
       \/ upto < RequestSize /\ tls_ /\ state_' = "Writing" /\ Await({"in"}, {"in"})

Fresh == rbuf_' = <<>> /\ parser_' = reset(FALSE)

send == /\ ready
        /\ first_byte' = FALSE
        /\ Fresh
        /\ do_write(0)
        /\ UNCHANGED <<fd_, tls_, idle_close_, used>> /\ UNCHANGED network

\* send() whose write fails.  The server may have received all of the request but its end.
sendFails == /\ ready
             /\ fd_' = FALSE /\ interest_' = {} /\ blocked' = {} /\ state_' = "Failed" /\ event' = "Closed"
             /\ idle_close_' = FALSE /\ first_byte' = FALSE /\ wpos_' = 0
             /\ Fresh /\ NewSocket
             /\ UNCHANGED <<tls_, used>>

\* Reads what has arrived, up to the end of the stream or until the socket is
\* empty; SSL_read may ask for the other direction, but the interest that sets
\* is overwritten before the call returns.
do_read ==
  \E n \in {0, Len(arrived)} : \E r \in {feed(parser_, rbuf_ \o SubSeq(arrived, 1, n), n = Len(arrived) /\ fin)} :
    LET read == rbuf_ \o SubSeq(arrived, 1, n)
        all == n = Len(arrived)
        eof == all /\ fin
    IN  /\ all \/ tls_
        /\ \/ /\ r.result = "Done"
              /\ state_' = "Done" /\ event' = "Response" /\ used' = TRUE
              /\ parser_' = [r.p EXCEPT !.keep_alive = @ /\ ~ eof]
              /\ rbuf_' = read /\ first_byte' = (first_byte \/ n > 0)
              /\ arrived' = Drop(arrived, n)
              /\ UNCHANGED <<fd_, tls_, interest_, wpos_, idle_close_, blocked, fin, coming>>
           \/ r.result = "Error" /\ fail(read, r.p)
           \/ /\ r.result = "NeedMore" /\ ~ eof
              /\ event' = "None" /\ parser_' = r.p
              /\ rbuf_' = read /\ first_byte' = (first_byte \/ n > 0)
              /\ arrived' = Drop(arrived, n)
              /\ \E d \in {"in", "out"} : (all \/ d = "out") /\ (tls_ \/ d = "in") /\ Await({d}, Read)
              /\ UNCHANGED <<state_, fd_, tls_, wpos_, idle_close_, used, fin, coming>>

drain_idle == Readable /\ Fail

on_events ==
  /\ fd_
  /\ \/ state_ = "Connecting" /\ "out" \in interest_ /\ finish_connect
     \/ state_ = "Handshaking" /\ do_handshake
     \/ /\ state_ = "Writing"
        /\ \/ do_write(wpos_) /\ UNCHANGED <<fd_, tls_, rbuf_, parser_, idle_close_, first_byte, used>> /\ UNCHANGED network
           \/ Fail
     \/ state_ = "Reading" /\ Readable /\ do_read
     \/ state_ = "Reading" /\ fin /\ Fail  \* the connection was reset
     \/ ready /\ drain_idle

\* Mutant: the socket of a request given up is kept for the next one.
check_timeoutKeepsSocket ==
  \/ state_ \in {"Connecting", "Handshaking", "Writing"} /\ Fail
  \/ /\ state_ = "Reading" /\ state_' = "Ready" /\ event' = "Closed"
     /\ UNCHANGED <<fd_, tls_, interest_, wpos_, rbuf_, parser_, idle_close_, first_byte, used, blocked>> /\ UNCHANGED network
check_timeout == /\ state_ \in {"Connecting", "Handshaking", "Writing", "Reading"}
                 /\ Fail

recycle == IF parser_.keep_alive /\ fd_
           THEN /\ state_' = "Ready" /\ Await({"in"}, Read)
                /\ UNCHANGED <<fd_, tls_, wpos_, rbuf_, parser_, idle_close_, first_byte, used>> /\ UNCHANGED network
           ELSE close

-----------------------------------------------------------------------------
(* The server *)
Answer(id) == /\ fd_ /\ state_ = "Reading" /\ ~ fin
              /\ coming' \in {[k \in 1 .. Len(r) |-> IF r[k][1] = "byte" THEN Byte(<<id, r[k][2]>>) ELSE r[k]] : r \in Responses}
              /\ UNCHANGED connection /\ UNCHANGED <<arrived, fin>>

Deliver == /\ fd_ /\ coming # <<>>
           /\ \E n \in 1 .. Len(coming) : arrived' = arrived \o SubSeq(coming, 1, n) /\ coming' = Drop(coming, n)
           /\ UNCHANGED connection /\ UNCHANGED fin

ServerCloses == /\ fd_ /\ ~ fin /\ state_ \notin {"Connecting", "Handshaking"}
                /\ fin' = TRUE /\ coming' = <<>>
                /\ UNCHANGED connection /\ UNCHANGED arrived
=============================================================================
