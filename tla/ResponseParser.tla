--------------------------- MODULE ResponseParser ---------------------------
(***************************************************************************)
(* net/http.cpp: the incremental parser of HTTP/1.1 responses.             *)
(*                                                                         *)
(* A response is a sequence of tokens, the places where a read may cut it: *)
(* a status line with its header fields is one token, every carriage       *)
(* return, line feed, chunk size and body byte another.  Offsets count     *)
(* tokens from 0, as the code counts bytes.                                *)
(***************************************************************************)
EXTENDS Integers, Sequences, FiniteSetsExt

CONSTANTS MaxHeader,  \* the limit on the header block, 2^20 bytes in the code
          MaxChunk    \* the limit on a chunk, 2^29 bytes in the code

Cr == <<"cr">>
Lf == <<"lf">>
HeadToken(h) == <<"head", h>>
SizeToken(n) == <<"size", n>>
Byte(b) == <<"byte", b>>

At(s, offset) == s[offset + 1]
From(s, offset, n) == SubSeq(s, offset + 1, offset + n)
Drop(s, offset) == SubSeq(s, offset + 1, Len(s))
NotFound == -1

\* std::string_view::find(pattern, from)
Find(s, pattern, from) ==
  LET places == {e \in from .. Len(s) - Len(pattern) : From(s, e, Len(pattern)) = pattern}
  IN  IF places = {} THEN NotFound ELSE Min(places)

reset(is_head) ==
  [phase |-> "Headers", head |-> is_head, status |-> 0, keep_alive |-> TRUE, error |-> FALSE,
   scan |-> 0, body_start |-> 0, content_length |-> -1, cs |-> "Size", cpos |-> 0, chunk_left |-> 0,
   dechunked |-> <<>>, use_dechunked |-> FALSE, body_len |-> 0]

body(p, s) == IF p.use_dechunked THEN p.dechunked ELSE From(s, p.body_start, p.body_len)

Continue(p) == [result |-> "Continue", p |-> p]
NeedMore(p) == [result |-> "NeedMore", p |-> p]
Done(p) == [result |-> "Done", p |-> [p EXCEPT !.phase = "Done"]]
Error(p) == [result |-> "Error", p |-> [p EXCEPT !.error = TRUE]]

Interim(status) == status \in 100 .. 199

\* The header block [from, to) of s; nothing but a well-formed head is accepted.
ParsesAs(s, from, to) == from < to /\ At(s, from)[1] = "head"

parse_headers(p, h) ==
  LET q == [p EXCEPT !.status = h.status,
                     !.keep_alive = CASE h.connection = "close" -> FALSE
                                      [] h.connection = "keep-alive" -> TRUE
                                      [] OTHER -> ~ h.http10,
                     !.content_length = IF h.content_length >= 0 THEN h.content_length ELSE @]
  IN  CASE p.head \/ h.status \in {204, 304} \/ Interim(h.status) -> [q EXCEPT !.phase = "Done"]
        [] h.chunked -> [q EXCEPT !.phase = "Chunked", !.use_dechunked = TRUE]
        [] q.content_length >= 0 -> [q EXCEPT !.phase = "Length"]
        [] OTHER -> [q EXCEPT !.phase = "UntilClose", !.keep_alive = FALSE]

\* One state of parse_chunked()'s loop.
parse_chunked(p, s) ==
  LET eol == Find(s, <<Cr, Lf>>, p.cpos)
      avail == Len(s) - p.cpos
      take == Min({avail, p.chunk_left})
  IN  CASE p.cs = "Size" ->
             IF eol = NotFound THEN NeedMore(p)
             ELSE IF eol # p.cpos + 1 \/ At(s, p.cpos)[1] # "size" \/ At(s, p.cpos)[2] > MaxChunk THEN Error(p)
             ELSE LET n == At(s, p.cpos)[2]
                  IN  Continue([p EXCEPT !.cpos = eol + 2, !.chunk_left = n, !.cs = IF n = 0 THEN "Trailer" ELSE "Data"])
        [] p.cs = "Data" ->
             LET q == [p EXCEPT !.dechunked = @ \o From(s, p.cpos, take), !.cpos = @ + take, !.chunk_left = @ - take]
             IN  IF q.chunk_left > 0 THEN NeedMore(q) ELSE Continue([q EXCEPT !.cs = "DataCrlf"])
        [] p.cs = "DataCrlf" ->
             IF avail < 2 THEN NeedMore(p)
             ELSE IF From(s, p.cpos, 2) # <<Cr, Lf>> THEN Error(p)
             ELSE Continue([p EXCEPT !.cpos = @ + 2, !.cs = "Size"])
        [] p.cs = "Trailer" ->
             IF eol = NotFound THEN NeedMore(p)
             ELSE IF eol = p.cpos THEN Done([p EXCEPT !.cpos = eol + 2]) ELSE Continue([p EXCEPT !.cpos = eol + 2])

\* Mutant: the search goes on where it stopped, past the start of a terminator.
ScanFromEnd(p) == p.scan
ScanFrom(p) == IF p.scan > 3 THEN p.scan - 3 ELSE 0

\* One phase of feed()'s loop.
Phase(p, s, eof) ==
  CASE p.phase = "Headers" ->
         LET e == Find(s, <<Cr, Lf, Cr, Lf>>, ScanFrom(p))
             q == [parse_headers(p, At(s, p.body_start)[2]) EXCEPT !.body_start = e + 4, !.cpos = e + 4]
         IN  IF e = NotFound
             THEN IF Len(s) > MaxHeader \/ eof THEN Error([p EXCEPT !.scan = Len(s)]) ELSE NeedMore([p EXCEPT !.scan = Len(s)])
             ELSE IF ~ ParsesAs(s, p.body_start, e + 2) THEN Error(p)
             ELSE IF Interim(q.status) /\ q.status # 101
             THEN Continue([q EXCEPT !.phase = "Headers", !.scan = q.body_start, !.cpos = p.cpos])
             ELSE Continue(q)
    [] p.phase = "Length" ->
         IF Len(s) - p.body_start < p.content_length
         THEN IF eof THEN Error(p) ELSE NeedMore(p)
         ELSE Done([p EXCEPT !.body_len = p.content_length])
    [] p.phase = "Chunked" ->
         LET r == parse_chunked(p, s)
         IN  IF r.result = "NeedMore" /\ eof THEN Error(r.p) ELSE r
    [] p.phase = "UntilClose" ->
         IF eof THEN Done([p EXCEPT !.body_len = Len(s) - p.body_start]) ELSE NeedMore(p)
    [] p.phase = "Done" -> Done(p)

\* feed(): every turn of the loop consumes a token or is the last but one.
\* (A singleton binds the outcome of a turn, so that TLC evaluates it once.)
Turn(r, s, eof) == CHOOSE next \in {IF o.result = "Continue" THEN Phase(o.p, s, eof) ELSE o : o \in {r}} : TRUE
feed(p, s, eof) == LET after[turns \in 0 .. Len(s) + 2] == IF turns = 0 THEN Continue(p) ELSE Turn(after[turns - 1], s, eof)
                   IN  after[Len(s) + 2]
=============================================================================
