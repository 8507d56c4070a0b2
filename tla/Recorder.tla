------------------------------ MODULE Recorder ------------------------------
(* The feed written to a gzip file and read back. The market thread pushes    *)
(* each message into a ring, the recorder's thread writes it behind its       *)
(* length, stop() ends the gzip member; a crash ends nothing, and a restart   *)
(* appends a member behind what is there. ItchFileReader reads the file       *)
(* through a buffer that need not hold whole messages; a member begun behind  *)
(* one that was not ended is an error to gzread().                            *)
(*                                                                            *)
(* A message is its number; a byte is <<message, position>>, the first one    *)
(* being its length.                                                          *)
EXTENDS Naturals, Sequences, SequencesExt, FiniteSetsExt

CONSTANTS RecCap,      \* capacity of the ring
          SizeOf,      \* bytes of a message in the file, its length included
          BufSize,     \* bytes of the reader's buffer, at least a message
          Ahead,       \* bytes gzread() may decode beyond those it is asked for
          MaxMessages, MaxLives

\* A message has at least its length.
ASSUME RecorderAssumption ==
  MaxMessages \in Nat /\ BufSize \in Nat /\ Ahead \in Nat /\ SizeOf \in [1..MaxMessages -> Nat \ {0}]

VARIABLES given,       \* history: messages pushed so far, over all lives
          ring, dropped,
          gz,          \* the file: gzip members
          running_, recPc,  \* the flag, and its thread: "loop", "last", "ended"
          mode,        \* "record", "read" or "end"
          crashes, lives,
          buf_, pos_, at, eof_,  \* the reader: buffer, position, bytes of the file read
          replayed     \* what the reader decoded

recVars == <<given, ring, dropped, gz, running_, recPc, crashes, lives>>
readVars == <<buf_, pos_, at, eof_, replayed>>
recorderVars == <<recVars, mode, readVars>>

Bytes(m) == [i \in 1..SizeOf[m] |-> <<m, i>>]
\* A member: its bytes, how much a sync has put on the disk (0 for nothing, else
\* the header, counted as one, and the bytes), and whether gzclose() ended it.
NewMember == [bytes |-> <<>>, synced |-> 0, ended |-> FALSE]
LastOf(f) == f[Len(f)]
Close(f) == [f EXCEPT ![Len(f)].ended = TRUE]

RecorderInit ==
  /\ given = 0 /\ ring = <<>> /\ dropped = {}
  /\ gz = <<NewMember>> /\ running_ = TRUE /\ recPc = "loop"
  /\ mode = "record" /\ crashes = 0 /\ lives = 1
  /\ buf_ = <<>> /\ pos_ = 0 /\ at = 0 /\ eof_ = FALSE /\ replayed = <<>>

-----------------------------------------------------------------------------
(* ItchRecorder *)

push ==
  /\ mode = "record" /\ running_ /\ given < MaxMessages
  /\ given' = given + 1
  /\ IF Len(ring) < RecCap THEN ring' = Append(ring, given') /\ UNCHANGED dropped
                           ELSE dropped' = dropped \union {given'} /\ UNCHANGED ring
  /\ UNCHANGED <<gz, running_, recPc, crashes, lives, mode, readVars>>

WriteOne ==
  /\ mode = "record" /\ recPc \in {"loop", "last"} /\ ring # <<>>
  /\ gz' = [gz EXCEPT ![Len(gz)].bytes = @ \o Bytes(Head(ring))]
  /\ ring' = Tail(ring)
  /\ UNCHANGED <<given, dropped, running_, recPc, crashes, lives, mode, readVars>>

SyncFlush ==
  /\ mode = "record" /\ recPc = "loop"
  /\ gz' = [gz EXCEPT ![Len(gz)].synced = Len(LastOf(gz).bytes) + 1]
  /\ UNCHANGED <<given, ring, dropped, running_, recPc, crashes, lives, mode, readVars>>

\* The market thread has been joined before the destructor calls stop().
stop ==
  /\ mode = "record" /\ running_
  /\ running_' = FALSE
  /\ UNCHANGED <<given, ring, dropped, gz, recPc, crashes, lives, mode, readVars>>

\* Mutant: no drain after the loop.
AfterLoopAtOnce == "ended"
AfterLoop == "last"

LeaveLoop ==
  /\ mode = "record"
  /\ \/ recPc = "loop" /\ ~running_ /\ recPc' = AfterLoop
     \/ recPc = "last" /\ ring = <<>> /\ recPc' = "ended"
  /\ UNCHANGED <<given, ring, dropped, gz, running_, crashes, lives, mode, readVars>>

\* stop() has joined the thread: gzclose(). Then the file is read, or a new
\* start in the same session appends to it.
Closed ==
  /\ mode = "record" /\ recPc = "ended"
  /\ \/ gz' = Close(gz) /\ mode' = "read" /\ UNCHANGED <<running_, recPc, lives>>
     \/ /\ lives < MaxLives /\ lives' = lives + 1
        /\ gz' = Append(Close(gz), NewMember) /\ running_' = TRUE /\ recPc' = "loop"
        /\ UNCHANGED mode
  /\ UNCHANGED <<given, ring, dropped, crashes, readVars>>

\* What a crash may leave of the last member: its header and the first n bytes,
\* at least those that were synced, or nothing at all.
OnDisk(r) == {n \in 0..Len(r.bytes) : r.synced <= n + 1}
NoTrace(r, n) == r.synced = 0 /\ n = 0
Cut(f, n) == [f EXCEPT ![Len(f)].bytes = SubSeq(@, 1, n)]

\* The process dies. The next start appends, or begins anew where nothing of the
\* member had reached the disk; or the file is read as it is.
Crash ==
  /\ mode = "record"
  /\ crashes' = crashes + 1 /\ ring' = <<>>
  /\ \E n \in OnDisk(LastOf(gz)) :
       \/ /\ lives < MaxLives /\ lives' = lives + 1
          /\ gz' = IF NoTrace(LastOf(gz), n) THEN [gz EXCEPT ![Len(gz)] = NewMember]
                                             ELSE Append(Cut(gz, n), NewMember)
          /\ running_' = TRUE /\ recPc' = "loop" /\ UNCHANGED mode
       \/ gz' = Cut(gz, n) /\ mode' = "read" /\ UNCHANGED <<lives, running_, recPc>>
  /\ UNCHANGED <<given, dropped, readVars>>

-----------------------------------------------------------------------------
(* ItchFileReader *)

\* What there is to read: all members up to the first that was not ended, and
\* its bytes. With nothing behind it the file just ends there; the header of a
\* next member is damage to gzread().
Damaged == {i \in DOMAIN gz : ~gz[i].ended}
Broken == Damaged # {} /\ Min(Damaged) < Len(gz)
Readable ==
  FlattenSeq([i \in 1..(IF Damaged = {} THEN Len(gz) ELSE Min(Damaged)) |-> gz[i].bytes])

Rest == SubSeq(buf_, pos_ + 1, Len(buf_))

\* Mutant: the length is enough to decode a message.
HasLength(b) == b # <<>>
HasMessage(b) == b # <<>> /\ Len(b) >= SizeOf[b[1][1]]

\* refill(): as much as fits, or all there is. A read that decodes into the
\* damage fails, and eof_ with it: up to zlib 1.3.1 nothing of it is delivered,
\* later versions deliver a first part.
refill ==
  /\ mode = "read" /\ ~HasMessage(Rest) /\ ~eof_
  /\ LET room == BufSize - Len(Rest)
         left == Len(Readable) - at
     IN  \E n \in 0..left :
           /\ \/ n = Min({room, left}) /\ (Broken => n = room) /\ eof_' = (n < room)
              \/ Broken /\ left < room + Ahead /\ n <= room /\ eof_' = TRUE
           /\ buf_' = Rest \o SubSeq(Readable, at + 1, at + n)
           /\ at' = at + n
  /\ pos_' = 0
  /\ UNCHANGED <<recVars, mode, replayed>>

Decode ==
  /\ mode = "read" /\ HasMessage(Rest)
  /\ replayed' = Append(replayed, Rest[1][1])
  /\ pos_' = pos_ + SizeOf[Rest[1][1]]
  /\ UNCHANGED <<recVars, mode, buf_, at, eof_>>

\* The end of what could be read, or a message cut short there.
ReadEnd ==
  /\ mode = "read" /\ ~HasMessage(Rest) /\ eof_
  /\ mode' = "end"
  /\ UNCHANGED <<recVars, readVars>>

RecorderNext == push \/ WriteOne \/ SyncFlush \/ stop \/ LeaveLoop \/ Closed \/ Crash \/ refill \/ Decode \/ ReadEnd

RecorderSpec == RecorderInit /\ [][RecorderNext]_recorderVars

-----------------------------------------------------------------------------
Kept == (1..given) \ dropped

\* Without a crash, over any number of orderly restarts, the replay has every
\* message that was pushed and not counted as dropped, whatever the sizes of
\* reads and buffer.
ReplayComplete == mode = "end" /\ crashes = 0 => ToSet(replayed) = Kept

\* With and without crashes the replay is whole messages, each once and in the
\* order of the feed. It has every message of the file, all that was synced
\* included, while no member was begun behind one that was not ended; and then
\* it has those before the damage but for what one read asks for and decodes.
ReplaySound ==
  mode = "end" =>
    /\ \A i, j \in DOMAIN replayed : i < j => replayed[i] < replayed[j]
    /\ ToSet(replayed) \subseteq Kept
    /\ ~Broken => \A g \in DOMAIN gz, m \in 1..given :
         (\E i \in 1..(gz[g].synced - 1) : gz[g].bytes[i] = <<m, SizeOf[m]>>) => m \in ToSet(replayed)
    /\ \A k \in DOMAIN Readable, m \in 1..given :
         Readable[k] = <<m, SizeOf[m]>> /\ (Broken => k + BufSize + Ahead <= Len(Readable)) => m \in ToSet(replayed)

\* What is read back is what was recorded: all of it without a crash; after one
\* all that was synced, unless a restart appended to the file, and then all but
\* a bounded part before the damage; never a message that was not there
\* (recorder.cpp:15, :56, sources.cpp:45).
ReplayInv == ReplayComplete /\ ReplaySound

\* "Append mode: a restart mid-day adds a new gzip member, which readers (zlib's
\* gzread) handle transparently" (recorder.cpp:13): what an orderly stop()
\* recorded is read back whatever came before it. After a crash it is not.
RestartReadsOn ==
  mode = "end" => \A g \in DOMAIN gz, m \in 1..given :
    gz[g].ended /\ (\E i \in DOMAIN gz[g].bytes : gz[g].bytes[i] = <<m, SizeOf[m]>>) => m \in ToSet(replayed)
=============================================================================
