------------------------------- MODULE SeqLock -------------------------------
(* The lock of one symbol's state on the board: the market thread writes in   *)
(* place between begin_write() and end_write(), the engine copies the state   *)
(* without a lock and copies again when the sequence number has moved.        *)
(*                                                                            *)
(* Stores of the writer become visible to the reader one at a time and in any *)
(* order, except that stores to one location stay in order and that no store  *)
(* overtakes a release fence. A version is the number of the write that made  *)
(* it; a field holds the version that wrote it last.                          *)
EXTENDS Integers, Sequences, SequencesExt

CONSTANTS Field,     \* the words of the state that memcpy copies one by one
          Views,     \* the sets of fields a reader may want: a prefix, or all
          MaxWrites  \* bound on the writes of a behaviour

VARIABLES seq_,      \* the writer's own view of the sequence number
          epoch,     \* release fences passed by the writer
          buffer,    \* its stores that are not visible yet, oldest first
          toWrite,   \* fields the current write has still to store
          mem,       \* what the reader sees: the number and the fields
          s1, view, out, copied  \* the reader's number, wish and copy so far

writerVars == <<seq_, epoch, buffer, toWrite, mem>>
readerVars == <<s1, view, out, copied>>
seqLockVars == <<writerVars, readerVars>>

Unread == -1
Seq0 == "seq"
Odd(n) == n % 2 = 1

ASSUME FieldAssumption == Seq0 \notin Field /\ Views \subseteq SUBSET Field /\ MaxWrites \in Nat

SeqLockInit ==
  /\ seq_ = 0 /\ epoch = 0 /\ buffer = <<>> /\ toWrite = {}
  /\ mem = [l \in Field \union {Seq0} |-> 0]
  /\ s1 = Unread /\ view = {} /\ copied = {}
  /\ out = [f \in Field |-> 0]

Stored(loc, val, e) == [loc |-> loc, val |-> val, epoch |-> e]

\* Mutant: the fence is left out.
FenceMissing == epoch
\* A release fence: no later store becomes visible before the earlier ones.
Fence == epoch + 1

begin_write ==
  /\ ~Odd(seq_) /\ seq_ \div 2 < MaxWrites
  /\ seq_' = seq_ + 1
  /\ buffer' = Append(buffer, Stored(Seq0, seq_', epoch))
  /\ epoch' = Fence
  /\ toWrite' = Field
  /\ UNCHANGED <<mem, readerVars>>

\* One store of the code between begin_write() and end_write(), which may
\* leave fields alone.
WriteField(f) ==
  /\ f \in toWrite
  /\ toWrite' = toWrite \ {f}
  /\ buffer' = Append(buffer, Stored(f, seq_ \div 2 + 1, epoch))
  /\ UNCHANGED <<seq_, epoch, mem, readerVars>>

end_write ==
  /\ Odd(seq_) /\ toWrite = {}
  /\ seq_' = seq_ + 1
  /\ epoch' = Fence
  /\ buffer' = Append(buffer, Stored(Seq0, seq_', epoch'))
  /\ UNCHANGED <<toWrite, mem, readerVars>>

BecomesVisible ==
  \E i \in DOMAIN buffer :
    /\ \A j \in 1..(i - 1) : buffer[j].loc # buffer[i].loc /\ buffer[j].epoch = buffer[i].epoch
    /\ mem' = [mem EXCEPT ![buffer[i].loc] = buffer[i].val]
    /\ buffer' = RemoveAt(buffer, i)
    /\ UNCHANGED <<seq_, epoch, toWrite, readerVars>>

\* Mutant: the copy is made although a write is under way.
QuietAlways(n) == TRUE
Quiet(n) == ~Odd(n)

\* An odd number is read again: the reader stays where it is.
LoadStart ==
  /\ s1 = Unread /\ Quiet(mem[Seq0])
  /\ s1' = mem[Seq0]
  /\ view' \in Views
  /\ copied' = {}
  /\ UNCHANGED <<out, writerVars>>

CopyField(f) ==
  /\ s1 # Unread /\ f \in view \ copied
  /\ out' = [out EXCEPT ![f] = mem[f]]
  /\ copied' = copied \union {f}
  /\ UNCHANGED <<s1, view, writerVars>>

Copied == s1 # Unread /\ copied = view

\* Mutant: a copy that failed is made again under the number it started with.
LoadReturnSameNumber ==
  /\ Copied
  /\ IF mem[Seq0] = s1 THEN s1' = Unread /\ view' = {} ELSE UNCHANGED <<s1, view>>
  /\ copied' = {}
  /\ UNCHANGED <<out, writerVars>>

\* The number is read again. When it has not moved the copy is returned, else
\* the loop starts over; either way the reader is outside.
LoadReturn ==
  /\ Copied
  /\ s1' = Unread /\ view' = {} /\ copied' = {}
  /\ UNCHANGED <<out, writerVars>>

SeqLockNext ==
  \/ begin_write \/ end_write \/ BecomesVisible
  \/ \E f \in Field : WriteField(f) \/ CopyField(f)
  \/ LoadStart \/ LoadReturn

\* The writer, the memory and the reader go on.
Writes == end_write \/ \E f \in Field : WriteField(f)
Reads == LoadStart \/ LoadReturn \/ \E f \in Field : CopyField(f)
SeqLockFairness == WF_seqLockVars(Writes) /\ WF_seqLockVars(BecomesVisible) /\ WF_seqLockVars(Reads)

SeqLockSpec == SeqLockInit /\ [][SeqLockNext]_seqLockVars /\ SeqLockFairness

-----------------------------------------------------------------------------
\* What load_prefix() is about to return is one version of the state, the one
\* its number stands for, however the stores of later writes became visible
\* while memcpy ran.
CopyIsOneVersion ==
  Copied /\ mem[Seq0] = s1 => \A f \in view : out[f] = s1 \div 2

\* The fields and the number the reader sees agree: fields of the version the
\* number stands for, or of the write that has begun. This is why the test of
\* the number is enough.
MemoryOrdered ==
  \A f \in Field : mem[f] \in {mem[Seq0] \div 2, (mem[Seq0] + 1) \div 2}

\* A reader gets its copy in the end: the writer's visits are short, and with
\* finitely many of them the retries end.
LoadReturns == (s1 # Unread) ~> (Copied /\ mem[Seq0] = s1)

\* The lock's invariant: number and fields agree in memory, so that a copy
\* accepted by load_prefix() is one version (seqlock.hpp:55).
SeqLockInv == MemoryOrdered /\ CopyIsOneVersion
=============================================================================
