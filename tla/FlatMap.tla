------------------------------ MODULE FlatMap ------------------------------
(***************************************************************************)
(* FlatMap64 (core/flat_hash.hpp): the open-addressing map behind the      *)
(* order book, the symbol tables and the seen-news set.  Linear probing,   *)
(* capacity a power of two, and an erase that leaves no tombstone: it      *)
(* pulls the rest of the cluster back into the hole.                       *)
(*                                                                         *)
(* slots is a function on 0..capacity-1; a slot is a record of a key and a *)
(* value.  mix64 is any function to the naturals, chosen once in FlatInit: *)
(* the hashes that collide and the clusters that wrap round the end of the *)
(* table are all among them.  contents is the map the caller believes he   *)
(* holds, and no part of the code.                                         *)
(*                                                                         *)
(* The code starts with 8 slots at least; any InitCap is allowed here, as  *)
(* a smaller table fills sooner.  reserve() is left out: it is the growth  *)
(* of an insertion, made earlier and by more than one doubling.            *)
(***************************************************************************)
EXTENDS Integers, FiniteSets, FiniteSetsExt, Functions

CONSTANTS Key, Value, Hashes, InitCap, EmptyKey

(* The key kEmpty is not used; hashes are unsigned, and a table has a slot. *)
ASSUME FlatAssumption == EmptyKey \notin Key /\ Hashes \subseteq Nat /\ InitCap \in Nat \ {0}

VARIABLES slots, size_, mix64, contents

flatVars == <<slots, size_, mix64, contents>>

EmptySlot == [key |-> EmptyKey, value |-> EmptyKey]

Capacity(t) == Cardinality(DOMAIN t)

grow_at(t) == (Capacity(t) * 7) \div 10

index(t, k) == mix64[k] % Capacity(t)

(* The first slot from k's ideal one that holds k or is empty; the loops
   of find, try_emplace, erase and rehash all stop there. *)
Probe(t, k) ==
    LET at(o) == (index(t, k) + o) % Capacity(t)
    IN at(Min({o \in 0..(Capacity(t) - 1) : t[at(o)].key \in {k, EmptyKey}}))

FlatFind(t, k) == t[Probe(t, k)].value

(* Each old slot in turn goes to the first free slot of a table twice the
   size. *)
rehash(t) ==
    LET cap == 2 * Capacity(t)
        moved[n \in 0..Capacity(t)] ==
            IF n = 0 THEN [i \in 0..(cap - 1) |-> EmptySlot]
            ELSE IF t[n - 1].key = EmptyKey THEN moved[n - 1]
            ELSE [moved[n - 1] EXCEPT ![Probe(moved[n - 1], t[n - 1].key)] = t[n - 1]]
    IN moved[Capacity(t)]

(* Mutant: the test of the wrapped case is written like the other one. *)
movableUnwrapped(ideal, hole, j) == ideal <= hole \/ ideal > j

(* May the entry at j, whose ideal slot is given, move back to the hole? *)
movable(ideal, hole, j) ==
    IF hole <= j THEN ideal <= hole \/ ideal > j ELSE ideal <= hole /\ ideal > j

(* The backward shift after the entry at i is taken out: state after o
   slots behind i have been looked at. *)
shifted(t, i) ==
    LET cap == Capacity(t)
        after[o \in 0..cap] ==
            IF o = 0 THEN [tab |-> t, hole |-> i, over |-> FALSE]
            ELSE LET s == after[o - 1]
                     j == (i + o) % cap
                 IN IF s.over \/ s.tab[j].key = EmptyKey THEN [s EXCEPT !.over = TRUE]
                    ELSE IF movable(index(t, s.tab[j].key), s.hole, j)
                         THEN [s EXCEPT !.tab[s.hole] = s.tab[j], !.hole = j]
                         ELSE s
        last == after[cap]
    IN [last.tab EXCEPT ![last.hole].key = EmptyKey]

-----------------------------------------------------------------------------

FlatStart(hash) ==
    /\ slots = [i \in 0..(InitCap - 1) |-> EmptySlot]
    /\ size_ = 0
    /\ mix64 = hash
    /\ contents = [k \in {} |-> EmptyKey]

FlatInit == \E hash \in [Key -> Hashes] : FlatStart(hash)

(* try_emplace followed by the store of the value; the table grows before
   the key is looked for, so also for a key that is there already. *)
insert_or_assign(k, v) ==
    \E t \in {IF size_ + 1 > grow_at(slots) THEN rehash(slots) ELSE slots} :
        /\ slots' = [t EXCEPT ![Probe(t, k)] = [key |-> k, value |-> v]]
        /\ size_' = IF t[Probe(t, k)].key = k THEN size_ ELSE size_ + 1
        /\ contents' = [x \in DOMAIN contents \cup {k} |-> IF x = k THEN v ELSE contents[x]]
        /\ UNCHANGED mix64

erase(k) ==
    /\ IF slots[Probe(slots, k)].key = k
       THEN /\ slots' = shifted(slots, Probe(slots, k))
            /\ size_' = size_ - 1
       ELSE UNCHANGED <<slots, size_>>
    /\ contents' = Restrict(contents, DOMAIN contents \ {k})
    /\ UNCHANGED mix64

clear ==
    /\ slots' = [i \in DOMAIN slots |-> [slots[i] EXCEPT !.key = EmptyKey]]
    /\ size_' = 0
    /\ contents' = [k \in {} |-> EmptyKey]
    /\ UNCHANGED mix64

FlatNext ==
    \/ \E k \in Key, v \in Value : insert_or_assign(k, v)
    \/ \E k \in Key : erase(k)
    \/ clear

FlatSpec == FlatInit /\ [][FlatNext]_flatVars

-----------------------------------------------------------------------------
(* After any sequence of insertions, erasures, growths and clears a lookup
   finds exactly what was stored and not yet erased, under every pattern of
   collisions; size() counts it; and an empty slot is left, without which
   the loops of find() and erase() would never end.  An erase that moves an
   entry of a wrapped cluster past its ideal slot loses it for find(). *)
FindIsMap ==
    /\ \E i \in DOMAIN slots : slots[i].key = EmptyKey
    /\ size_ = Cardinality(DOMAIN contents)
    /\ \A k \in Key :
          LET s == slots[Probe(slots, k)]
          IN IF k \in DOMAIN contents THEN s.key = k /\ FlatFind(slots, k) = contents[k]
                                      ELSE s.key = EmptyKey
=============================================================================
