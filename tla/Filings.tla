------------------------------ MODULE Filings ------------------------------
(***************************************************************************)
(* FilingsHistory (ref/filings.cpp): the recent SEC filings of each        *)
(* issuer, from EDGAR's daily indexes and from the live feed, saved as a   *)
(* TSV file and loaded again.  The dilution flags that block a trade are   *)
(* derived from it.                                                        *)
(*                                                                         *)
(* Two programs share the file: stokd, which loads it, adds what it reads  *)
(* live and saves it when it ends, and stok-ref (app/stok_ref.cpp), which  *)
(* adds the indexes of days not in filings_days.txt and marks them done.   *)
(* They run one after the other (deploy/stokd.service starts stok-ref      *)
(* before stokd); either may die at any point.                             *)
(*                                                                         *)
(* known, saved and ref.facts are the facts [cik, day, cls, item] that the *)
(* daemon's history, the file and stok-ref's history have been told: they  *)
(* are the reference, no part of the code.  Days are days of the epoch.    *)
(***************************************************************************)
EXTENDS Calendar, Sequences, SequencesExt, FiniteSets

CONSTANTS Cik, Form, Item, NoItem, Window, Index, FirstDay, LastDay, MaxFilings

(* CIK 0 is no issuer; an index is finite; NoItem is no item that is flagged. *)
ASSUME FilingsAssumption ==
    /\ IsFiniteSet(Cik) /\ 0 \notin Cik
    /\ NoItem \notin {301, 302, 503}
    /\ FirstDay \in Int /\ LastDay \in Int
    /\ \A day \in FirstDay..LastDay : IsFiniteSet(Index[day]) /\ \A r \in Index[day] : r.cik \in Cik \cup {0}

VARIABLES up, history, known, file, saved, done_days, ref, today, told

filingsVars == <<up, history, known, file, saved, done_days, ref, today, told>>

(* classify_form: the names compared; 424B, S-8 and NT are matched by their
   first letters, here with the endings in use. *)
classify_form(f) ==
    CASE f \in {"S-1", "S-1/A", "F-1", "F-1/A", "S-1MEF", "F-1MEF"} -> "s1"
      [] f \in {"S-3", "S-3/A", "F-3", "F-3/A", "S-3ASR", "F-3ASR", "S-3MEF"} -> "s3"
      [] f \in {"424B1", "424B2", "424B3", "424B4", "424B5", "424B7"} -> "424b"
      [] f = "EFFECT" -> "effect"
      [] f \in {"PRE 14A", "PRE 14C"} -> "pre14"
      [] f \in {"DEF 14A", "DEF 14C"} -> "def14"
      [] f \in {"S-8", "S-8 POS"} -> "s8"
      [] f \in {"8-K", "8-K/A"} -> "8k"
      [] f \in {"6-K", "6-K/A"} -> "6k"
      [] f \in {"10-Q", "10-Q/A"} -> "10q"
      [] f \in {"10-K", "10-K/A", "20-F", "40-F"} -> "10k"
      [] f \in {"NT 10-K", "NT 10-Q", "NT 20-F"} -> "nt"
      [] OTHER -> "other"

(* The classes whose items are looked at. *)
Itemised(cls) == cls \in {"8k", "6k"}

(* Mutant: a filing met again keeps the items of the first time. *)
addFirstOnly(h, cik, day, cls, items) ==
    IF cik = 0 \/ \E n \in DOMAIN h[cik] : h[cik][n].day = day /\ h[cik][n].cls = cls THEN h
    ELSE [h EXCEPT ![cik] = Append(@, [day |-> day, cls |-> cls, items |-> items])]

(* One entry per issuer, day and class; the items of a filing met again are
   merged into it. *)
add(h, cik, day, cls, items) ==
    IF cik = 0 THEN h
    ELSE IF \E n \in DOMAIN h[cik] : h[cik][n].day = day /\ h[cik][n].cls = cls
    THEN LET n == CHOOSE n \in DOMAIN h[cik] : h[cik][n].day = day /\ h[cik][n].cls = cls
         IN [h EXCEPT ![cik][n].items = @ \cup items]
    ELSE [h EXCEPT ![cik] = Append(@, [day |-> day, cls |-> cls, items |-> items])]

Nothing == [c \in Cik |-> <<>>]

FlagOfClass(cls) == CASE cls = "424b" -> "offering" [] cls = "effect" -> "effect"
                      [] cls = "s1" -> "s1" [] cls = "s3" -> "shelf"
                      [] cls = "pre14" -> "rs_proxy" [] cls = "nt" -> "late_filer"
                      [] OTHER -> "none"

FlagOfItem(i) == CASE i = 302 -> "item3.02" [] i = 301 -> "deficiency"
                   [] i = 503 -> "item5.03" [] OTHER -> "none"

(* The flags one entry raises: by its class, or for an 8-K or a 6-K by its items, each
   within its own window; an entry of a later day raises none. *)
EntryFlags(e, day) ==
    LET age == day - e.day
        raised == IF Itemised(e.cls) THEN {FlagOfItem(i) : i \in e.items} ELSE {FlagOfClass(e.cls)}
    IN {f \in raised \ {"none"} : age >= 0 /\ age <= Window[f]}

flags(h, cik, day) == UNION {EntryFlags(h[cik][n], day) : n \in DOMAIN h[cik]}

(* The entries of a list made strictly before the day, in their order. *)
Earlier(s, day) ==
    LET kept[n \in 0..Len(s)] ==
            IF n = 0 THEN <<>>
            ELSE IF s[n].day < day THEN Append(kept[n - 1], s[n]) ELSE kept[n - 1]
    IN kept[Len(s)]

(* The start of a replayed day. *)
before(h, day) == [c \in Cik |-> Earlier(h[c], day)]

(* Rows one after another into a history. *)
AddAll(h, rows) ==
    LET after[n \in 0..Len(rows)] ==
            IF n = 0 THEN h
            ELSE add(after[n - 1], rows[n].cik, rows[n].day, rows[n].cls, rows[n].items)
    IN after[Len(rows)]

Rows(h) == FlattenSeq(SetToSeq(
    {[n \in DOMAIN h[c] |-> [cik |-> c, day |-> h[c][n].day, cls |-> h[c][n].cls,
                             items |-> h[c][n].items]] : c \in Cik} \ {<<>>}))

merge(h, other) == AddAll(h, Rows(other))

(* The file holds a civil date where the history holds a day number. *)
to_tsv(h) ==
    LET r == Rows(h) IN [n \in DOMAIN r |-> [cik |-> r[n].cik, date |-> civil_from_days(r[n].day),
                                             cls |-> r[n].cls, items |-> r[n].items]]

load_tsv(h, rows) ==
    AddAll(h, [n \in DOMAIN rows |->
                 [cik |-> rows[n].cik, cls |-> rows[n].cls, items |-> rows[n].items,
                  day |-> days_from_civil(rows[n].date.y, rows[n].date.m, rows[n].date.d)]])

(* The facts in a row: its class and each of its items. *)
Facts(cik, day, cls, items) ==
    IF cik = 0 THEN {} ELSE {[cik |-> cik, day |-> day, cls |-> cls, item |-> i] :
                                i \in items \cup {NoItem}}

-----------------------------------------------------------------------------

Idle == [pc |-> "idle", hist |-> Nothing, facts |-> {}, done |-> {}]

FilingsInit ==
    /\ up = FALSE /\ history = Nothing /\ known = {}
    /\ file = <<>> /\ saved = {} /\ done_days = {}
    /\ ref = Idle /\ today = FirstDay /\ told = 0

(* stokd starts from the file. *)
DaemonStart ==
    /\ ~up /\ ref.pc = "idle"
    /\ up' = TRUE /\ history' = load_tsv(Nothing, file) /\ known' = saved
    /\ UNCHANGED <<file, saved, done_days, ref, today, told>>

(* The engine adds a filing it has just read, with its items. *)
LiveFiling(cik, form, items) ==
    /\ up /\ told < MaxFilings
    /\ history' = add(history, cik, today, classify_form(form), items)
    /\ known' = known \cup Facts(cik, today, classify_form(form), items)
    /\ told' = told + 1
    /\ UNCHANGED <<up, file, saved, done_days, ref, today>>

DaemonSave ==
    /\ up
    /\ up' = FALSE /\ file' = to_tsv(history) /\ saved' = known
    /\ history' = Nothing /\ known' = {}
    /\ UNCHANGED <<done_days, ref, today, told>>

DaemonDies ==
    /\ up
    /\ up' = FALSE /\ history' = Nothing /\ known' = {}
    /\ UNCHANGED <<file, saved, done_days, ref, today, told>>

(* fetch_filings: both files are read, ... *)
RefStart ==
    /\ ~up /\ ref.pc = "idle"
    /\ ref' = [pc |-> "fetch", hist |-> load_tsv(Nothing, file), facts |-> saved, done |-> done_days]
    /\ UNCHANGED <<up, history, known, file, saved, done_days, today, told>>

Relevant(form) == classify_form(form) \notin {"other", "10q", "10k", "def14", "s8"}

IndexRows(day) == SetToSeq({[cik |-> r.cik, day |-> day, cls |-> classify_form(r.form), items |-> {}] :
                               r \in {x \in Index[day] : Relevant(x.form)}})

IndexFacts(day) == UNION {Facts(r.cik, day, classify_form(r.form), {}) :
                             r \in {x \in Index[day] : Relevant(x.form)}}

(* ... each day before today that is not marked is fetched (a failed request
   leaves the day for the next time; a holiday has no index and is marked),
   ... *)
add_master_index(day) ==
    /\ ref.pc = "fetch" /\ day < today /\ day \notin ref.done
    /\ ref' = [ref EXCEPT !.hist = AddAll(@, IndexRows(day)),
                          !.facts = @ \cup IndexFacts(day), !.done = @ \cup {day}]
    /\ UNCHANGED <<up, history, known, file, saved, done_days, today, told>>

WriteHistory ==
    /\ file' = to_tsv(ref.hist) /\ saved' = ref.facts /\ UNCHANGED done_days

WriteDays ==
    /\ done_days' = ref.done /\ UNCHANGED <<file, saved>>

(* ... then the history is written, and after it the marks. *)
RefWrite ==
    /\ \/ ref.pc = "fetch" /\ WriteHistory /\ ref' = [ref EXCEPT !.pc = "written"]
       \/ ref.pc = "written" /\ WriteDays /\ ref' = Idle
    /\ UNCHANGED <<up, history, known, today, told>>

RefDies ==
    /\ ref.pc # "idle" /\ ref' = Idle
    /\ UNCHANGED <<up, history, known, file, saved, done_days, today, told>>

NextDay ==
    /\ today < LastDay /\ today' = today + 1
    /\ UNCHANGED <<up, history, known, file, saved, done_days, ref, told>>

FilingsNext ==
    \/ \E cik \in Cik \cup {0}, form \in Form, items \in SUBSET Item :
           (items = {} \/ Itemised(classify_form(form))) /\ LiveFiling(cik, form, items)
    \/ \E day \in FirstDay..LastDay : add_master_index(day)
    \/ DaemonStart \/ DaemonSave \/ DaemonDies
    \/ RefStart \/ RefWrite \/ RefDies \/ NextDay

FilingsSpec == FilingsInit /\ [][FilingsNext]_filingsVars

-----------------------------------------------------------------------------
(* What the facts of a set say on a day. *)
FlagsOfFacts(facts, cik, day) ==
    {f \in {FlagOfClass(x.cls) : x \in {y \in facts : ~Itemised(y.cls)}}
           \cup {FlagOfItem(x.item) : x \in {y \in facts : Itemised(y.cls)}} :
        /\ f # "none"
        /\ \E x \in facts : /\ x.cik = cik /\ x.day <= day /\ day - x.day <= Window[f]
                            /\ f = IF Itemised(x.cls) THEN FlagOfItem(x.item) ELSE FlagOfClass(x.cls)}

(* The flags the daemon sees are those of all the filings it has been told
   of, in whatever order index and live feed report them, with the items of
   a filing known only the second time, and across saves and restarts. *)
FlagsExact == up => \A c \in Cik : flags(history, c, today) = FlagsOfFacts(known, c, today)

(* A day marked done is in the history on disk, with every relevant row of
   its index, however the two programs die: a marked day is never fetched
   again, so what is missing then is missing for good. *)
IndexKept ==
    \A day \in done_days : \A x \in IndexFacts(day) :
        \E n \in DOMAIN file : /\ file[n].cik = x.cik /\ file[n].cls = x.cls
                               /\ file[n].date = civil_from_days(day)

(* The history a replayed day starts from raises the flags of the filings
   made strictly before that day, whatever the loaded one also knows of the
   day itself and of later ones; and merging it back afterwards changes
   nothing that was known. *)
NoLookAhead ==
    up => \A c \in Cik, day \in FirstDay..LastDay :
        LET start == before(history, day)
        IN /\ flags(start, c, day) = FlagsOfFacts({x \in known : x.day < day}, c, day)
           /\ flags(merge(start, history), c, today) = flags(history, c, today)

\* What is known of an issuer is what was filed, no less after a crash and no
\* more on an earlier day (filings.cpp:124, 180, stok_ref.cpp:232).
FilingsInv == FlagsExact /\ IndexKept /\ NoLookAhead
=============================================================================
