------------------------------ MODULE Symbols ------------------------------
(***************************************************************************)
(* The security master (ref/symbols.cpp): built once at start-up from the  *)
(* Nasdaq Trader directories, the SEC ticker file, the XBRL share counts   *)
(* and FINRA's short volume, in the order of load_dir, and then read by    *)
(* every thread.  News, halts and filings are attributed to a security     *)
(* through its indexes: by ticker in any spelling, by the ITCH stock       *)
(* field, by CIK and by company name.                                      *)
(*                                                                         *)
(* A ticker is a sequence of characters, a name a sequence of words (the   *)
(* word "-" stands for the " - " before the kind of security).  The rows   *)
(* of a file come in any order: Init leaves out any subset of them, and    *)
(* each step takes one of the file now being read.                         *)
(***************************************************************************)
EXTENDS Integers, Sequences, SequencesExt, FiniteSets, FiniteSetsExt

CONSTANTS NasdaqRows, OtherRows, SecRows, FundRows, FinraRows, Suffix, Derivative,
          ShortName, Invalid, Ambiguous

VARIABLES phase, rows, syms_, by_norm_, by_key_, by_cik_, by_name_

symbolVars == <<phase, rows, syms_, by_norm_, by_key_, by_cik_, by_name_>>

Separator == {"-", "/", " ", "."}

(* Mutant: the dash of the SEC's spelling is kept. *)
normalizeKeepsDash(t) == [i \in DOMAIN t |-> IF t[i] \in Separator \ {"-"} THEN "." ELSE t[i]]

(* Class and series separators become one. *)
normalize(t) == [i \in DOMAIN t |-> IF t[i] \in Separator THEN "." ELSE t[i]]

Lookup(index, k) == IF k \in DOMAIN index THEN index[k] ELSE Invalid

find(t) == Lookup(by_norm_, normalize(t))

find_key(k) == Lookup(by_key_, k)

by_cik(c) == IF c \in DOMAIN by_cik_ THEN by_cik_[c] ELSE <<>>

is_exchange_listed(e) == e \notin {"unknown", "otc"}

is_derivative_security(s) == \E i \in DOMAIN s.name : s.name[i] \in Derivative

(* Words before the dash, without the suffixes behind and "THE" in front;
   one word is always left. *)
normalize_company_name(name) ==
    LET dash == {i \in DOMAIN name : name[i] = "-"}
        words == IF dash = {} THEN name ELSE SubSeq(name, 1, Min(dash) - 1)
        last == Max({1} \cup {i \in DOMAIN words : words[i] \notin Suffix})
        kept == SubSeq(words, 1, last)
    IN IF Len(kept) > 1 /\ kept[1] = "THE" THEN Tail(kept) ELSE kept

(* Mutant: the length of the ticker is compared first. *)
BetterByLength(s, b) ==
    LET sl == is_exchange_listed(s.exchange)
        bl == is_exchange_listed(b.exchange)
    IN IF sl # bl THEN sl ELSE Len(s.ticker) < Len(b.ticker)

(* Is s to replace b as the issuer's primary security? *)
Better(s, b) ==
    LET sl == is_exchange_listed(s.exchange)
        bl == is_exchange_listed(b.exchange)
        sd == is_derivative_security(s)
        bd == is_derivative_security(b)
    IN IF sl # bl THEN sl
       ELSE (bd /\ ~sd) \/ (bd = sd /\ Len(s.ticker) < Len(b.ticker))

primary_for_cik(c) ==
    LET ids == by_cik(c)
        best[n \in 0..Len(ids)] ==
            IF n = 0 THEN Invalid
            ELSE IF best[n - 1] = Invalid \/ Better(syms_[ids[n]], syms_[best[n - 1]])
                 THEN ids[n] ELSE best[n - 1]
    IN best[Len(ids)]

-----------------------------------------------------------------------------
(* The loaders. *)

Blank(t) == [ticker |-> normalize(t), key |-> normalize(t), name |-> <<>>, exchange |-> "unknown",
             test |-> FALSE, etf |-> FALSE, cik |-> 0, shares |-> 0, ratio |-> -1]

Put(f, k, v) == [x \in DOMAIN f \cup {k} |-> IF x = k THEN v ELSE f[x]]

PutAll(f, ks, v) == [x \in DOMAIN f \cup ks |-> IF x \in ks THEN v ELSE f[x]]

(* upsert(): the id of the ticker and the table with it. *)
IdOf(t) == IF find(t) = Invalid THEN Len(syms_) + 1 ELSE find(t)

Upserted(t) == IF find(t) = Invalid THEN Append(syms_, Blank(t)) ELSE syms_

NewKeys(t) == IF find(t) = Invalid THEN {normalize(t)} ELSE {}

(* The exchange of a row, in each file's own code. *)
NasdaqMarket(category) ==
    CASE category = "Q" -> "nasdaq_gs" [] category = "G" -> "nasdaq_gm" [] OTHER -> "nasdaq_cm"

OtherExchange(code) ==
    CASE code = "A" -> "nyse_american" [] code = "N" -> "nyse" [] code = "P" -> "nyse_arca"
      [] code = "Z" -> "cboe_bzx" [] code = "V" -> "iex" [] OTHER -> "unknown"

SecExchange(name) ==
    CASE name = "OTC" -> "otc" [] name = "Nasdaq" -> "nasdaq_cm" [] name = "NYSE" -> "nyse"
      [] name = "CBOE" -> "cboe_bzx" [] OTHER -> "unknown"

load_nasdaq_listed(r) ==
    LET id == IdOf(r.symbol)
    IN /\ syms_' = [Upserted(r.symbol) EXCEPT ![id].name = r.name, ![id].key = r.symbol,
                        ![id].exchange = NasdaqMarket(r.category),
                        ![id].test = r.test, ![id].etf = r.etf]
       /\ by_norm_' = PutAll(by_norm_, NewKeys(r.symbol), id)
       /\ by_key_' = PutAll(by_key_, NewKeys(r.symbol) \cup {r.symbol}, id)
       /\ UNCHANGED by_cik_

(* The other exchanges' directory has three spellings of a symbol; ITCH uses
   the Nasdaq one. *)
ItchSymbol(r) == IF r.nasdaq = <<>> THEN r.symbol ELSE r.nasdaq

load_other_listed(r) ==
    LET id == IdOf(r.symbol)
        aliases == {normalize(a) : a \in {r.cqs, r.nasdaq} \ {<<>>}}
    IN /\ syms_' = [Upserted(r.symbol) EXCEPT ![id].name = r.name, ![id].key = ItchSymbol(r),
                        ![id].exchange = OtherExchange(r.category), ![id].test = r.test, ![id].etf = r.etf]
       /\ by_norm_' = PutAll(by_norm_, NewKeys(r.symbol) \cup aliases, id)
       /\ by_key_' = PutAll(by_key_, NewKeys(r.symbol) \cup {ItchSymbol(r)}, id)
       /\ UNCHANGED by_cik_

(* The SEC file: a ticker of no directory is kept as it is (over the counter
   or stale); a known one gets its CIK, and a name if it has none. *)
load_sec_tickers(r) ==
    LET id == IdOf(r.ticker)
        new == find(r.ticker) = Invalid
        s == Upserted(r.ticker)[id]
    IN /\ syms_' = [Upserted(r.ticker) EXCEPT ![id].cik = r.cik,
                        ![id].name = IF s.name = <<>> THEN r.name ELSE @,
                        ![id].exchange = IF new THEN SecExchange(r.exchange) ELSE @]
       /\ by_norm_' = PutAll(by_norm_, NewKeys(r.ticker), id)
       /\ by_key_' = PutAll(by_key_, NewKeys(r.ticker), id)
       /\ by_cik_' = IF s.cik = r.cik THEN by_cik_ ELSE Put(by_cik_, r.cik, Append(by_cik(r.cik), id))

(* Share counts go to every security of the issuer. *)
load_fundamentals(r) ==
    /\ syms_' = [id \in DOMAIN syms_ |->
                    IF id \in Range(by_cik(r.cik)) /\ r.shares > 0
                    THEN [syms_[id] EXCEPT !.shares = r.shares] ELSE syms_[id]]
    /\ UNCHANGED <<by_norm_, by_key_, by_cik_>>

load_finra_short_volume(r) ==
    /\ syms_' = IF find(r.symbol) = Invalid \/ r.total = 0 THEN syms_
                ELSE [syms_ EXCEPT ![find(r.symbol)].ratio = (100 * r.short) \div r.total]
    /\ UNCHANGED <<by_norm_, by_key_, by_cik_>>

-----------------------------------------------------------------------------
(* build_name_index. *)

Eligible(id) ==
    LET s == syms_[id]
    IN /\ is_exchange_listed(s.exchange) /\ ~s.etf /\ ~s.test /\ ~is_derivative_security(s)
       /\ s.name # <<>> /\ normalize_company_name(s.name) \notin ShortName
       /\ s.cik # 0 => primary_for_cik(s.cik) = id

(* Mutant: two securities of unknown issuers may share a name. *)
ClashKnownOnly(owner, cik) == owner # cik

(* A name met again belongs to two issuers, unless it is surely the same. *)
Clash(owner, cik) == owner # cik \/ cik = 0

build_name_index ==
    LET after[id \in 0..Len(syms_)] ==
            IF id = 0 THEN [names |-> [n \in {} |-> Invalid], owner |-> [n \in {} |-> 0]]
            ELSE LET st == after[id - 1]
                     n == normalize_company_name(syms_[id].name)
                     cik == syms_[id].cik
                 IN IF ~Eligible(id) THEN st
                    ELSE IF n \notin DOMAIN st.names
                         THEN [names |-> Put(st.names, n, id), owner |-> Put(st.owner, n, cik)]
                    ELSE IF st.names[n] # Ambiguous /\ Clash(st.owner[n], cik)
                         THEN [st EXCEPT !.names[n] = Ambiguous] ELSE st
    IN after[Len(syms_)].names

find_by_name(name) ==
    LET n == normalize_company_name(name)
    IN IF n \in ShortName \/ Lookup(by_name_, n) = Ambiguous THEN Invalid ELSE Lookup(by_name_, n)

-----------------------------------------------------------------------------

Files == <<"nasdaq", "other", "sec", "fundamentals", "finra">>

AllRows == [nasdaq |-> NasdaqRows, other |-> OtherRows, sec |-> SecRows,
            fundamentals |-> FundRows, finra |-> FinraRows]

SymbolsStart(files) ==
    /\ phase = 1
    /\ rows = files
    /\ syms_ = <<>>
    /\ by_norm_ = [t \in {} |-> Invalid] /\ by_key_ = [t \in {} |-> Invalid]
    /\ by_cik_ = [c \in {} |-> <<>>] /\ by_name_ = [n \in {} |-> Invalid]

SymbolsInit ==
    \E n \in SUBSET NasdaqRows, o \in SUBSET OtherRows, s \in SUBSET SecRows :
        SymbolsStart([AllRows EXCEPT !.nasdaq = n, !.other = o, !.sec = s])

LoadRow(file, r) ==
    CASE file = "nasdaq" -> load_nasdaq_listed(r)
      [] file = "other" -> load_other_listed(r)
      [] file = "sec" -> load_sec_tickers(r)
      [] file = "fundamentals" -> load_fundamentals(r)
      [] file = "finra" -> load_finra_short_volume(r)

(* load_dir: one row of the file being read, ... *)
ReadRow ==
    /\ phase <= Len(Files)
    /\ \E r \in rows[Files[phase]] :
          /\ LoadRow(Files[phase], r)
          /\ rows' = [rows EXCEPT ![Files[phase]] = @ \ {r}]
    /\ UNCHANGED <<phase, by_name_>>

(* ... the next file, and after the last one the index of names. *)
NextFile ==
    /\ phase <= Len(Files) /\ rows[Files[phase]] = {}
    /\ phase' = phase + 1
    /\ by_name_' = IF phase = Len(Files) THEN build_name_index ELSE by_name_
    /\ UNCHANGED <<rows, syms_, by_norm_, by_key_, by_cik_>>

load_dir == ReadRow \/ NextFile

SymbolsSpec == SymbolsInit /\ [][load_dir]_symbolVars

Loaded == phase > Len(Files)

-----------------------------------------------------------------------------
(* Two spellings of one ticker. *)
SameTicker(a, b) ==
    Len(a) = Len(b) /\ \A i \in DOMAIN a : a[i] = b[i] \/ {a[i], b[i]} \subseteq Separator

(* Whatever the order of the rows and whichever spelling a file uses, a
   security has one entry: the ticker, every alias and the ITCH stock field
   of an entry lead to the same entry, and the CIK index holds each security
   of an issuer once and no other. *)
OneEntry ==
    /\ \A x, y \in DOMAIN syms_ : x # y => ~SameTicker(syms_[x].ticker, syms_[y].ticker)
    /\ \A id \in DOMAIN syms_ : /\ find(syms_[id].ticker) = id
                                /\ find(syms_[id].key) = id /\ find_key(syms_[id].key) = id
    /\ \A c \in DOMAIN by_cik_ : /\ IsInjective(by_cik_[c])
                                 /\ Range(by_cik_[c]) = {id \in DOMAIN syms_ : syms_[id].cik = c}

(* A filing is attributed to the issuer's best security: listed before not
   listed, then stock before warrants, units and rights, then the shorter
   ticker; the order in which the files list them decides only between
   equals. *)
PrimaryIsBest ==
    \A c \in DOMAIN by_cik_ :
        LET p == primary_for_cik(c)
            rank(id) == <<is_exchange_listed(syms_[id].exchange), ~is_derivative_security(syms_[id])>>
        IN \A id \in Range(by_cik_[c]) :
              /\ rank(id)[1] => rank(p)[1]
              /\ rank(id)[1] = rank(p)[1] /\ rank(id)[2] => rank(p)[2]
              /\ rank(id) = rank(p) => Len(syms_[p].ticker) <= Len(syms_[id].ticker)

(* A story that names a company without a ticker is attributed only when
   exactly one listed issuer bears the name; with two or more, however many
   and in whatever order, it is left alone. *)
NameUnambiguous ==
    Loaded => \A x \in DOMAIN syms_ :
        LET n == normalize_company_name(syms_[x].name)
            bearers == {id \in DOMAIN syms_ : Eligible(id) /\ normalize_company_name(syms_[id].name) = n}
        IN syms_[x].name # <<>> =>
             find_by_name(syms_[x].name) =
                 IF Cardinality(bearers) = 1 THEN CHOOSE id \in bearers : TRUE ELSE Invalid

\* A ticker in any spelling, an issuer and a name lead to one security, the same
\* in every order of the rows (symbols.cpp:138, 199, 219).
SymbolsInv == OneEntry /\ PrimaryIsBest /\ NameUnambiguous
=============================================================================
