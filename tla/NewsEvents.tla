----------------------------- MODULE NewsEvents ------------------------------
(***************************************************************************)
(* feeds/parsers.cpp and tickers.cpp: a feed's item becomes a NewsEvent in *)
(* the slot claimed of the engine's ring, with the poller's one set of     *)
(* scratch buffers; a filing worth it leaves a copy of its event behind,   *)
(* from which the event of its press-release exhibit is made later.  Slot  *)
(* and buffers hold whatever the last item left in them.                   *)
(*                                                                         *)
(* A text is a sequence of words, with ":", "," and "and" words of their   *)
(* own; entities, markup and letter case are gone.  The symbol table is    *)
(* what its lookups answer.                                                *)
(***************************************************************************)
EXTENDS Naturals, Sequences, SequencesExt, FiniteSets, FiniteSetsExt, Functions

CONSTANTS Items,        \* the items of the feeds' documents
          LaterItems,   \* those of them that come after another
          IndexPages,   \* pages of filings: a sequence of rows, each with a document's lines
          Venue,        \* kVenues: venue name -> "US", "OTC", "Foreign"
          TickerLike,   \* words read_ticker() takes for a ticker
          Listed,       \* symbols.find(): ticker -> symbol
          Names,        \* symbols.find_by_name(): name, a text -> symbol
          OfCik,        \* symbols.by_cik(): issuer -> its symbols
          Primary,      \* symbols.primary_for_cik()
          WantsExhibit, \* symbols listed on an exchange, without too many shares
          Cue, Stop,    \* words that end a lead sentence's and a headline's subject
          Boilerplate,  \* lines skipped in search of an exhibit's headline
          Boring,       \* 8-K items that rarely come with a press release
          NoSymbol,      \* SymbolTable::kInvalid
          MaxHits, MaxTickers, MaxUnresolved,
          TitleMax, BodyMax, TextMax,   \* capacities, in words
          DatelineMax, LeadMax,         \* where a dateline and a cue are looked for
          MaxItems      \* bound: items taken

VARIABLES slot,     \* the ring's slot: the event last written there
          scratch,  \* ParseScratch
          jobs,     \* JobLane::q: the filings' events
          made,     \* history: what slot was published for, Unpublished if it was not
          filed,    \* history: the filing of each job
          taken     \* items taken

newsVars == <<slot, scratch, jobs, made, filed, taken>>

Cut(text, n) == SubSeq(text, 1, Min({n, Len(text)}))
FirstOf(seq, Test(_), none) == IF \E k \in DOMAIN seq : Test(seq[k]) THEN SelectSeq(seq, Test)[1] ELSE none
Filled(text) == text # <<>>

NoHalt == [reason |-> "", halt |-> 0, resume |-> 0]
Unpublished == [feed |-> "none"]
\* NewsEvent::reset()
Blank == [kind |-> "News", title |-> <<>>, body |-> <<>>, link |-> "", date |-> 0, tickers |-> <<>>, unresolved |-> <<>>,
          named |-> FALSE, cik |-> 0, form |-> "", items |-> {}, halt |-> NoHalt]
Fresh == [b |-> <<>>, c |-> <<>>, text |-> <<>>, cats |-> <<>>]

-----------------------------------------------------------------------------
(* extract_tickers(): a venue, a colon, and the tickers listed behind it *)

\* Mutant: only the first ticker behind the colon is read.
ContinuesNever(text, i) == FALSE
Continues(text, i) == i <= Len(text) /\ text[i] \in {",", "and"}

RECURSIVE TickersAt(_, _)
TickersAt(text, i) ==
  IF i > Len(text) \/ text[i] \notin TickerLike THEN <<>>
  ELSE <<text[i]>> \o (IF Continues(text, i + 1) THEN TickersAt(text, i + 2) ELSE <<>>)

venue_before(text, colon) == IF colon > 1 /\ text[colon - 1] \in DOMAIN Venue THEN text[colon - 1] ELSE ""

\* Foreign tickers are not looked up.
Hit(venue, tok) ==
  [sym |-> IF Venue[venue] # "Foreign" /\ tok \in DOMAIN Listed THEN Listed[tok] ELSE NoSymbol,
   raw |-> <<IF Venue[venue] = "US" THEN "" ELSE venue, tok>>]

push(hits, h) ==
  IF \/ Len(hits) >= MaxHits
     \/ \E k \in DOMAIN hits : hits[k].raw = h.raw \/ (h.sym # NoSymbol /\ hits[k].sym = h.sym)
  THEN hits ELSE Append(hits, h)

extract_tickers(text) ==
  LET Colons == SelectSeq([k \in 1 .. Len(text) |-> k], LAMBDA k : text[k] = ":" /\ venue_before(text, k) # "")
      HitsAt(k) == [j \in 1 .. Len(TickersAt(text, k + 1)) |-> Hit(venue_before(text, k), TickersAt(text, k + 1)[j])]
  IN FoldLeft(push, <<>>, FlattenSeq([k \in 1 .. Len(Colons) |-> HitsAt(Colons[k])]))

add_ticker(ev, h) ==
  IF h.sym # NoSymbol
  THEN IF Contains(ev.tickers, h.sym) \/ Len(ev.tickers) >= MaxTickers THEN ev
       ELSE [ev EXCEPT !.tickers = Append(@, h.sym)]
  ELSE IF Len(ev.unresolved) >= MaxUnresolved THEN ev ELSE [ev EXCEPT !.unresolved = Append(@, h.raw)]

add_tickers_from_hits(ev, hits) == FoldLeft(add_ticker, ev, hits)

-----------------------------------------------------------------------------
(* resolve_by_company_name(): contributor, lead sentence, headline subject *)

find_by_name(text) == IF text \in DOMAIN Names THEN Names[text] ELSE NoSymbol

\* The candidate, then without its first words, eight tries at most.
match_name(text) ==
  LET Tails == [k \in 1 .. Min({8, Len(text)}) |-> SubSeq(text, k, Len(text))]
  IN find_by_name(FirstOf(Tails, LAMBDA t : find_by_name(t) # NoSymbol, <<>>))

\* From behind the dateline to the first cue, if both are near enough.
Lead(body) ==
  LET dashes == {k \in 1 .. Min({DatelineMax, Len(body)}) : body[k] = "--"}
      start == IF dashes = {} THEN 1 ELSE Min(dashes) + 1
      cues == {k \in start .. Min({start + LeadMax, Len(body)}) : body[k] \in Cue}
  IN IF cues = {} THEN <<>> ELSE SubSeq(body, start, Min(cues) - 1)

\* The headline up to its verb, a colon or a possessive.
Subject(title) ==
  SubSeq(title, 1, Min({8, Len(title)} \union {k - 1 : k \in {j \in DOMAIN title : title[j] \in Stop \union {":", "'s"}}}))

resolve_by_company_name(it, ev) ==
  FirstOf([k \in DOMAIN it.contributors |-> find_by_name(it.contributors[k])]
            \o <<match_name(Lead(ev.body)), find_by_name(Subject(ev.title))>>,
          LAMBDA id : id # NoSymbol, NoSymbol)

-----------------------------------------------------------------------------
(* fill_event(): [ok, ev, s], the event and the buffers it leaves *)

\* Mutant: the categories of the item before are still in the buffer.
CategoriesKept(s, cats) == s.cats \o FlattenSeq([k \in DOMAIN cats |-> <<"|">> \o cats[k]])
Categories(s, cats) == FlattenSeq([k \in DOMAIN cats |-> <<"|">> \o cats[k]])

item_date(dates) == FirstOf(dates, LAMBDA t : t # 0, 0)

fill_rss(it, ev, s) ==
  LET read == [s EXCEPT !.b = it.title, !.text = Cut(FirstOf(it.bodies, Filled, <<>>), TextMax),
                        !.cats = Categories(s, it.cats)]
      plain == [ev EXCEPT !.title = Cut(read.b, TitleMax), !.link = it.link, !.date = item_date(it.dates),
                          !.body = Cut(read.text, BodyMax)]
      tagged == FoldLeft(LAMBDA e, h : add_tickers_from_hits(e, extract_tickers(h)), plain,
                         <<read.cats, plain.title, read.text>>)
      id == resolve_by_company_name(it, tagged)
      hasName == tagged.tickers = <<>> /\ id # NoSymbol
      buffers == [read EXCEPT !.c = IF tagged.tickers = <<>> /\ it.contributors # <<>>
                                    THEN FirstOf(it.contributors, LAMBDA n : find_by_name(n) # NoSymbol, Last(it.contributors))
                                    ELSE @]
  IN IF it.title = <<>> THEN [ok |-> FALSE, ev |-> ev, s |-> [s EXCEPT !.b = <<>>]]
     ELSE [ok |-> TRUE, s |-> buffers,
           ev |-> IF hasName THEN [tagged EXCEPT !.tickers = <<id>>, !.named = TRUE] ELSE tagged]

\* The form, and the first group of digits in parentheses; the title of the
\* event is put together in b from the words still in c.
parse_edgar_title(t) == [form |-> t.form, company |-> t.company, cik |-> FirstOf(t.groups, LAMBDA g : g.digits, [cik |-> 0]).cik]
NotBoring(items) == items \ Boring

fill_edgar(it, ev, s) ==
  LET read == [s EXCEPT !.c = it.title]
      t == parse_edgar_title(read.c)
      issuer == IF t.cik \in DOMAIN OfCik THEN OfCik[t.cik] ELSE <<>>
      others == SelectSeq(issuer, LAMBDA id : id # Primary[t.cik])
  IN IF t.form = "" \/ t.cik = 0 THEN [ok |-> FALSE, ev |-> [ev EXCEPT !.kind = "Filing"], s |-> read]
     ELSE [ok |-> TRUE, s |-> [read EXCEPT !.text = it.summary, !.b = <<t.form, t.company>>],
           ev |-> [ev EXCEPT !.kind = "Filing", !.form = t.form, !.cik = t.cik, !.link = it.link, !.date = it.updated,
                             !.items = it.items, !.body = Cut(it.summary, BodyMax), !.title = <<t.form, t.company>>,
                             !.tickers = IF issuer = <<>> THEN <<>> ELSE Cut(<<Primary[t.cik]>> \o others, MaxTickers)]]

fill_halt(it, ev, s) ==
  LET halt == [reason |-> it.reason, halt |-> it.halt, resume |-> it.resume]
  IN IF it.sym = "" THEN [ok |-> FALSE, ev |-> [ev EXCEPT !.kind = "Halt"], s |-> s]
     ELSE [ok |-> TRUE, s |-> [s EXCEPT !.b = <<it.name>>],
           ev |-> [ev EXCEPT !.kind = "Halt", !.halt = halt, !.title = <<IF it.resume # 0 THEN "RESUME" ELSE "HALT", it.sym>>,
                             !.date = IF it.halt # 0 THEN it.halt ELSE item_date(it.dates),
                             !.tickers = IF it.sym \in DOMAIN Listed THEN <<Listed[it.sym]>> ELSE <<>>,
                             !.unresolved = IF it.sym \in DOMAIN Listed THEN <<>> ELSE << <<"", it.sym>> >>]]

fill_event(it, ev, s) == CASE it.feed = "rss" -> fill_rss(it, ev, s)
                           [] it.feed = "edgar" -> fill_edgar(it, ev, s)
                           [] it.feed = "halts" -> fill_halt(it, ev, s)

\* The link of the first EX-99.1, else of the first EX-99 exhibit.
NoRow == [exhibit |-> "none", href |-> FALSE, lines |-> <<>>]
find_exhibit_href(rows) ==
  LET linked == SelectSeq(rows, LAMBDA row : row.href /\ row.exhibit # "other")
  IN FirstOf(linked, LAMBDA row : row.exhibit = "99.1", FirstOf(linked, LAMBDA row : TRUE, NoRow))

\* fill_exhibit_event(): the issuer's fields are the filing's; the headline is
\* the first line of substance.
headline(lines) ==
  FirstOf(lines, LAMBDA line : Len(line) > 1 /\ line[1] \notin Boilerplate, FlattenSeq(lines))
fill_exhibit_event(lines, filing) ==
  [filing EXCEPT !.kind = "FilingDoc", !.link = "exhibit", !.title = Cut(headline(lines), TitleMax),
                 !.body = Cut(FlattenSeq(lines), BodyMax)]

-----------------------------------------------------------------------------
NewsInit == /\ slot = Blank /\ scratch = Fresh /\ jobs = <<>>
            /\ made = Unpublished /\ filed = <<>> /\ taken = 0

\* maybe_queue_exhibit()
Worth(ev) == /\ ev.kind = "Filing" /\ ev.tickers # <<>> /\ ev.link # ""
             /\ ev.form \in {"8-K", "6-K"} /\ ev.tickers[1] \in WantsExhibit
             /\ ev.form = "8-K" /\ ev.items # {} => NotBoring(ev.items) # {}

\* on_response(): the slot claimed is emptied and filled, and published unless
\* the item is of no use.
OnItem(it) ==
  LET r == fill_event(it, Blank, scratch)
      queues == r.ok /\ Worth(r.ev)
  IN /\ taken < MaxItems
     /\ slot' = r.ev /\ scratch' = r.s /\ taken' = taken + 1
     /\ made' = IF r.ok THEN it ELSE Unpublished
     /\ jobs' = IF queues THEN Append(jobs, r.ev) ELSE jobs
     /\ filed' = IF queues THEN Append(filed, it) ELSE filed

\* Mutant: the job points into the ring.
BaseInRing(j) == slot
Base(j) == j

\* on_job_response(): the exhibit of the first filing becomes an event; or the
\* job ends without one, for an error, a page without exhibit or a full ring.
OnJob(page) ==
  LET row == find_exhibit_href(page)
      lines == row.lines
  IN /\ jobs # <<>>
     /\ jobs' = Tail(jobs) /\ filed' = Tail(filed) /\ UNCHANGED taken
     /\ \/ UNCHANGED <<slot, scratch, made>>
        \/ /\ row # NoRow
           /\ slot' = fill_exhibit_event(lines, Base(Head(jobs)))
           /\ scratch' = [scratch EXCEPT !.text = FlattenSeq(lines), !.b = FlattenSeq(lines)]
           /\ made' = [feed |-> "exhibit", page |-> page, lines |-> lines, filing |-> Head(filed)]

NewsNext == (\E it \in (IF taken = 0 THEN Items ELSE LaterItems) : OnItem(it)) \/ (\E page \in IndexPages : OnJob(page))
NewsSpec == NewsInit /\ [][NewsNext]_newsVars

-----------------------------------------------------------------------------
\* An event says what its own item says, and nothing of the items that went
\* through the buffers before it; the slot itself is reset first (poller.cpp:345,
\* parsers.cpp:198).
EventIsOwn ==
  made.feed \in {"rss", "edgar", "halts"} => slot = fill_event(made, Blank, Fresh).ev

\* The story of an exhibit belongs to the issuer of its filing, whatever was
\* parsed while it was fetched, and is the press release if the page has one.
ExhibitIsFilings ==
  made.feed = "exhibit" =>
    LET linked == {k \in DOMAIN made.page : made.page[k].href}
        press == {k \in linked : made.page[k].exhibit = "99.1"}
    IN /\ slot = fill_exhibit_event(made.lines, fill_event(made.filing, Blank, Fresh).ev)
       /\ \E k \in (IF press = {} THEN linked ELSE press) : made.lines = made.page[k].lines

\* The tags of a text: a ticker anywhere in the list behind a venue's colon.  A
\* second venue in that list, as in "Nasdaq: AB, TSX: CD", counts as a ticker,
\* as it does for read_ticker().
TagAt(text, p) ==
  {c \in 2 .. p - 1 : /\ text[c] = ":" /\ text[c - 1] \in DOMAIN Venue /\ (p - c) % 2 = 1
                      /\ \A q \in c + 1 .. p : IF (q - c) % 2 = 1 THEN text[q] \in TickerLike ELSE text[q] \in {",", "and"}}
Tags(text) == UNION {{Hit(text[c - 1], text[p]) : c \in TagAt(text, p)} : p \in DOMAIN text}
Resolved(text) == {h.sym : h \in Tags(text)} \ {NoSymbol}
Heads(it) == {Categories(Fresh, it.cats), Cut(it.title, TitleMax), Cut(FirstOf(it.bodies, Filled, <<>>), TextMax)}

\* A story is attributed to every company it is tagged with, as far as there
\* is room, to no other, and to one by name only if it carries no known tag.
TagsDecide ==
  made.feed = "rss" =>
    LET known == UNION {Resolved(h) : h \in Heads(made)}
        got == Range(slot.tickers)
    IN IF known = {} THEN slot.named = (slot.tickers # <<>>)
       ELSE /\ ~ slot.named /\ got \subseteq known /\ Cardinality(got) = Len(slot.tickers)
            /\ \/ got = known \/ Len(slot.tickers) = MaxTickers
               \/ \E h \in Heads(made) : Cardinality(Tags(h)) > MaxHits

\* An event is made of its own item or exhibit alone, and its companies are
\* those the text is tagged with (poller.cpp:390, tickers.cpp:141).
NewsInv == EventIsOwn /\ ExhibitIsFilings /\ TagsDecide
=============================================================================
