----------------------------- MODULE MCServices -----------------------------
(* Four parts that talk to disk or network and whose progress matters,       *)
(* checked side by side: the first state says which of them runs, the others  *)
(* keep theirs and are owed no step.                                          *)
EXTENDS HttpClient, Daemon, ExhibitJobs, TLC

VARIABLE part

VARIABLES slot, scratch, jobs, made, filed, taken
eventVars == <<slot, scratch, jobs, made, filed, taken>>

\* Answers with a length, in chunks, an interim one before one without a body,
\* and one that ends with the connection.
HeadOf(status, length, chunked, conn_) ==
  HeadToken([status |-> status, content_length |-> length, chunked |-> chunked,
                  connection |-> conn_, http10 |-> FALSE])
BlankLine == <<Cr, Lf, Cr, Lf>>
Eol == <<Cr, Lf>>
MCResponses ==
  {<<HeadOf(200, 2, FALSE, "none")>> \o BlankLine \o <<Byte(1), Byte(2)>>,
   <<HeadOf(200, -1, TRUE, "keep-alive")>> \o BlankLine \o <<SizeToken(2)>> \o Eol
     \o <<Byte(1), Byte(2)>> \o Eol \o <<SizeToken(0)>> \o BlankLine,
   <<HeadOf(100, -1, FALSE, "none")>> \o BlankLine \o <<HeadOf(304, 2, FALSE, "none")>> \o BlankLine,
   <<HeadOf(200, -1, FALSE, "none")>> \o BlankLine \o <<Byte(1)>>}

(* Headlines of up to three words, and longer texts with a list of tickers, a *)
(* venue inside a list, a dateline and names near the cue or too far from it; *)
(* filings with and without a use for their exhibit; halts and resumptions.   *)
Story(cats, title, bodies, who) ==
  [feed |-> "rss", cats |-> cats, title |-> title, bodies |-> bodies, contributors |-> who, link |-> "story", dates |-> <<0, 5>>]
Filed(form, cik, items, link) ==
  [feed |-> "edgar", summary |-> <<"item">>, items |-> items, link |-> link, updated |-> 7,
   title |-> [form |-> form, company |-> "ACME", groups |-> <<[digits |-> FALSE, cik |-> 0], [digits |-> TRUE, cik |-> cik]>>]]
Halt(sym, resume) ==
  [feed |-> "halts", sym |-> sym, name |-> "ACME", reason |-> "T1", halt |-> 3, resume |-> resume, dates |-> <<>>]
MCTitles == UNION {[1 .. n -> {"Nasdaq", "OTC", "TSX", ":", ",", "AB", "Acme"}] : n \in 0 .. 3}
MCBodies == {<<"Nasdaq", ":", "AB", ",", "TSX", ":", "CD">>, <<"OTC", ":", "AB", "and", "CD", ",", "EF">>,
             <<"TSX", ":", "AB", "Nasdaq", ":", "AB", "EF">>, <<"OTC", ":", "ZZ", ",", "AB", ",", "Nasdaq", ":", "EF">>,
             <<"city", "--", "The", "Acme", "announced", "AB">>, <<"Big", "Acme", "announced">>,
             <<"--", "x", "x", "x", "x", "Acme", "announced">>}
MCItems ==
  {Story(<<>>, t, <<<<>>, b>>, <<>>) : t \in MCTitles, b \in {<<>>, <<"Nasdaq", ":", "EF">>}}
  \union {Story(c, t, <<b>>, w) : c \in {<<>>, << <<"Nasdaq", ":", "CD">>, <<"TSX", ":", "AB">> >>},
            t \in {<<"Acme", "announces", "Big", "Acme">>, <<"Big", "Acme", "'s", "x">>, <<"x", ":", "Acme">>},
            b \in MCBodies, w \in {<<>>, << <<"x">>, <<"Acme">> >>}}
  \union {Filed(f, c, i, l) : f \in {"8-K", "S-3", ""}, c \in {0, 7, 8, 9}, i \in {{}, {17}, {1, 17}}, l \in {"", "index"}}
  \union {Halt(s, r) : s \in {"", "AB", "ZZ"}, r \in {0, 4}}
MCLater ==
  {Story(<<>>, <<"Acme", "announces">>, <<>>, <<>>), Story(<<>>, <<>>, <<>>, <<>>),
   Story(<< <<"OTC", ":", "CD">> >>, <<"x">>, << <<"TSX", ":", "AB">> >>, <<>>),
   Filed("8-K", 7, {1}, "index"), Filed("8-K", 8, {}, "index"), Filed("", 7, {}, ""), Halt("AB", 4), Halt("ZZ", 0)}
Row(e, h, t) == [exhibit |-> e, href |-> h, lines |-> t]
MCPages ==
  {<<>>, <<Row("other", TRUE, <<>>), Row("99.2", TRUE, << <<"x">> >>)>>,
   <<Row("99.2", TRUE, << <<"annex">>, <<"the", "annex">> >>), Row("99.1", FALSE, <<>>),
     Row("99.1", TRUE, << <<"exhibit", "one">>, <<"Acme", "wins">>, <<"Nasdaq", ":", "CD">> >>)>>}

MCVenue == "Nasdaq" :> "US" @@ "OTC" :> "OTC" @@ "TSX" :> "Foreign"
MCTickers == "AB" :> 1 @@ "CD" :> 2 @@ "EF" :> 3 @@ "TSX" :> 4
MCNames == <<"Acme">> :> 1 @@ <<"Big", "Acme">> :> 2
MCIssuer == 7 :> <<1, 2, 3>> @@ 8 :> <<4>>
MCPrimary == 7 :> 2 @@ 8 :> 4

News == INSTANCE NewsEvents WITH
          Items <- MCItems, LaterItems <- MCLater, IndexPages <- MCPages, MaxItems <- 3,
          Venue <- MCVenue, NoSymbol <- 0,
          TickerLike <- {"AB", "CD", "EF", "ZZ", "OTC", "TSX"},
          Listed <- MCTickers,
          Names <- MCNames, OfCik <- MCIssuer, Primary <- MCPrimary, WantsExhibit <- {1, 2},
          Cue <- {"announced"}, Stop <- {"announces"}, Boilerplate <- {"exhibit"}, Boring <- {17},
          MaxHits <- 3, MaxTickers <- 2, MaxUnresolved <- 1,
          TitleMax <- 7, BodyMax <- 6, TextMax <- 8, DatelineMax <- 3, LeadMax <- 4

-----------------------------------------------------------------------------
Init == /\ part \in {"stokd", "http", "edgar", "news"}
        /\ DaemonInit /\ ClientInit /\ JobsInit /\ News!NewsInit
        /\ part # "http" => tls_

StokdStep == part = "stokd" /\ DaemonNext /\ UNCHANGED <<part, clientVars, jobVars, eventVars>>
HttpStep == part = "http" /\ ClientNext /\ UNCHANGED <<part, daemonVars, jobVars, eventVars>>
EdgarStep == part = "edgar" /\ JobsNext /\ UNCHANGED <<part, daemonVars, clientVars, eventVars>>
NewsStep == part = "news" /\ News!NewsNext /\ UNCHANGED <<part, daemonVars, clientVars, jobVars>>

Next == StokdStep \/ HttpStep \/ EdgarStep \/ NewsStep

\* Each module's fairness, for the part that runs.
Fairness ==
  /\ \A t \in Thread \union {"main", "dns"} : WF_daemonVars(part = "stokd" /\ Fair(t))
  /\ WF_clientVars(part = "http" /\ Request) /\ WF_clientVars(part = "http" /\ TimePasses)
  /\ WF_jobVars(part = "edgar" /\ Tick) /\ WF_jobVars(part = "edgar" /\ Connect)
  /\ SF_jobVars(part = "edgar" /\ SendJob)
  /\ WF_jobVars(part = "edgar" /\ (JobClosed \/ JobResponse))

Spec == Init /\ [][Next]_<<part, daemonVars, clientVars, jobVars, eventVars>> /\ Fairness

-----------------------------------------------------------------------------
\* An event is its own item's, and its companies are those it is tagged with.
NewsInv == News!NewsInv
=============================================================================
