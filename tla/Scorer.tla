------------------------------- MODULE Scorer -------------------------------
(***************************************************************************)
(* The rule-based news scorer (engine/scorer.cpp).  All phrases are        *)
(* compiled into one Aho-Corasick automaton; title and body are scanned    *)
(* once each, and the rules hit are folded into a score.                   *)
(*                                                                         *)
(* A text is a sequence over Letter and Sep (every character of class 0);  *)
(* a phrase may end in Star.  A state of the automaton is the string that  *)
(* leads to it, so the trie is a set of prefixes.  The dollar figures of a *)
(* document are kept apart from its words: each has its value and what     *)
(* stands next to it, which is all extract_amount looks at.                *)
(*                                                                         *)
(* seen is the thread_local vector that outlives a call: it is cleared     *)
(* entry by entry, from the lists of hits, after each document.            *)
(***************************************************************************)
EXTENDS Integers, Sequences, SequencesExt, FiniteSets, FiniteSetsExt

CONSTANTS Letter, Sep, Star, RuleLines, FirstDocs, NextDocs, MaxDocs, MaxMatched

VARIABLES seen, doc, result, scored

scorerVars == <<seen, doc, result, scored>>

Symbol == Letter \cup {Sep}

Kinds == {"cat", "spec", "hedge", "promo", "tier1", "nonbinding", "dilution",
          "distress", "rsplit", "spam", "neg"}

LowerOf(x, y) == IF x < y THEN x ELSE y
UpperOf(x, y) == IF x > y THEN x ELSE y

-----------------------------------------------------------------------------
Catalysts == {"none", "fda", "clinical", "contract", "mna_target", "mna_acquirer", "earnings",
              "uplisting", "partnership", "product", "buyback", "crypto_ai", "legal_win",
              "offering", "reverse_split", "distress", "other"}

MaxRules == 65535

(* load_rules: a line with an unknown kind, an unknown catalyst or no phrase
   refuses the whole file, and so do too many rules.  (The same limit on the
   states of the automaton is left out.) *)
load_rules ==
    /\ \A n \in DOMAIN RuleLines :
          /\ RuleLines[n].kind \in Kinds /\ RuleLines[n].phrase # <<>>
          /\ RuleLines[n].kind = "cat" => RuleLines[n].cat \in Catalysts
    /\ Len(RuleLines) < MaxRules

(* The rules of an accepted file: its lines, in order. *)
Rules == RuleLines

(* A run of separators is one separator. *)
Collapsed(s) ==
    SelectSeq([i \in DOMAIN s |-> IF i > 1 /\ s[i] = Sep /\ s[i - 1] = Sep THEN Star ELSE s[i]],
              LAMBDA c : c # Star)

(* The phrase as the automaton sees it: a separator in front and, unless it
   is a prefix rule, behind. *)
norm_(id) ==
    LET p == Rules[id].phrase
        prefix == Last(p) = Star
        n == Collapsed(<<Sep>> \o (IF prefix THEN Front(p) ELSE p \o <<Sep>>))
    IN IF prefix /\ Len(n) > 1 /\ Last(n) = Sep THEN Front(n) ELSE n

(* The trie: one state for every prefix of a phrase. *)
Trie == UNION {{SubSeq(norm_(id), 1, k) : k \in 0..Len(norm_(id))} : id \in DOMAIN Rules}

own(s) == SelectSeq([id \in DOMAIN Rules |-> id], LAMBDA id : norm_(id) = s)

(* Mutant: the outputs of the failure state are not merged in. *)
MergedOwn(s, f) == own(s)

(* A state reports its own phrases and those of its failure state, which end
   at the same character. *)
Merged(s, f) == own(s) \o f

(* Failure links, transitions and outputs, built from the shorter states to
   the longer ones as the breadth-first queue does. *)
build[s \in Trie] ==
    LET f == IF Len(s) <= 1 THEN <<>> ELSE build[build[Front(s)].fail].next[Last(s)]
    IN [fail |-> f,
        next |-> [c \in Symbol |-> IF Append(s, c) \in Trie THEN Append(s, c)
                                   ELSE IF s = <<>> THEN <<>> ELSE build[f].next[c]],
        outs |-> IF s = <<>> THEN own(s) ELSE Merged(s, build[f].outs)]

Automaton == [s \in Trie |-> build[s]]

(* The text as it reaches the automaton: leading, single and trailing
   separators. *)
Fed(text) == IF \A i \in DOMAIN text : text[i] = Sep THEN <<Sep>>
             ELSE Collapsed(<<Sep>> \o text \o <<Sep>>)

(* The leading separator moves the automaton and reports nothing. *)
scan(text) ==
    LET t == Fed(text)
        after[n \in 1..Len(t)] ==
            IF n = 1 THEN [at |-> Automaton[<<>>].next[Sep], hits |-> <<>>]
            ELSE LET s == Automaton[after[n - 1].at].next[t[n]]
                 IN [at |-> s, hits |-> after[n - 1].hits \o Automaton[s].outs]
    IN after[Len(t)].hits

-----------------------------------------------------------------------------
(* extract_amount: the largest figure that is neither a price per share nor
   the size of a market; a market figure only leaves its flag, and "up to"
   counts only in front of a figure that is kept. *)
Kept(figures) == {f \in figures : f.after = "plain"}

extract_amount(figures) ==
    [amount |-> Max({f.value : f \in Kept(figures)} \cup {0}),
     flags |-> (IF \E f \in figures : f.after = "market" THEN {"tam_amount"} ELSE {})
               \cup (IF \E f \in Kept(figures) : f.upto THEN {"up_to"} ELSE {})]

-----------------------------------------------------------------------------
(* score_text. *)

Zero == [best |-> 0, cat |-> "none", spec |-> 0, hedge |-> 0, promo |-> 0, tier1 |-> 0,
         nonbinding |-> 0, neg |-> 0, flags |-> {}, matched |-> <<>>]

FlagOf(kind) ==
    CASE kind \in {"tier1", "distress", "spam", "promo"} -> {kind}
      [] kind = "hedge" -> {"hedged"} [] kind = "neg" -> {"negative"}
      [] kind = "nonbinding" -> {"non_binding"} [] kind = "dilution" -> {"offering"}
      [] kind = "rsplit" -> {"reverse_split"} [] OTHER -> {}

(* One hit counted: sums only the first time a rule is met, the maxima every
   time; a catalyst in the title weighs five more. *)
Counted(a, id, in_title, first_time) ==
    LET r == Rules[id]
        w == r.weight + (IF in_title THEN 5 ELSE 0)
        add(x) == IF first_time THEN x + r.weight ELSE x
    IN [a EXCEPT
          !.best = IF r.kind = "cat" THEN UpperOf(@, w) ELSE @,
          !.cat = IF r.kind = "cat" /\ w > a.best THEN r.cat ELSE @,
          !.spec = IF r.kind = "spec" THEN add(@) ELSE @,
          !.hedge = IF r.kind = "hedge" THEN add(@) ELSE @,
          !.promo = IF r.kind = "promo" THEN add(@) ELSE @,
          !.neg = IF r.kind = "neg" THEN add(@) ELSE @,
          !.tier1 = IF r.kind = "tier1" THEN UpperOf(@, r.weight) ELSE @,
          !.nonbinding = IF r.kind = "nonbinding" THEN LowerOf(@, r.weight) ELSE @,
          !.flags = @ \cup FlagOf(r.kind),
          !.matched = IF first_time /\ Len(@) < MaxMatched THEN Append(@, id) ELSE @]

(* consider(): the first hit of a rule in this part of the document. *)
consider(st, id, bit) ==
    IF bit \in st.seen[id] THEN st
    ELSE [acc |-> Counted(st.acc, id, bit = 1, st.seen[id] = {}),
          seen |-> [st.seen EXCEPT ![id] = @ \cup {bit}]]

Considered(title, body, before) ==
    LET hits == [i \in DOMAIN title |-> <<title[i], 1>>] \o [i \in DOMAIN body |-> <<body[i], 2>>]
        after[n \in 0..Len(hits)] ==
            IF n = 0 THEN [acc |-> Zero, seen |-> before]
            ELSE consider(after[n - 1], hits[n][1], hits[n][2])
    IN after[Len(hits)]

(* Mutant: only the hits of the title are cleared. *)
ClearedTitle(s, title, body) ==
    [id \in DOMAIN s |-> IF id \in Range(title) THEN {} ELSE s[id]]

Cleared(s, title, body) ==
    [id \in DOMAIN s |-> IF id \in Range(title) \cup Range(body) THEN {} ELSE s[id]]

(* The sum of the parts, each with its own limit, and the hard blocks. *)
TextScore(a) ==
    LET sum == a.best + LowerOf(a.spec, 15) + a.tier1 + UpperOf(a.hedge, -15)
               + UpperOf(a.promo, -15) + a.nonbinding + UpperOf(a.neg, -30)
        split == sum - (IF "reverse_split" \in a.flags THEN 20 ELSE 0)
        distressed == split - (IF "distress" \in a.flags THEN 25 ELSE 0)
        capped == IF "offering" \in a.flags THEN LowerOf(distressed, 15) ELSE distressed
    IN IF "spam" \in a.flags THEN 0 ELSE UpperOf(0, LowerOf(capped, 100))

CatalystOf(a) ==
    CASE "offering" \in a.flags -> "offering"
      [] "distress" \in a.flags /\ a.best < 40 -> "distress"
      [] "reverse_split" \in a.flags /\ a.best < 40 -> "reverse_split"
      [] OTHER -> a.cat

(* Mutant: the points for a large amount are given to offerings too. *)
AppliesToOffering(cat, flags) ==
    cat \notin {"distress", "reverse_split", "mna_acquirer", "none"} /\ "spam" \notin flags

Applies(cat, flags) ==
    cat \notin {"offering", "distress", "reverse_split", "mna_acquirer", "none"}
    /\ "spam" \notin flags

(* finalize: the amount against the market capitalisation. *)
Points(cat, flags, amount, cap) ==
    LET pts == CASE amount >= cap -> 20
                 [] amount * 10 >= cap * 3 -> 12
                 [] amount * 10 >= cap -> 6
                 [] amount * 50 < cap -> -5
                 [] OTHER -> 0
    IN IF cap <= 0 \/ amount <= 0 \/ ~Applies(cat, flags) THEN 0
       ELSE IF pts > 0 /\ "up_to" \in flags THEN pts \div 2 ELSE pts

finalize(text_score, pts) == UpperOf(0, LowerOf(text_score + pts, 100))

ResultOf(a, d) ==
    LET amt == extract_amount(d.figures)
        flags == a.flags \cup amt.flags
    IN [text_score |-> TextScore(a), catalyst |-> CatalystOf(a), flags |-> flags,
        matched |-> a.matched, amount |-> amt.amount,
        score |-> finalize(TextScore(a), Points(CatalystOf(a), flags, amt.amount, d.cap))]

-----------------------------------------------------------------------------

Unscored == [score |-> -1]

ScorerStart(d) ==
    /\ seen = [id \in DOMAIN Rules |-> {}]
    /\ doc = d
    /\ result = Unscored
    /\ scored = 0

ScorerInit == \E d \in FirstDocs : ScorerStart(d)

(* The engine scores the document and adds the materiality points; a refused
   file ends the program before there is one (stokd.cpp:174). *)
score_text ==
    /\ load_rules /\ result = Unscored
    /\ \E title \in {scan(doc.title)}, body \in {scan(doc.body)} :
          \E st \in {Considered(title, body, seen)} :
              /\ result' = ResultOf(st.acc, doc)
              /\ seen' = Cleared(st.seen, title, body)
    /\ scored' = scored + 1
    /\ UNCHANGED doc

NextStory ==
    /\ result # Unscored /\ scored < MaxDocs
    /\ doc' \in NextDocs
    /\ result' = Unscored
    /\ UNCHANGED <<seen, scored>>

ScorerNext == score_text \/ NextStory

ScorerSpec == ScorerInit /\ [][ScorerNext]_scorerVars

-----------------------------------------------------------------------------
(* The phrases a reader finds: for every rule the places of the text at
   which it ends, looked for one by one. *)
Places(id, text) ==
    {i \in 1..Len(Fed(text)) : /\ i >= Len(norm_(id)) /\ i > 1
                               /\ SubSeq(Fed(text), i - Len(norm_(id)) + 1, i) = norm_(id)}

(* The automaton reports every rule exactly as often as its phrase occurs on
   word boundaries, overlapping phrases and phrases inside others included:
   a wrong failure link loses a phrase that starts inside another. *)
ScanFindsPhrases ==
    \A text \in {doc.title, doc.body} : \A id \in DOMAIN Rules :
        Len(SelectSeq(scan(text), LAMBDA h : h = id)) = Cardinality(Places(id, text))

(* What the rules of one kind in a set weigh together. *)
SumOf(ids, kind) ==
    MapThenSumSet(LAMBDA id : Rules[id].weight, {id \in ids : Rules[id].kind = kind})

(* The result depends on which phrases occur in title and body and on
   nothing else: not on how often or in which order they occur, and not on
   the documents scored before on the same thread, whose marks in seen must
   all be gone. *)
ScoreIsPhrases ==
    result # Unscored =>
        LET inTitle == {id \in DOMAIN Rules : Places(id, doc.title) # {}}
            inBody == {id \in DOMAIN Rules : Places(id, doc.body) # {}}
            all == inTitle \cup inBody
            cats == {Rules[id].weight + (IF id \in inTitle THEN 5 ELSE 0) :
                        id \in {x \in all : Rules[x].kind = "cat"}}
            of(kind) == {Rules[id].weight : id \in {x \in all : Rules[x].kind = kind}}
        IN result.text_score = TextScore(
              [Zero EXCEPT !.best = Max(cats \cup {0}), !.spec = SumOf(all, "spec"),
                           !.hedge = SumOf(all, "hedge"), !.promo = SumOf(all, "promo"),
                           !.neg = SumOf(all, "neg"), !.tier1 = Max(of("tier1") \cup {0}),
                           !.nonbinding = Min(of("nonbinding") \cup {0}),
                           !.flags = UNION {FlagOf(Rules[id].kind) : id \in all}])

(* config/rules.tsv: dilution is a hard block, score <= 15, and spam scores
   0; the materiality points added later by finalize() lift neither. *)
HardBlocks ==
    result # Unscored =>
        /\ "offering" \in result.flags => result.score <= 15
        /\ "spam" \in result.flags => result.score = 0

\* The score of a story is that of the phrases in it, whatever was scored before
\* (scorer.cpp:201, 390).
ScorerInv == ScanFindsPhrases /\ ScoreIsPhrases /\ HardBlocks
=============================================================================
