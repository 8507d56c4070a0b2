------------------------------- MODULE ItchBook -------------------------------
(* The order book the market thread builds from the exchange's messages: live *)
(* orders by reference, an aggregated price ladder for each side of a quoted  *)
(* symbol, and the trades and the top of book it writes to the board.         *)
(*                                                                            *)
(* The exchange (external) never uses a reference twice, but the receiver may *)
(* have joined late or lost messages, so an order may be reduced or replaced  *)
(* that the book has never seen, or be reduced by more than the book has left.*)
EXTENDS MarketBoard, Sequences, SequencesExt

CONSTANTS Locate,      \* the exchange's codes for stocks
          Sym,         \* the stocks known here
          Quoted,      \* those whose ladders are kept (track_quotes_, filter_)
          StockOf,     \* what the directory says of a code: a symbol or Invalid
          Invalid,     \* SymbolTable::kInvalid
          Prices,
          MaxShares,   \* largest number of shares in a message
          MaxEvents,   \* bound on the references used and trades printed together
          LastMinute   \* bound on the clock

ASSUME BookAssumption ==
  /\ Prices \subseteq Nat /\ MaxShares \in Nat /\ MaxEvents \in Nat /\ LastMinute \in Nat
  /\ Quoted \subseteq Sym /\ Invalid \notin Sym /\ StockOf \in [Locate -> Sym \union {Invalid}]

VARIABLES locate_to_sym,  \* code -> symbol
          orders,         \* reference -> order, of the references in the table
          books,          \* symbol -> the two ladders, worst level first, and the top last published
          board,          \* symbol -> its state on the board
          minute,         \* of the feed's clock
          nextRef,        \* first reference the exchange has not used
          prints          \* history: the trades printed of stocks known here

bookVars == <<locate_to_sym, orders, books, board, minute, nextRef, prints>>

Side == {"B", "S"}
Order == [price : Prices, shares : 1..MaxShares, locate : Locate, side : Side]
Level == [price : Prices, qty : Nat]
Top == [bid |-> 0, ask |-> 0, bid_sz |-> 0, ask_sz |-> 0]

BookInit ==
  /\ locate_to_sym = [l \in Locate |-> Invalid]
  /\ orders = <<>>
  /\ books = [s \in Quoted |-> [B |-> <<>>, S |-> <<>>, pub |-> Top]]
  /\ board = [s \in Sym |-> EmptyState]
  /\ minute = 0 /\ nextRef = 1 /\ prints = <<>>

-----------------------------------------------------------------------------
(* SideLadder *)

Worse(side, p, q) == IF side = "B" THEN p < q ELSE p > q

\* First level not worse than the price.
position(side, lv, price) ==
  Cardinality({i \in DOMAIN lv : Worse(side, lv[i].price, price)}) + 1

AtLevel(side, lv, price) ==
  LET i == position(side, lv, price) IN i <= Len(lv) /\ lv[i].price = price

add(side, lv, price, qty) ==
  LET i == position(side, lv, price)
  IN  IF AtLevel(side, lv, price) THEN [lv EXCEPT ![i].qty = @ + qty]
                                  ELSE InsertAt(lv, i, [price |-> price, qty |-> qty])

\* The touch, which the code looks at first, is the level at the end.
remove(side, lv, price, qty) ==
  LET i == position(side, lv, price)
  IN  IF ~AtLevel(side, lv, price) THEN lv
      ELSE IF qty >= lv[i].qty THEN RemoveAt(lv, i)
      ELSE [lv EXCEPT ![i].qty = @ - qty]

Best(lv) == IF lv = <<>> THEN [price |-> 0, qty |-> 0] ELSE Last(lv)

-----------------------------------------------------------------------------
(* Writing the top of book and the trades to the board *)

\* Mutant: only a change of a price is published.
ChangedPrice(old, new) == old.bid # new.bid \/ old.ask # new.ask
Changed(old, new) == old # new

\* The ladder of a quoted symbol becomes lv, then publish_top().
Relevel(sym, side, lv, brd) ==
  LET b == [books[sym] EXCEPT ![side] = lv]
      t == [bid |-> Best(b.B).price, ask |-> Best(b.S).price,
            bid_sz |-> Best(b.B).qty, ask_sz |-> Best(b.S).qty]
  IN  IF Changed(b.pub, t)
        THEN /\ books' = [books EXCEPT ![sym] = [b EXCEPT !.pub = t]]
             /\ board' = [brd EXCEPT ![sym] = quote(@, t.bid, t.bid_sz, t.ask, t.ask_sz)]
        ELSE /\ books' = [books EXCEPT ![sym] = b]
             /\ board' = brd

\* A trade on the board; a code without a symbol is out of its range.
Printed(brd, sym, price, shares) ==
  IF sym = Invalid THEN brd ELSE [brd EXCEPT ![sym] = trade(@, price, shares, minute)]

More == nextRef - 1 + Len(prints) < MaxEvents

Print1(sym, price, shares) ==
  /\ More
  /\ prints' = IF sym = Invalid THEN prints
               ELSE Append(prints, [sym |-> sym, price |-> price, shares |-> shares, minute |-> minute])

Known(ref) == ref \in DOMAIN orders
Without(ref) == [r \in DOMAIN orders \ {ref} |-> orders[r]]
With(os, ref, o) == [r \in DOMAIN os \union {ref} |-> IF r = ref THEN o ELSE os[r]]

\* Mutant: the ladder loses what the message says, the order what it has.
TakenAll(o, shares) == shares
Taken(o, shares) == Min({shares, o.shares})

\* reduce(), with brd the board as the handler has left it so far.
Reduce(ref, shares, brd) ==
  LET o == orders[ref]
      sym == locate_to_sym[o.locate]
  IN  /\ orders' = IF shares >= o.shares THEN Without(ref)
                                         ELSE [orders EXCEPT ![ref].shares = @ - shares]
      /\ IF sym \in Quoted
           THEN Relevel(sym, o.side, remove(o.side, books[sym][o.side], o.price, Taken(o, shares)), brd)
           ELSE books' = books /\ board' = brd

-----------------------------------------------------------------------------
(* One action for each message *)

\* The directory names each code once, some of them after the first orders.
on_stock_directory(l) ==
  /\ locate_to_sym[l] = Invalid /\ StockOf[l] # Invalid
  /\ locate_to_sym' = [locate_to_sym EXCEPT ![l] = StockOf[l]]
  /\ UNCHANGED <<orders, books, board, minute, nextRef, prints>>

on_add(l, side, shares, price) ==
  LET sym == locate_to_sym[l] IN
  /\ More
  /\ nextRef' = nextRef + 1
  /\ IF sym = Invalid
       THEN UNCHANGED <<orders, books, board>>
       ELSE /\ orders' = With(orders, nextRef, [price |-> price, shares |-> shares, locate |-> l, side |-> side])
            /\ IF sym \in Quoted
                 THEN Relevel(sym, side, add(side, books[sym][side], price, shares), board)
                 ELSE UNCHANGED <<books, board>>
  /\ UNCHANGED <<locate_to_sym, minute, prints>>

\* An order the book does not know changes nothing.
on_executed(ref, shares) ==
  /\ Known(ref)
  /\ LET sym == locate_to_sym[orders[ref].locate]
     IN  /\ Print1(sym, orders[ref].price, shares)
         /\ Reduce(ref, shares, Printed(board, sym, orders[ref].price, shares))
  /\ UNCHANGED <<locate_to_sym, minute, nextRef>>

\* The print counts even when the order is unknown.
on_executed_price(l, ref, shares, printable, price) ==
  LET sym == locate_to_sym[l]
      brd == IF printable THEN Printed(board, sym, price, shares) ELSE board
  IN  /\ Known(ref) => orders[ref].locate = l
      /\ IF printable THEN Print1(sym, price, shares) ELSE UNCHANGED prints
      /\ IF Known(ref) THEN Reduce(ref, shares, brd) ELSE board' = brd /\ UNCHANGED <<orders, books>>
      /\ UNCHANGED <<locate_to_sym, minute, nextRef>>

\* A cancel, or with all the shares a delete.
on_cancel(ref, shares) ==
  /\ Known(ref)
  /\ Reduce(ref, shares, board)
  /\ UNCHANGED <<locate_to_sym, minute, nextRef, prints>>

on_delete(ref) == Known(ref) /\ on_cancel(ref, orders[ref].shares)

\* The exchange uses up a reference whether or not the old one is known.
on_replace(ref, shares, price) ==
  /\ More
  /\ nextRef' = nextRef + 1
  /\ UNCHANGED <<locate_to_sym, minute, prints>>
  /\ IF ~Known(ref) THEN UNCHANGED <<orders, books, board>>
     ELSE LET o == orders[ref]
              sym == locate_to_sym[o.locate]
          IN  /\ orders' = With(Without(ref), nextRef, [o EXCEPT !.shares = shares, !.price = price])
              /\ IF sym \in Quoted
                   THEN Relevel(sym, o.side,
                                add(o.side, remove(o.side, books[sym][o.side], o.price, o.shares), price, shares), board)
                   ELSE UNCHANGED <<books, board>>

on_trade(l, shares, price) ==
  /\ Print1(locate_to_sym[l], price, shares)
  /\ board' = Printed(board, locate_to_sym[l], price, shares)
  /\ UNCHANGED <<locate_to_sym, orders, books, minute, nextRef>>

on_cross(l, shares, price, type) ==
  /\ Print1(locate_to_sym[l], price, shares)
  /\ board' = IF locate_to_sym[l] = Invalid THEN board
              ELSE [board EXCEPT ![locate_to_sym[l]] = cross(@, price, shares, minute, type)]
  /\ UNCHANGED <<locate_to_sym, orders, books, minute, nextRef>>

NextMinute ==
  /\ minute < LastMinute
  /\ minute' = minute + 1
  /\ UNCHANGED <<locate_to_sym, orders, books, board, nextRef, prints>>

\* Reference 0 stands for all that the book has not seen or has forgotten.
References == DOMAIN orders \union {0}

BookNext ==
  \/ NextMinute
  \/ \E l \in Locate :
       \/ on_stock_directory(l)
       \/ \E n \in 1..MaxShares, p \in Prices :
            \/ \E side \in Side : on_add(l, side, n, p)
            \/ on_trade(l, n, p)
            \/ \E ref \in References, b \in BOOLEAN : on_executed_price(l, ref, n, b, p)
       \/ \E n \in 0..MaxShares, p \in Prices, t \in {"O", "C"} : on_cross(l, n, p, t)
  \/ \E ref \in References :
       \/ on_delete(ref)
       \/ \E n \in 1..MaxShares : on_executed(ref, n) \/ on_cancel(ref, n)
       \/ \E n \in 1..MaxShares, p \in Prices : on_replace(ref, n, p)

BookSpec == BookInit /\ [][BookNext]_bookVars

-----------------------------------------------------------------------------
Live(sym, side, p) ==
  {r \in DOMAIN orders : /\ locate_to_sym[orders[r].locate] = sym
                         /\ orders[r].side = side /\ orders[r].price = p}
Resting(sym, side, p) == Total([r \in Live(sym, side, p) |-> orders[r].shares])
LivePrices(sym, side) == {p \in Prices : Live(sym, side, p) # {}}

\* Each ladder is the live orders of its side added up by price, best last,
\* without empty levels: what add() and remove() do through binary search and
\* the fast path at the touch never drifts away from the order table, whatever
\* was executed, cancelled, replaced or unknown.
LadderIsSum ==
  \A s \in Quoted, side \in Side :
    LET lv == books[s][side]
    IN  /\ {[price |-> lv[i].price, qty |-> lv[i].qty] : i \in DOMAIN lv}
             = {[price |-> p, qty |-> Resting(s, side, p)] : p \in LivePrices(s, side)}
        /\ \A i, j \in DOMAIN lv : i < j => Worse(side, lv[i].price, lv[j].price)

\* The top of book the engine reads is the best live order's price and all the
\* shares there, or 0, even though it is written only when it changes.
TopIsBest ==
  \A s \in Quoted :
    LET bids == LivePrices(s, "B")
        asks == LivePrices(s, "S")
        sizeAt(side, ps, p) == IF ps = {} THEN 0 ELSE Min({MaxSize, Resting(s, side, p)})
    IN  /\ board[s].bid = IF bids = {} THEN 0 ELSE Max(bids)
        /\ board[s].ask = IF asks = {} THEN 0 ELSE Min(asks)
        /\ board[s].bid_sz = sizeAt("B", bids, board[s].bid)
        /\ board[s].ask_sz = sizeAt("S", asks, board[s].ask)

\* A cross of no shares is not a trade, nor is a print without a price.
PrintsOf(s) == {i \in DOMAIN prints : prints[i].sym = s /\ prints[i].shares > 0 /\ prints[i].price > 0}
Shares(is) == Total([i \in is |-> prints[i].shares])

\* The statistics of the board are those of the trades printed: nothing is
\* counted twice or under another stock, and the ring of minute bars answers
\* for every minute it covers although slots are used again.
BoardIsPrints ==
  \A s \in Sym :
    LET st == board[s]
        ps == PrintsOf(s)
        px == {prints[i].price : i \in ps}
    IN  /\ st.trades = Cardinality(ps)
        /\ st.volume = Shares(ps)
        /\ st.notional = Total([i \in ps |-> prints[i].price * prints[i].shares])
        /\ st.high = IF ps = {} THEN 0 ELSE Max(px)
        /\ st.low = IF ps = {} THEN 0 ELSE Min(px)
        /\ st.last = IF ps = {} THEN 0 ELSE prints[Max(ps)].price
        /\ price_at_minute(st, minute) = st.last
        /\ \A m \in 0..LastMinute :
             m > minute - BarRing => volume_since_minute(st, m) = Shares({i \in ps : prints[i].minute >= m})

\* Whatever the stream, order table, ladders, top of book and statistics tell
\* the same story (itch_book.hpp, level_book.hpp:38, board.cpp:55).
BookInv == LadderIsSum /\ TopIsBest /\ BoardIsPrints
=============================================================================
