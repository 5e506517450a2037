------------------------------- MODULE Auction -------------------------------
(***************************************************************************)
(* The auction object (market/auction.cpp, bid.cpp).  Bidders submit asks  *)
(* and offers, and may change a bid with the key they got for it while its *)
(* market is open.  At the end of each period presync clears the market,   *)
(* which makes the keys stale, and opens the next.  The result becomes the *)
(* current one at once or, with a latency, after it has waited in a ring   *)
(* of frames; the prices also feed the statistics that bidders look at.    *)
(***************************************************************************)
EXTENDS Clearing

CONSTANTS Bidder, None,
          Modes,          \* special_mode, fixed_quantity and the capacity reference
          FixedPrice,
          RefLoads,       \* the loads of the capacity reference
          RefQuantity,    \* max_capacity_reference_bid_quantity
          RefPrice,       \* capacity_reference_bid_price
          Warmup,         \* warmup: no demand in the first WarmSamples markets
          WarmSamples,    \* sph24
          Period, Latency,
          Stats,          \* the statistics: [need |-> periods, past |-> BOOLEAN]
          IgnoreCap,      \* ignore_pricecap
          InitPrice,
          Prices, Quantities, States,  \* what bidders submit
          StalePrices,    \* what may be left behind the end of a list
          MaxBids,        \* bound: the bids of each side
          MaxKeys,        \* bound: the keys a bidder keeps
          MaxMarket       \* bound: the last market that opens

ASSUME TimeAssumption == Period \in Nat \ {0} /\ Latency \in Nat
ASSUME BidAssumption == Prices \subseteq Int /\ Quantities \subseteq Int
ASSUME MarketAssumption ==
  /\ \A m \in Modes : /\ m.special \in {"none", "sellers", "buyers", "fixed_seller", "fixed_buyer"}
                      /\ m.quantity \in Nat
                      /\ m.reference \in {"none", "silent", "bids", "unusable"}
  /\ RefLoads \subseteq Int /\ RefQuantity \in Int /\ RefPrice \in Int /\ FixedPrice \in Int
ASSUME StatAssumption ==
  IsFiniteSet(Stats) /\ \A s \in Stats : s.need \in Nat /\ s.past \in BOOLEAN

VARIABLES mode,      \* special_mode, fixed_quantity and the capacity reference
          thrown,    \* an exception has left clear_market, and ended the run
          load,      \* the load of the capacity reference when it is read next
          clock, clearat, market,
          book,      \* [asks, offers]
          held,      \* the keys a bidder was given
          samples,   \* total_samples
          history,   \* new_prices
          index,     \* price_index
          ring,      \* framedata
          front,     \* latency_front
          back,      \* latency_back
          cleared, past, current, next,  \* the frames
          shown,     \* the statistics that are published
          log        \* the prices of all markets so far (for the properties)

frameVars == <<ring, front, back, cleared, past, current, next, shown>>
vars == <<mode, thrown, load, clock, clearat, market, book, held, samples, history, index, frameVars, log>>

EmptyBook == [asks |-> EmptyCurve, offers |-> EmptyCurve]
NoKey == [market |-> -1, side |-> "unknown", bid |-> -1]
\* mutant: no room for telling a full ring from an empty one
ShortRing == Latency \div Period

RingSize == Latency \div Period + 2
HistorySize == IF Stats = {} THEN 1 ELSE Max({s.need : s \in Stats}) + 2
NoFrame == [market |-> 0, start |-> 0, price |-> 0, quantity |-> 0, type |-> "null",
            marginal |-> [quantity |-> 0, total |-> 0],
            stats |-> [s \in Stats |-> 0]]

NextClear == clock + (Period - (clock % Period))

Init ==
  /\ mode \in Modes /\ thrown = FALSE /\ load \in RefLoads
  /\ clock \in 1 .. Period /\ clearat = 0 /\ market = 1
  /\ book = EmptyBook /\ held = [b \in Bidder |-> {}]
  /\ samples = 0 /\ index = 0
  /\ history = [i \in 0 .. HistorySize - 1 |-> InitPrice]
  /\ ring = [i \in 0 .. RingSize - 1 |-> NoFrame] /\ front = 0 /\ back = 0
  /\ cleared = NoFrame /\ past = [NoFrame EXCEPT !.price = InitPrice]
  /\ current = past /\ next = IF Latency > 0 THEN past ELSE NoFrame
  /\ shown = [s \in Stats |-> s.need * InitPrice]
  /\ log = <<>>

-----------------------------------------------------------------------------
(* submit_nolock *)

Capped(price) == IF price > Cap THEN Cap ELSE price
Abs(q) == IF q < 0 THEN -q ELSE q
BidOf(from, q, price, st) ==
  [from |-> from, quantity |-> Abs(q), price |-> Capped(price), state |-> st]

Ignored(q) == Warmup /\ samples < WarmSamples /\ q < 0

NewBid(bk, from, q, price, st) ==
  LET bid == BidOf(from, q, price, st)
  IN CASE Ignored(q) \/ q = 0 -> bk
       [] ~Ignored(q) /\ q < 0 -> [bk EXCEPT !.asks = CurveSubmit(@, bid)]
       [] q > 0 -> [bk EXCEPT !.offers = CurveSubmit(@, bid)]

SideOf(q) == IF q > 0 THEN "offers" ELSE "asks"

SubmitNew(b, q, price, st) ==
  /\ ~thrown /\ market <= MaxMarket
  /\ q # 0 /\ ~Ignored(q) /\ Len(book[SideOf(q)].bids) < MaxBids[SideOf(q)]
  /\ book' = NewBid(book, b, q, price, st)
  /\ held' = IF Cardinality(held[b]) = MaxKeys THEN held
             ELSE [held EXCEPT ![b] = @ \cup {[market |-> market, side |-> SideOf(q),
                                               bid |-> Len(book'[SideOf(q)].bids)]}]
  /\ UNCHANGED <<mode, thrown, load, clock, clearat, market, samples, history, index, frameVars, log>>

(* With a key: the bid it stands for is replaced, on the side it was made, *)
(* unless its market is over, when the answer is 0 and nothing happens.    *)
SubmitAgain(b, q, price, st, key) ==
  /\ ~thrown /\ market <= MaxMarket /\ ~Ignored(q) /\ key \in held[b]
  /\ book' = IF key.market = market
               THEN [book EXCEPT ![key.side] = CurveResubmit(@, key.bid, BidOf(b, q, price, st))]
               ELSE book
  /\ UNCHANGED <<mode, thrown, load, clock, clearat, market, held, samples, history, index, frameVars, log>>

-----------------------------------------------------------------------------
(* clear_market *)

(* The load that does not bid is submitted as an ask at the price cap, and *)
(* the reference bids itself, if the market and its property have units    *)
(* ("bids" and not "silent").                                              *)
WithReference(bk) ==
  LET unknown == bk.asks.total - bk.asks.on - bk.asks.off
      rest == load - bk.asks.on - unknown \div 2
      bk1 == IF rest > 0 THEN NewBid(bk, None, -rest, Cap, "on") ELSE bk
  IN IF mode.special = "none" /\ mode.reference = "bids"
       THEN NewBid(bk1, None, RefQuantity, RefPrice, "on") ELSE bk1

Heard == IF mode.reference = "none" THEN book ELSE WithReference(book)

(* The property of the reference cannot be read, or not be converted; or   *)
(* the market has one fixed bidder, for whom submit takes the lock of the  *)
(* auction, which the core has taken for the length of this call: it never *)
(* gets it and gives up after MAXSPIN rounds.                              *)
Throws == mode.reference = "unusable" \/ mode.special \in {"fixed_seller", "fixed_buyer"}

Result(A, O, stale) ==
  CASE mode.special = "sellers" /\ mode.quantity > 0 ->
         TakeQuantity(O, mode.quantity, "seller", Price(O, 1, stale) - Offset)
    [] mode.special = "sellers" /\ mode.quantity = 0 ->
         TakeAt(O, FixedPrice, LAMBDA bid : bid.price <= FixedPrice)
    [] mode.special = "buyers" /\ mode.quantity > 0 ->
         TakeQuantity(A, mode.quantity, "buyer", Price(A, 1, stale) + Offset)
    [] mode.special = "buyers" /\ mode.quantity = 0 ->
         TakeAt(A, FixedPrice, LAMBDA bid : bid.price >= FixedPrice)
    [] OTHER -> IF A # <<>> /\ O # <<>> THEN DoubleAuction(A, O, stale) ELSE NoAuction(A, O)

\* mutant: the present market counts among the past
StartSame(i, s) == (HistorySize + i - s.need) % HistorySize

WindowStart(i, s) == (HistorySize + (IF s.past THEN i - 1 ELSE i) - s.need) % HistorySize

(* ignore_pricecap: prices at the cap can be left out. *)
Counts(price) == ~IgnoreCap \/ price \notin {Cap, -Cap}

(* update_statistics: the sum of the prices a mean is taken of. *)
SumOf(prices, n) == SumTo([k \in 1 .. n |-> IF Counts(prices[k]) THEN prices[k] ELSE 0], n)

Window(h, i, s) ==
  SumOf([k \in 1 .. s.need |-> h[(WindowStart(i, s) + k - 1) % HistorySize]], s.need)

\* mutant: a frame comes into force after its start
DueLater == front # back /\ clock > ring[front].start

Due == front # back /\ clock >= ring[front].start

(* pop_market_frame, push_market_frame and check_next_market, in this order *)
Deliver(frame) ==
  LET front1 == IF Due THEN (front + 1) % RingSize ELSE front
      full == (back + 1) % RingSize = front1
      ahead == ring'[front1]
      isNext == ahead.start > clock /\ ahead.start <= clock + Period
  IN /\ front' = front1
     /\ current' = IF Due THEN ring[front] ELSE current
     /\ past' = IF Due THEN current ELSE past
     /\ ring' = IF full THEN ring ELSE [ring EXCEPT ![back] = frame]
     /\ back' = IF full THEN back ELSE (back + 1) % RingSize
     /\ samples' = IF full THEN samples ELSE samples + 1
     /\ next' = IF isNext THEN ahead ELSE next
     /\ shown' = CASE isNext -> ahead.stats
                   [] Due /\ ~isNext -> current'.stats
                   [] OTHER -> shown

DeliverNow(frame) ==
  /\ past' = current /\ current' = frame /\ samples' = samples + 1
  /\ shown' = frame.stats
  /\ UNCHANGED <<ring, front, back, next>>

Limited(price) == IF price < -Cap THEN -Cap ELSE Capped(price)

NextIndex == IF index = HistorySize THEN 0 ELSE index

\* mutant: the market keeps its number
SameMarket == market

NextMarket == market + 1

ClearMarket ==
  /\ clearat # 0 /\ clock >= clearat /\ market <= MaxMarket /\ ~Throws
  /\ \E stale \in StalePrices :
       LET A == Falling(Heard.asks)
           O == Rising(Heard.offers)
           result == Result(A, O, stale)
       IN /\ history' = [history EXCEPT ![NextIndex] = result.price]
          /\ index' = NextIndex + 1
          /\ cleared' = [market |-> market, start |-> clock + Latency,
                         price |-> Limited(result.price), quantity |-> result.quantity,
                         type |-> result.type, marginal |-> Marginal(A, O, result),
                         stats |-> [s \in Stats |-> Window(history', index', s)]]
          /\ log' = Append(log, result.price)
  /\ IF Latency > 0 THEN Deliver(cleared') ELSE DeliverNow(cleared')
  /\ book' = EmptyBook
  /\ market' = NextMarket
  /\ clearat' = NextClear
  /\ load' \in RefLoads
  /\ UNCHANGED <<mode, thrown, clock, held>>

(* What the call has done to the lists by then is not read again: it is    *)
(* the end of the run.                                                     *)
ClearThrows ==
  /\ clearat # 0 /\ clock >= clearat /\ market <= MaxMarket /\ Throws /\ ~thrown
  /\ thrown' = TRUE
  /\ UNCHANGED <<mode, load, clock, clearat, market, book, held, samples, history, index,
                 frameVars, log>>

FirstPresync ==
  /\ clearat = 0
  /\ clearat' = NextClear
  /\ UNCHANGED <<mode, thrown, load, clock, market, book, held, samples, history, index, frameVars, log>>

(* The clock never passes clearat, which the auction asks for at each sync. *)
Tick ==
  /\ clearat # 0 /\ clock < clearat
  /\ clock' \in clock + 1 .. clearat
  /\ UNCHANGED <<mode, thrown, load, clearat, market, book, held, samples, history, index, frameVars, log>>

Next ==
  \/ \E b \in Bidder, q \in Quantities, p \in Prices, st \in States :
       \/ SubmitNew(b, q, p, st)
       \/ \E key \in held[b] : SubmitAgain(b, q, p, st, key)
  \/ FirstPresync
  \/ ClearMarket
  \/ ClearThrows
  \/ Tick

Spec == Init /\ [][Next]_vars

-----------------------------------------------------------------------------
TypeOK ==
  /\ mode \in Modes /\ thrown \in BOOLEAN /\ (thrown => Throws)
  /\ clock \in Nat /\ clearat \in Nat /\ market \in Nat
  /\ DOMAIN history = 0 .. HistorySize - 1 /\ index \in 0 .. HistorySize
  /\ front \in 0 .. RingSize - 1 /\ back \in 0 .. RingSize - 1
  /\ \A b \in Bidder : \A k \in held[b] : k.side \in {"asks", "offers"} /\ k.bid \in Nat

(* A key of the open market stands for a bid of the bidder it was given to: *)
(* nobody replaces the bid of another, nor one of an earlier market.       *)
KeysApart ==
  \A b \in Bidder : \A k \in held[b] :
    k.market = market => /\ k.bid \in DOMAIN book[k.side].bids
                         /\ book[k.side].bids[k.bid].from = b

(* The running totals are those of the bids, however often bids change.    *)
TotalsRight ==
  \A side \in {"asks", "offers"} :
    LET c == book[side]
    IN /\ c.total = Quantity(c.bids, LAMBDA bid : TRUE)
       /\ c.on = Quantity(c.bids, LAMBDA bid : bid.state = "on")
       /\ c.off = Quantity(c.bids, LAMBDA bid : bid.state = "off")

Demand(bk, p) == Quantity(bk.asks.bids, LAMBDA bid : bid.price >= p)
Supply(bk, p) == Quantity(bk.offers.bids, LAMBDA bid : bid.price <= p)
BidPrices(bk) == {bid.price : bid \in ToSet(bk.asks.bids) \cup ToSet(bk.offers.bids)}

(* What is true of each clearing: of the bids that are heard and the result. *)
EachClearing(Good(_, _)) == market' # market => Good(Heard, cleared')

Most(bk, c) ==
  mode.special \notin {"sellers", "buyers"} =>
    c.quantity = Max({Min({Demand(bk, p), Supply(bk, p)}) : p \in BidPrices(bk)} \cup {0})

(* Every ask has been matched, at a price above that of the last seller,   *)
(* and more sellers want the same price: the code then keeps the buyer's   *)
(* price and calls the sellers marginal, though some of them ask for less. *)
AsksExhausted(bk, c) ==
  c.type = "seller" /\ bk.asks.total = c.quantity /\ Supply(bk, c.price - 1) >= c.quantity

(* A price below the negative of the cap is not cut off when it is bid, but *)
(* when the market has cleared; a changed bid may be one of nothing.       *)
NoneBelow(bk) == \A p \in BidPrices(bk) : p >= -Cap
NoneEmpty(bk) ==
  \A bid \in ToSet(bk.asks.bids) \cup ToSet(bk.offers.bids) : bid.quantity > 0

Serves(bk, c) ==
  c.type \in {"buyer", "seller", "exact"} /\ ~AsksExhausted(bk, c) /\ NoneBelow(bk) =>
    /\ mode.special # "sellers" => /\ Demand(bk, c.price + 1) <= c.quantity
                                   /\ c.quantity <= Demand(bk, c.price)
    /\ mode.special # "buyers" => /\ Supply(bk, c.price - 1) <= c.quantity
                                  /\ c.quantity <= Supply(bk, c.price)
    /\ c.type # "exact" => /\ NoneEmpty(bk) => 0 < c.marginal.quantity
                           /\ c.marginal.quantity <= c.marginal.total

TriggersNoOther(bk, c) ==
  c.type = "price" => Demand(bk, c.price) <= c.quantity /\ Supply(bk, c.price) <= c.quantity

(* Prices that differ do so by more than the offset, and halfway between   *)
(* two of them, where the market may clear, is no other.                   *)
PricesApart(bk) ==
  \A p, q \in BidPrices(bk) :
    p < q => p + Offset < q /\ (p + q) \div 2 \notin BidPrices(bk)

(* All that was bought is for loads that do not respond, all that was sold *)
(* from sources that do not.                                               *)
OnlyLoads(bk, c) == Demand(bk, Cap) = c.quantity
OnlySources(bk, c) == Supply(bk, -Cap) = c.quantity

(* There is a next bid to stay away from, and it is not at the price of    *)
(* the last bid of the other side.                                         *)
AskPrices(bk) == {bid.price : bid \in ToSet(bk.asks.bids)}
OfferPrices(bk) == {bid.price : bid \in ToSet(bk.offers.bids)}
NextAskApart(bk, c) ==
  /\ \E p \in AskPrices(bk) : p < Cap
  /\ \A p \in AskPrices(bk) \cap OfferPrices(bk) : Supply(bk, p) # c.quantity
NextOfferApart(bk, c) ==
  /\ \E p \in OfferPrices(bk) : p > -Cap
  /\ \A p \in AskPrices(bk) \cap OfferPrices(bk) : Demand(bk, p) # c.quantity

Responsive(bk, c) ==
  /\ Offset > 0 /\ PricesApart(bk) /\ NoneBelow(bk)
  /\ ~(OnlyLoads(bk, c) /\ OnlySources(bk, c))
  /\ OnlyLoads(bk, c) => NextAskApart(bk, c)
  /\ OnlySources(bk, c) => NextOfferApart(bk, c)
  => TriggersNoOther(bk, c)

(* A double auction clears the largest quantity that any price would let   *)
(* change hands.                                                           *)
MostTraded == [][EachClearing(Most)]_vars

(* The price goes with the quantity, unless all asks are matched and the   *)
(* sellers are marginal, or a bid is below the negative of the cap: whoever *)
(* bids better than the price is served in full and nobody who bids worse  *)
(* is needed, and when a side is marginal the bids at the price get a part *)
(* of what they asked for, not nothing.                                    *)
PriceServes == [][EachClearing(Serves)]_vars

(* The price of a market that splits triggers no bid that was not matched,  *)
(* with bids at the cap and its negative, which stand for loads and sources *)
(* that do not respond, or without.  Where it may trigger one: when loads   *)
(* and sources that do not respond are matched with nobody else the price   *)
(* is zero; with one such side and no further bid of it, or one at the last *)
(* price of the other side, the code has no room to choose; prices closer   *)
(* than the offset leave none either; and it does not look for a bid at the *)
(* middle price itself.                                                     *)
ResponsivePrice == [][EachClearing(Responsive)]_vars

(* The result in force is the one for the present period.                  *)
CurrentOnTime ==
  Latency % Period = 0 /\ current.market > 0 =>
    current.start <= clock /\ clock <= current.start + Period

(* Results come into force one after the other, none lost and none twice,  *)
(* and the next one that is announced is the next that comes into force.   *)
MarketsInOrder == [][/\ current'.market \in {current.market, current.market + 1}
                     /\ next'.market \in {0, current'.market + 1}]_vars

Recent(n, k) == IF n - k < 1 THEN InitPrice ELSE log[n - k]

(* A mean is taken of the prices of the last markets that count, the       *)
(* initial price standing for those before the first, wherever they are in *)
(* the ring.                                                               *)
MeansRight ==
  \A f \in {current, next} \cup {ring[i] : i \in DOMAIN ring} : f.market > 0 =>
    \A s \in Stats :
      f.stats[s] = SumOf([k \in 1 .. s.need |->
                            Recent(f.market, s.need - k + IF s.past THEN 1 ELSE 0)], s.need)

=============================================================================
