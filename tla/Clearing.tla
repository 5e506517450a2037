------------------------------ MODULE Clearing ------------------------------
(***************************************************************************)
(* The price and quantity at which auction::clear_market (market/          *)
(* auction.cpp) clears sorted lists of asks A and offers O.  Prices are in *)
(* units of bid_offset; averages round down.  A price that the code reads  *)
(* behind the end of a list is whatever was left there: stale.             *)
(***************************************************************************)
EXTENDS BidCurve

CONSTANTS Cap,    \* pricecap
          Offset  \* bid_offset: a price that much off triggers no other bid

ASSUME PriceAssumption == Cap \in Nat \ {0} /\ Offset \in Nat

Price(bids, k, stale) == IF k \in DOMAIN bids THEN bids[k].price ELSE stale

\* mutant: equal prices do not match
EndsAtEqual(A, O, m) ==
  m.i > Len(A) \/ m.j > Len(O) \/ A[m.i].price <= O[m.j].price

MatchEnds(A, O, m) == m.i > Len(A) \/ m.j > Len(O) \/ A[m.i].price < O[m.j].price

(* One round of the double auction: the smaller of the two quantities that *)
(* have been matched advances to the next bid of its side.                 *)
MatchStep(A, O, m) ==
  IF MatchEnds(A, O, m) THEN m
  ELSE LET buy == A[m.i]
           sell == O[m.j]
           d == m.demand + buy.quantity
           s == m.supply + sell.quantity
       IN CASE d > s -> [m EXCEPT !.supply = s, !.quantity = s, !.j = @ + 1, !.check = FALSE,
                           !.a = buy.price, !.b = buy.price, !.type = "buyer"]
            [] d < s -> [m EXCEPT !.demand = d, !.quantity = d, !.i = @ + 1, !.check = FALSE,
                           !.a = sell.price, !.b = sell.price, !.type = "seller"]
            [] d = s -> [m EXCEPT !.demand = d, !.supply = d, !.quantity = d, !.check = TRUE,
                           !.i = @ + 1, !.j = @ + 1, !.a = buy.price, !.b = sell.price]

Start == [i |-> 1, j |-> 1, demand |-> 0, supply |-> 0, quantity |-> 0,
          a |-> Cap, b |-> -Cap, check |-> FALSE, type |-> "null"]

(* There is no round without one more bid of one side. *)
Match(A, O) ==
  LET run[n \in 0 .. Len(A) + Len(O)] == IF n = 0 THEN Start ELSE MatchStep(A, O, run[n - 1])
  IN run[Len(A) + Len(O)]

\* mutant: bids at any price share the rest
LeftAny(bids, k, price) == k \in DOMAIN bids

LeftAt(bids, k, price) == k \in DOMAIN bids /\ bids[k].price = price

(* The two sides met at equal quantities: which of them goes on at the     *)
(* price it had, and so is the marginal one?                               *)
SplitType(A, O, m) ==
  LET buyersLeft == LeftAt(A, m.i, m.a)
      sellersLeft == LeftAt(O, m.j, m.b)
  IN CASE sellersLeft /\ ~buyersLeft -> "seller"
       [] buyersLeft /\ ~sellersLeft -> "buyer"
       [] buyersLeft /\ sellersLeft -> m.type
       [] OTHER -> IF m.a = m.b THEN "exact" ELSE "price"

\* mutant: the price is that of the next bid
AtNext(next, last) == IF next > last THEN next ELSE last

(* One side is at the cap or its negative: the price is just off the next  *)
(* bid of that side, or the last one of the other side.                    *)
JustAbove(next, last) == IF next > last THEN next + Offset ELSE last
JustBelow(next, last) == IF next < last THEN next - Offset ELSE last

(* A price between the last buyer's and the last seller's. *)
SplitPrice(A, O, m, stale) ==
  LET noBuyer == m.i > Len(A)
      noSeller == m.j > Len(O)
      buy == Price(A, m.i, stale)
      sell == Price(O, m.j, stale)
      high == IF noBuyer THEN m.a ELSE buy
      low == IF noSeller THEN m.b ELSE sell
      avg == (m.a + m.b) \div 2
  IN CASE m.a = Cap /\ m.b # -Cap -> JustAbove(buy, m.b)
       [] m.a # Cap /\ m.b = -Cap -> JustBelow(sell, m.a)
       [] m.a = Cap /\ m.b = -Cap ->
            (CASE noBuyer /\ noSeller -> 0
               [] noBuyer /\ ~noSeller -> buy + Offset
               [] ~noBuyer /\ m.j = Len(A) + 1 -> sell - Offset
               [] OTHER -> (high + low) \div 2)
       [] OTHER ->
            (CASE ~noBuyer /\ buy = m.a -> m.a
               [] ~noSeller /\ sell = m.b -> m.b
               [] ~noBuyer /\ buy # m.a /\ avg < buy -> high + Offset
               [] ~noSeller /\ sell # m.b /\ (noBuyer \/ avg >= buy) /\ avg > sell -> low - Offset
               [] OTHER -> avg)

(* The price and type of what was matched before failures are considered. *)
Matched(A, O, m, stale) ==
  LET type == IF m.check THEN SplitType(A, O, m) ELSE m.type
  IN [type |-> type, quantity |-> m.quantity,
      price |-> CASE type = "price" /\ m.check -> SplitPrice(A, O, m, stale)
                  [] type = "seller" /\ m.check /\ m.i <= Len(A) -> m.b
                  [] OTHER -> IF m.check \/ m.a = m.b THEN m.a ELSE 0]

Unresponsive(bids, price) == Quantity(bids, LAMBDA bid : bid.price = price)

(* Both sides have bids. *)
DoubleAuction(A, O, stale) ==
  LET m == Match(A, O)
      q == m.quantity
      buy == Unresponsive(A, Cap)
      sell == Unresponsive(O, -Cap)
      nothing == CASE O[1].price = Cap -> A[1].price + Offset
                   [] O[1].price # Cap /\ A[1].price = -Cap -> O[1].price - Offset
                   [] OTHER -> (O[1].price + A[1].price) \div 2
  IN CASE q = 0 -> [type |-> "null", quantity |-> 0, price |-> nothing]
       [] q # 0 /\ q < buy -> [type |-> "failure", quantity |-> q, price |-> Cap]
       [] q # 0 /\ q >= buy /\ q < sell -> [type |-> "failure", quantity |-> q, price |-> -Cap]
       [] q # 0 /\ q = buy /\ q = sell -> [type |-> "price", quantity |-> q, price |-> 0]
       [] OTHER -> Matched(A, O, m, stale)

(* One side has no bids. *)
NoAuction(A, O) ==
  [type |-> "null", quantity |-> 0,
   price |-> CASE A = <<>> /\ O # <<>> -> O[1].price - Offset
               [] A # <<>> /\ O = <<>> -> A[1].price + Offset
               [] OTHER -> 0]

(* Only one side is heard: a quantity is bought from it, or sold to it, at *)
(* the price of the last bid that is needed, or all that is to be had at a *)
(* price.  A price behind the list is one that no bid would meet.          *)
TakeQuantity(bids, wanted, type, behind) ==
  LET Upto(k) == Quantity(SubSeq(bids, 1, k), LAMBDA bid : TRUE)
      enough == {k \in DOMAIN bids : Upto(k) >= wanted}
      last == Min(enough)
  IN IF enough = {} THEN [type |-> "failure", quantity |-> 0, price |-> behind]
     ELSE [type |-> IF Upto(last) > wanted THEN type ELSE "exact",
           quantity |-> wanted, price |-> bids[last].price]

TakeAt(bids, price, Good(_)) ==
  LET q == Quantity(bids, Good)
  IN [type |-> IF q > 0 THEN "exact" ELSE "null", quantity |-> q, price |-> price]

(* What the marginal bids, those at the price, get together and asked for. *)
Marginal(A, O, result) ==
  LET bids == IF result.type = "buyer" THEN A ELSE O
      Better(bid) == IF result.type = "buyer" THEN bid.price > result.price
                                              ELSE bid.price < result.price
  IN IF result.type \notin {"buyer", "seller"} THEN [quantity |-> 0, total |-> 0]
     ELSE [quantity |-> result.quantity - Quantity(bids, Better),
           total |-> Quantity(bids, LAMBDA bid : bid.price = result.price)]
=============================================================================
