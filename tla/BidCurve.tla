------------------------------ MODULE BidCurve ------------------------------
(***************************************************************************)
(* One side of an auction (market/curve.cpp): the bids in the order they   *)
(* came in, and the running totals of their quantities, overall and of the *)
(* bidders that are on or off.  Bids are numbered from 1 here.             *)
(***************************************************************************)
EXTENDS Integers, FiniteSets, SequencesExt

EmptyCurve == [bids |-> <<>>, total |-> 0, on |-> 0, off |-> 0]

(* What a bid in the state st adds to the total of the state s. *)
Counted(bid, s) == IF bid.state = s THEN bid.quantity ELSE 0

CurveSubmit(c, bid) ==
  [bids |-> Append(c.bids, bid),
   total |-> c.total + bid.quantity,
   on |-> c.on + Counted(bid, "on"),
   off |-> c.off + Counted(bid, "off")]

\* mutant: the replaced bid stays in the totals
CurveReplace(c, k, bid) ==
  IF k \notin DOMAIN c.bids THEN c
  ELSE [bids |-> [c.bids EXCEPT ![k] = bid], total |-> c.total + bid.quantity,
        on |-> c.on + Counted(bid, "on"), off |-> c.off + Counted(bid, "off")]

CurveResubmit(c, k, bid) ==
  IF k \notin DOMAIN c.bids THEN c
  ELSE LET old == c.bids[k]
       IN [bids |-> [c.bids EXCEPT ![k] = bid],
           total |-> c.total - old.quantity + bid.quantity,
           on |-> c.on - Counted(old, "on") + Counted(bid, "on"),
           off |-> c.off - Counted(old, "off") + Counted(bid, "off")]

(* The bids in order, when the bids with a number in first[k] come before  *)
(* the bid k.                                                              *)
Sorted(bids, first) ==
  [i \in DOMAIN bids |-> bids[CHOOSE k \in DOMAIN bids : Cardinality(first[k]) = i - 1]]

(* The merge sorts: of offers with the same price the last comes first,    *)
(* of asks the first.                                                      *)
Rising(c) ==
  LET price(k) == c.bids[k].price
  IN Sorted(c.bids, [k \in DOMAIN c.bids |-> {l \in DOMAIN c.bids :
                       price(l) < price(k) \/ (price(l) = price(k) /\ l > k)}])

Falling(c) ==
  LET price(k) == c.bids[k].price
  IN Sorted(c.bids, [k \in DOMAIN c.bids |-> {l \in DOMAIN c.bids :
                       price(l) > price(k) \/ (price(l) = price(k) /\ l < k)}])

(* The sum of the first n values of f, in the form of the code's loops. *)
SumTo(f, n) ==
  LET upto[k \in 0 .. n] == IF k = 0 THEN 0 ELSE upto[k - 1] + f[k]
  IN upto[n]

(* The quantity of the bids that pass a test. *)
Quantity(bids, Test(_)) ==
  SumTo([k \in 1 .. Len(bids) |-> IF Test(bids[k]) THEN bids[k].quantity ELSE 0], Len(bids))
=============================================================================
