--------------------------- MODULE Auction_proofs ---------------------------
(***************************************************************************)
(* Proofs about the auction for any bidders, bids, modes, periods and      *)
(* latencies, and any number of markets: a key stands for the bid it was   *)
(* given for, the totals and the statistics are those of the bids and of   *)
(* the past, results come into force in order and in time, and as much is  *)
(* traded as can be, at a price that serves the bids that it should.       *)
(***************************************************************************)
EXTENDS Auction, FiniteSetTheorems, WellFoundedInduction, TLAPS

---------------------------------------------------------------------------
(* Sums.  Induction is over sets of numbers: that they are well-founded is *)
(* a theorem of the library, and needs no predicate as a parameter.        *)

\* A set of numbers has a least one.
LEMMA LeastNumber ==
  ASSUME NEW S \in SUBSET Nat, S # {}
  PROVE  \E m \in S : \A k \in S : m <= k
<1> DEFINE R == OpToRel(<, Nat)
<1>1. IsWellFoundedOn(R, Nat)
  BY NatLessThanWellFounded
<1>2. \A x, y \in Nat : <<x, y>> \in R <=> x < y
  BY DEF OpToRel
<1> HIDE DEF R
<1>3. PICK m \in S : \A k \in S : ~(<<k, m>> \in R)
  BY <1>1, WFMin
<1>4. ASSUME NEW k \in S PROVE m <= k
  <2>1. k \in Nat /\ m \in Nat /\ ~(k < m)
    BY <1>2, <1>3
  <2> QED BY <2>1
<1> QED BY <1>4

\* A set with 0 and with the next of each of its numbers has all of them.
LEMMA AllNumbers ==
  ASSUME NEW S, 0 \in S, \A n \in Nat : n \in S => n + 1 \in S
  PROVE  \A n \in Nat : n \in S
<1> DEFINE T == Nat \ S
<1>1. SUFFICES ASSUME T # {} PROVE FALSE
  OBVIOUS
<1>2. PICK m \in T : \A k \in T : m <= k
  BY <1>1, LeastNumber
<1>3. m - 1 \in Nat /\ m - 1 \notin T
  BY <1>2
<1> QED BY <1>2, <1>3

(* The function that SumTo runs along. *)
IsSum(f, n, s) == s = [k \in 0 .. n |-> IF k = 0 THEN 0 ELSE s[k - 1] + f[k]]

\* There is such a function for every number of values.
LEMMA SumExists ==
  ASSUME NEW f
  PROVE  \A n \in Nat : \E s : IsSum(f, n, s)
<1> DEFINE S == {n \in Nat : \E s : IsSum(f, n, s)}
<1>1. 0 \in S
  <2>1. IsSum(f, 0, [k \in 0 .. 0 |-> 0])
    BY DEF IsSum
  <2> QED BY <2>1
<1>2. ASSUME NEW n \in Nat, n \in S PROVE n + 1 \in S
  <2>1. PICK s : IsSum(f, n, s)
    BY <1>2
  <2> DEFINE t == [k \in 0 .. n + 1 |-> IF k = n + 1 THEN s[n] + f[k] ELSE s[k]]
  <2>2. ASSUME NEW k \in 0 .. n + 1 PROVE t[k] = IF k = 0 THEN 0 ELSE t[k - 1] + f[k]
    BY <2>1 DEF IsSum
  <2>3. IsSum(f, n + 1, t)
    BY <2>2 DEF IsSum
  <2> QED BY <2>3
<1> HIDE DEF S
<1>3. \A n \in Nat : n \in S
  BY <1>1, <1>2, AllNumbers
<1> QED BY <1>3 DEF S

\* Of two such functions the shorter is a part of the longer.
LEMMA SumUnique ==
  ASSUME NEW f, NEW n \in Nat, NEW m \in Nat, m <= n,
         NEW s, NEW t, IsSum(f, n, s), IsSum(f, m, t)
  PROVE  s[m] = t[m]
<1> DEFINE S == {k \in Nat : k <= m => s[k] = t[k]}
<1>1. 0 \in S
  BY DEF IsSum
<1>2. ASSUME NEW k \in Nat, k \in S PROVE k + 1 \in S
  <2> SUFFICES ASSUME k + 1 <= m PROVE s[k + 1] = t[k + 1]
    OBVIOUS
  <2>1. s[k] = t[k]
    BY <1>2
  <2>2. s[k + 1] = s[k] + f[k + 1]
    BY DEF IsSum
  <2>3. t[k + 1] = t[k] + f[k + 1]
    BY DEF IsSum
  <2> QED BY <2>1, <2>2, <2>3
<1> HIDE DEF S
<1>3. \A k \in Nat : k \in S
  BY <1>1, <1>2, AllNumbers
<1> QED BY <1>3 DEF S

\* A sum is that of one value less, and the last.
LEMMA SumFacts ==
  ASSUME NEW f
  PROVE  /\ SumTo(f, 0) = 0
         /\ \A n \in Nat : SumTo(f, n + 1) = SumTo(f, n) + f[n + 1]
<1>1. ASSUME NEW n \in Nat
      PROVE  \E s : IsSum(f, n, s) /\ SumTo(f, n) = s[n]
  <2>1. SumTo(f, n) = (CHOOSE s : IsSum(f, n, s))[n]
    BY DEF SumTo, IsSum
  <2>2. IsSum(f, n, CHOOSE s : IsSum(f, n, s))
    BY SumExists
  <2> QED BY <2>1, <2>2
<1>2. SumTo(f, 0) = 0
  <2>1. PICK s : IsSum(f, 0, s) /\ SumTo(f, 0) = s[0]
    BY <1>1
  <2> QED BY <2>1 DEF IsSum
<1>3. ASSUME NEW n \in Nat PROVE SumTo(f, n + 1) = SumTo(f, n) + f[n + 1]
  <2>1. PICK s : IsSum(f, n, s) /\ SumTo(f, n) = s[n]
    BY <1>1
  <2>2. PICK t : IsSum(f, n + 1, t) /\ SumTo(f, n + 1) = t[n + 1]
    BY <1>1
  <2>3. t[n] = s[n]
    BY <2>1, <2>2, SumUnique
  <2>4. t[n + 1] = t[n] + f[n + 1]
    BY <2>2 DEF IsSum
  <2> QED BY <2>1, <2>2, <2>3, <2>4
<1> QED BY <1>2, <1>3

\* Only the values that are added matter.
LEMMA SumSame ==
  ASSUME NEW f, NEW g, NEW n \in Nat, \A k \in 1 .. n : f[k] = g[k]
  PROVE  SumTo(f, n) = SumTo(g, n)
<1> DEFINE S == {m \in Nat : m <= n => SumTo(f, m) = SumTo(g, m)}
<1>1. 0 \in S
  BY SumFacts
<1>2. ASSUME NEW m \in Nat, m \in S PROVE m + 1 \in S
  BY <1>2, SumFacts
<1> HIDE DEF S
<1>3. \A m \in Nat : m \in S
  BY <1>1, <1>2, AllNumbers
<1> QED BY <1>3 DEF S

\* Sums stay among the integers, or the naturals.
LEMMA SumType ==
  ASSUME NEW f, NEW n \in Nat
  PROVE  /\ (\A k \in 1 .. n : f[k] \in Int) => SumTo(f, n) \in Int
         /\ (\A k \in 1 .. n : f[k] \in Nat) => SumTo(f, n) \in Nat
<1>1. ASSUME NEW T \in {Int, Nat}, \A k \in 1 .. n : f[k] \in T PROVE SumTo(f, n) \in T
  <2> DEFINE S == {m \in Nat : m <= n => SumTo(f, m) \in T}
  <2>1. 0 \in S
    BY SumFacts
  <2>2. ASSUME NEW m \in Nat, m \in S PROVE m + 1 \in S
    <3> SUFFICES ASSUME m + 1 <= n PROVE SumTo(f, m + 1) \in T
      OBVIOUS
    <3>1. SumTo(f, m) \in T /\ f[m + 1] \in T
      BY <1>1, <2>2
    <3>2. SumTo(f, m + 1) = SumTo(f, m) + f[m + 1]
      BY SumFacts
    <3>3. CASE T = Int
      BY <3>1, <3>2, <3>3
    <3>4. CASE T = Nat
      BY <3>1, <3>2, <3>4
    <3> QED BY <3>3, <3>4
  <2> HIDE DEF S
  <2>3. \A m \in Nat : m \in S
    BY <2>1, <2>2, AllNumbers
  <2> QED BY <2>3 DEF S
<1> QED BY <1>1

\* One value that changes.
LEMMA SumChange ==
  ASSUME NEW f, NEW g, NEW n \in Nat, NEW k \in 1 .. n,
         \A l \in 1 .. n : f[l] \in Int, g[k] \in Int,
         \A l \in 1 .. n : l # k => g[l] = f[l]
  PROVE  SumTo(g, n) = SumTo(f, n) - f[k] + g[k]
<1> DEFINE S == {m \in Nat : m <= n => SumTo(g, m) = IF m < k THEN SumTo(f, m)
                                                     ELSE SumTo(f, m) - f[k] + g[k]}
<1>1. 0 \in S
  BY SumFacts
<1>2. ASSUME NEW m \in Nat, m \in S PROVE m + 1 \in S
  <2> SUFFICES ASSUME m + 1 <= n
               PROVE  SumTo(g, m + 1) = IF m + 1 < k THEN SumTo(f, m + 1)
                                        ELSE SumTo(f, m + 1) - f[k] + g[k]
    OBVIOUS
  <2>1. SumTo(g, m) = IF m < k THEN SumTo(f, m) ELSE SumTo(f, m) - f[k] + g[k]
    BY <1>2
  <2>2. SumTo(f, m + 1) = SumTo(f, m) + f[m + 1] /\ SumTo(g, m + 1) = SumTo(g, m) + g[m + 1]
    BY SumFacts
  <2>3. SumTo(f, m) \in Int /\ f[m + 1] \in Int /\ f[k] \in Int
    BY SumType
  <2> QED BY <2>1, <2>2, <2>3
<1> HIDE DEF S
<1>3. \A m \in Nat : m \in S
  BY <1>1, <1>2, AllNumbers
<1>4. n \in S /\ ~(n < k)
  BY <1>3
<1> QED BY <1>4 DEF S

\* Larger values make a larger sum, and so do more values.
LEMMA SumLess ==
  ASSUME NEW f, NEW g, NEW n \in Nat,
         \A k \in 1 .. n : f[k] \in Int /\ g[k] \in Int /\ f[k] <= g[k]
  PROVE  SumTo(f, n) <= SumTo(g, n)
<1> DEFINE S == {m \in Nat : m <= n => SumTo(f, m) <= SumTo(g, m)}
<1>1. 0 \in S
  BY SumFacts
<1>2. ASSUME NEW m \in Nat, m \in S PROVE m + 1 \in S
  <2> SUFFICES ASSUME m + 1 <= n PROVE SumTo(f, m + 1) <= SumTo(g, m + 1)
    OBVIOUS
  <2>1. SumTo(f, m) <= SumTo(g, m)
    BY <1>2
  <2>2. SumTo(f, m + 1) = SumTo(f, m) + f[m + 1] /\ SumTo(g, m + 1) = SumTo(g, m) + g[m + 1]
    BY SumFacts
  <2>3. SumTo(f, m) \in Int /\ SumTo(g, m) \in Int
    BY SumType
  <2>4. f[m + 1] \in Int /\ g[m + 1] \in Int /\ f[m + 1] <= g[m + 1]
    OBVIOUS
  <2> QED BY <2>1, <2>2, <2>3, <2>4
<1> HIDE DEF S
<1>3. \A m \in Nat : m \in S
  BY <1>1, <1>2, AllNumbers
<1>4. n \in S
  BY <1>3
<1> QED BY <1>4 DEF S

\* Adding more values that are not negative makes no smaller sum.
LEMMA SumPrefix ==
  ASSUME NEW f, NEW n \in Nat, NEW m \in 0 .. n, \A k \in 1 .. n : f[k] \in Nat
  PROVE  SumTo(f, m) <= SumTo(f, n)
<1> DEFINE S == {k \in Nat : m <= k /\ k <= n => SumTo(f, m) <= SumTo(f, k)}
<1>1. \A k \in 0 .. n : SumTo(f, k) \in Nat
  BY SumType
<1>2. 0 \in S
  BY <1>1
<1>3. ASSUME NEW k \in Nat, k \in S PROVE k + 1 \in S
  <2> SUFFICES ASSUME m <= k + 1, k + 1 <= n PROVE SumTo(f, m) <= SumTo(f, k + 1)
    OBVIOUS
  <2>1. CASE m = k + 1
    BY <1>1, <2>1
  <2>2. CASE m <= k
    <3>1. SumTo(f, m) <= SumTo(f, k)
      BY <1>3, <2>2
    <3>2. SumTo(f, k + 1) = SumTo(f, k) + f[k + 1] /\ f[k + 1] \in Nat
      BY SumFacts
    <3>3. SumTo(f, m) \in Nat /\ SumTo(f, k) \in Nat
      BY <1>1
    <3> QED BY <3>1, <3>2, <3>3
  <2> QED BY <2>1, <2>2
<1> HIDE DEF S
<1>4. \A k \in Nat : k \in S
  BY <1>2, <1>3, AllNumbers
<1>5. n \in S
  BY <1>4
<1> QED BY <1>5 DEF S

(* The orders of the first n numbers. *)
Orders(n) == {o \in [1 .. n -> 1 .. n] : /\ \A k, l \in 1 .. n : o[k] = o[l] => k = l
                                         /\ \A l \in 1 .. n : \E k \in 1 .. n : o[k] = l}

\* The order in which values are added does not matter.
LEMMA SumOrder ==
  ASSUME NEW n \in Nat, NEW f, NEW o \in Orders(n), \A k \in 1 .. n : f[k] \in Int
  PROVE  SumTo([k \in 1 .. n |-> f[o[k]]], n) = SumTo(f, n)
<1> DEFINE S == {m \in Nat : m <= n => \A p \in Orders(m) :
                               SumTo([k \in 1 .. m |-> f[p[k]]], m) = SumTo(f, m)}
<1>1. 0 \in S
  BY SumFacts
<1>2. ASSUME NEW m \in Nat, m \in S PROVE m + 1 \in S
  <2> SUFFICES ASSUME m + 1 <= n, NEW p \in Orders(m + 1)
               PROVE  SumTo([k \in 1 .. m + 1 |-> f[p[k]]], m + 1) = SumTo(f, m + 1)
    OBVIOUS
  <2> DEFINE g == [k \in 1 .. m + 1 |-> f[p[k]]]
  <2>1. /\ p \in [1 .. m + 1 -> 1 .. m + 1] /\ m + 1 \in 1 .. m + 1
        /\ \A k, l \in 1 .. m + 1 : p[k] = p[l] => k = l
        /\ \A l \in 1 .. m + 1 : \E k \in 1 .. m + 1 : p[k] = l
    <3>1. m + 1 \in 1 .. m + 1
      OBVIOUS
    <3> QED BY <3>1, Zenon DEF Orders
  <2>2. PICK j \in 1 .. m + 1 : p[j] = m + 1
    BY <2>1
  \* The last number changes places with the one that is last.
  <2> DEFINE q == [k \in 1 .. m |-> IF k = j THEN p[m + 1] ELSE p[k]]
             h == [k \in 1 .. m |-> f[q[k]]]
  <2>3. \A k \in 1 .. m + 1 : p[k] \in 1 .. m + 1 /\ (k # j => p[k] \in 1 .. m)
    <3> TAKE k \in 1 .. m + 1
    <3>1. p[k] \in 1 .. m + 1
      BY <2>1
    <3>2. k # j => p[k] # m + 1
      BY <2>1, <2>2
    <3> QED BY <3>1, <3>2
  <2>4. q \in Orders(m)
    <3>1. ASSUME NEW k \in 1 .. m PROVE q[k] \in 1 .. m
      BY <2>2, <2>3
    <3>2. ASSUME NEW k \in 1 .. m, NEW l \in 1 .. m, q[k] = q[l] PROVE k = l
      <4> DEFINE At(i) == IF i = j THEN m + 1 ELSE i
      <4>1. q[k] = p[At(k)] /\ q[l] = p[At(l)] /\ At(k) \in 1 .. m + 1 /\ At(l) \in 1 .. m + 1
        OBVIOUS
      <4>2. At(k) = At(l)
        BY <2>1, <3>2, <4>1
      <4> QED BY <4>2
    <3>3. ASSUME NEW l \in 1 .. m PROVE \E k \in 1 .. m : q[k] = l
      <4>1. PICK k \in 1 .. m + 1 : p[k] = l
        BY <2>1
      <4>2. k # j
        BY <2>2, <4>1
      <4>3. CASE k = m + 1
        <5>1. j \in 1 .. m
          BY <4>2, <4>3
        <5> QED BY <4>1, <4>3, <5>1
      <4>4. CASE k \in 1 .. m
        BY <4>1, <4>2, <4>4
      <4> QED BY <4>3, <4>4
    <3> HIDE DEF q
    <3>4. q \in [1 .. m -> 1 .. m]
      <4>1. q = [k \in 1 .. m |-> q[k]]
        BY DEF q
      <4> QED BY <3>1, <4>1
    <3> QED BY <3>2, <3>3, <3>4 DEF Orders
  <2>5. SumTo(h, m) = SumTo(f, m)
    BY <1>2, <2>4
  <2>6. SumTo(g, m + 1) = SumTo(g, m) + g[m + 1] /\ SumTo(f, m + 1) = SumTo(f, m) + f[m + 1]
    BY SumFacts
  <2>7. \A k \in 1 .. m + 1 : g[k] \in Int /\ f[k] \in Int
    BY <2>3
  <2>8. CASE j = m + 1
    <3>1. \A k \in 1 .. m : g[k] = h[k]
      BY <2>8
    <3> HIDE DEF g, h
    <3>2. SumTo(g, m) = SumTo(h, m)
      BY <3>1, SumSame
    <3>3. g[m + 1] = f[m + 1]
      BY <2>1, <2>2, <2>8 DEF g
    <3> QED BY <2>5, <2>6, <3>2, <3>3 DEF g
  <2>9. CASE j # m + 1
    <3>1. j \in 1 .. m
      BY <2>9
    <3>2. /\ h[j] = g[m + 1] /\ g[j] = f[m + 1]
          /\ \A k \in 1 .. m : k # j => h[k] = g[k]
      <4>1. h[j] = f[p[m + 1]] /\ g[m + 1] = f[p[m + 1]]
        BY <2>1, <3>1
      <4>2. g[j] = f[m + 1]
        BY <2>2
      <4>3. \A k \in 1 .. m : k # j => h[k] = f[p[k]] /\ g[k] = f[p[k]]
        OBVIOUS
      <4> HIDE DEF g, h
      <4> QED BY <4>1, <4>2, <4>3
    <3> HIDE DEF g, h
    <3>3. SumTo(h, m) = SumTo(g, m) - g[j] + h[j]
      <4>1. /\ \A k \in 1 .. m : g[k] \in Int
            /\ h[j] \in Int
        BY <2>1, <2>7, <3>2
      <4> QED BY <3>1, <3>2, <4>1, SumChange
    <3>4. SumTo(g, m) \in Int /\ SumTo(f, m) \in Int /\ g[m + 1] \in Int /\ f[m + 1] \in Int
      <4>1. m \in Nat /\ (\A k \in 1 .. m : g[k] \in Int) /\ (\A k \in 1 .. m : f[k] \in Int)
        BY <2>7
      <4> QED BY <2>1, <2>7, <4>1, SumType
    <3>5. SumTo(g, m + 1) = SumTo(f, m + 1)
      BY <2>5, <2>6, <3>2, <3>3, <3>4
    <3> QED BY <3>5 DEF g
  <2> QED BY <2>8, <2>9
<1> HIDE DEF S
<1>3. \A m \in Nat : m \in S
  BY <1>1, <1>2, AllNumbers
<1>4. n \in S
  BY <1>3
<1> QED BY <1>4 DEF S
---------------------------------------------------------------------------
(* Keys *)

Side == {"asks", "offers"}
AnyPrice == {p \in Int : p <= Cap}
AnyBid == [from : Bidder \cup {None}, quantity : Nat, price : AnyPrice, state : States \cup {"on"}]
AnyCurve == [bids : Seq(AnyBid), total : Int, on : Int, off : Int]
AnyKey == [market : Int, side : Side, bid : Nat]

(* What a key stands for while its market is open, and that no key is for  *)
(* a market that has not opened yet.                                       *)
KeyInv ==
  /\ market \in Nat
  /\ book \in [asks : AnyCurve, offers : AnyCurve]
  /\ held \in [Bidder -> SUBSET AnyKey]
  /\ \A b \in Bidder : \A k \in held[b] : k.market <= market
  /\ KeysApart

\* What is put on a curve is a bid, from the bidder who made it.
LEMMA BidType ==
  ASSUME NEW b \in Bidder, NEW q \in Quantities, NEW p \in Prices, NEW st \in States
  PROVE  BidOf(b, q, p, st) \in AnyBid /\ BidOf(b, q, p, st).from = b
BY BidAssumption, PriceAssumption DEF BidOf, AnyBid, AnyPrice, Abs, Capped

\* A new bid goes to the end of the curve.
LEMMA SubmitCurve ==
  ASSUME NEW c \in AnyCurve, NEW bid \in AnyBid
  PROVE  /\ CurveSubmit(c, bid) \in AnyCurve
         /\ CurveSubmit(c, bid).bids = Append(c.bids, bid)
BY DEF CurveSubmit, AnyCurve, AnyBid, Counted

\* A changed bid takes the place of the old one and moves no other.
LEMMA ResubmitCurve ==
  ASSUME NEW c \in AnyCurve, NEW bid \in AnyBid, NEW k \in Nat
  PROVE  /\ CurveResubmit(c, k, bid) \in AnyCurve
         /\ DOMAIN CurveResubmit(c, k, bid).bids = DOMAIN c.bids
         /\ \A l \in DOMAIN c.bids :
              CurveResubmit(c, k, bid).bids[l] = IF l = k THEN bid ELSE c.bids[l]
<1>1. CASE k \notin DOMAIN c.bids
  BY <1>1 DEF CurveResubmit
<1>2. CASE k \in DOMAIN c.bids
  <2>1. c.bids[k] \in AnyBid /\ c.bids \in Seq(AnyBid)
    BY <1>2 DEF AnyCurve
  <2>2. [c.bids EXCEPT ![k] = bid] \in Seq(AnyBid)
    BY <1>2, <2>1
  <2>3. QED
    BY <1>2, <2>1, <2>2, SMTT(30) DEF CurveResubmit, AnyCurve, AnyBid, Counted
<1>3. QED
  BY <1>1, <1>2

\* No keys at the start.
LEMMA KeyInvInit == Init => KeyInv
BY DEF Init, KeyInv, KeysApart, EmptyBook, EmptyCurve, AnyCurve

\* A new bid is the one its new key stands for.
LEMMA SubmitNewKeepsKeys ==
  ASSUME KeyInv, NEW b \in Bidder, NEW q \in Quantities, NEW p \in Prices,
         NEW st \in States, SubmitNew(b, q, p, st)
  PROVE  KeyInv'
<1> DEFINE side == SideOf(q)
           bid == BidOf(b, q, p, st)
           other == IF side = "asks" THEN "offers" ELSE "asks"
<1>1. side \in Side /\ bid \in AnyBid /\ bid.from = b /\ market' = market
  BY BidType DEF SideOf, Side, SubmitNew
<1>2. /\ book'[side] = CurveSubmit(book[side], bid)
      /\ book'[other] = book[other]
      /\ book' \in [asks : AnyCurve, offers : AnyCurve]
  <2>1. q \in Int /\ q # 0 /\ ~Ignored(q)
    BY BidAssumption DEF SubmitNew
  <2>2. CurveSubmit(book[side], bid) \in AnyCurve
    BY <1>1, SubmitCurve DEF KeyInv, Side
  <2>3. CASE q < 0
    <3>1. book' = [book EXCEPT !.asks = CurveSubmit(book.asks, bid)] /\ side = "asks"
      BY <2>1, <2>3 DEF SubmitNew, NewBid, SideOf
    <3>2. QED
      BY <2>2, <3>1 DEF KeyInv
  <2>4. CASE q > 0
    <3>1. book' = [book EXCEPT !.offers = CurveSubmit(book.offers, bid)] /\ side = "offers"
      BY <2>1, <2>4 DEF SubmitNew, NewBid, SideOf
    <3>2. QED
      BY <2>2, <3>1 DEF KeyInv
  <2>5. QED
    BY <2>1, <2>3, <2>4
<1>3. /\ book'[side].bids = Append(book[side].bids, bid)
      /\ book[side].bids \in Seq(AnyBid)
  BY <1>1, <1>2, SubmitCurve DEF KeyInv, Side, AnyCurve
<1>4. /\ Len(book'[side].bids) \in DOMAIN book'[side].bids
      /\ book'[side].bids[Len(book'[side].bids)] = bid
      /\ \A l \in DOMAIN book[side].bids : /\ l \in DOMAIN book'[side].bids
                                           /\ book'[side].bids[l] = book[side].bids[l]
  BY <1>1, <1>3
<1> DEFINE key == [market |-> market, side |-> side, bid |-> Len(book'[side].bids)]
<1>5. key \in AnyKey /\ key.market <= market
  BY <1>1, <1>3 DEF AnyKey, KeyInv
<1>6. \A c \in Bidder : held'[c] \in {held[c], held[c] \cup (IF c = b THEN {key} ELSE {})}
  BY DEF SubmitNew, KeyInv
<1>7. held' \in [Bidder -> SUBSET AnyKey]
  BY <1>5 DEF SubmitNew, KeyInv
<1>8. \A c \in Bidder : \A k \in held'[c] : k.market <= market'
  BY <1>1, <1>5, <1>6 DEF KeyInv
<1>9. ASSUME NEW c \in Bidder, NEW k \in held'[c], k.market = market'
      PROVE  k.bid \in DOMAIN book'[k.side].bids /\ book'[k.side].bids[k.bid].from = c
  <2>1. CASE k \in held[c]
    <3>1. /\ k.side \in Side /\ k.bid \in DOMAIN book[k.side].bids
          /\ book[k.side].bids[k.bid].from = c
      BY <1>1, <1>9, <2>1 DEF KeyInv, KeysApart, AnyKey
    <3>2. CASE k.side = side
      BY <1>4, <3>1, <3>2
    <3>3. CASE k.side # side
      BY <1>1, <1>2, <3>1, <3>3 DEF Side
    <3>4. QED
      BY <3>2, <3>3
  <2>2. CASE k = key /\ c = b
    BY <1>1, <1>4, <2>2
  <2>3. QED
    BY <1>6, <1>9, <2>1, <2>2
<1>10. market' \in Nat
  BY <1>1 DEF KeyInv
<1>11. QED
  BY <1>2, <1>7, <1>8, <1>9, <1>10 DEF KeyInv, KeysApart

\* An old key changes the bid it stands for, or opens nothing.
LEMMA SubmitAgainKeepsKeys ==
  ASSUME KeyInv, NEW b \in Bidder, NEW q \in Quantities, NEW p \in Prices,
         NEW st \in States, NEW key \in held[b], SubmitAgain(b, q, p, st, key)
  PROVE  KeyInv'
<1>1. UNCHANGED <<market, held>>
  BY DEF SubmitAgain
<1>2. CASE key.market # market
  BY <1>1, <1>2 DEF SubmitAgain, KeyInv, KeysApart
<1>3. CASE key.market = market
  <2> DEFINE bid == BidOf(b, q, p, st)
  <2>1. bid \in AnyBid /\ bid.from = b
    BY BidType
  <2>2. key \in AnyKey /\ key.side \in Side /\ key.bid \in Nat
    BY DEF KeyInv, AnyKey
  <2>3. book' = [book EXCEPT ![key.side] = CurveResubmit(book[key.side], key.bid, bid)]
    BY <1>3 DEF SubmitAgain
  <2>4. book[key.side] \in AnyCurve
    BY <2>2 DEF KeyInv, Side
  <2>5. /\ CurveResubmit(book[key.side], key.bid, bid) \in AnyCurve
        /\ DOMAIN CurveResubmit(book[key.side], key.bid, bid).bids = DOMAIN book[key.side].bids
        /\ \A l \in DOMAIN book[key.side].bids :
             CurveResubmit(book[key.side], key.bid, bid).bids[l] =
               IF l = key.bid THEN bid ELSE book[key.side].bids[l]
    BY <2>1, <2>2, <2>4, ResubmitCurve
  <2>6. book' \in [asks : AnyCurve, offers : AnyCurve]
    BY <2>2, <2>3, <2>5 DEF KeyInv, Side
  <2>7. \A s \in Side : book'[s] = IF s = key.side
                          THEN CurveResubmit(book[key.side], key.bid, bid) ELSE book[s]
    BY <2>2, <2>3 DEF KeyInv, Side
  <2>8. ASSUME NEW c \in Bidder, NEW k \in held[c], k.market = market
        PROVE  k.bid \in DOMAIN book'[k.side].bids /\ book'[k.side].bids[k.bid].from = c
    <3>1. /\ k.side \in Side /\ k.bid \in DOMAIN book[k.side].bids
          /\ book[k.side].bids[k.bid].from = c
      BY <2>8 DEF KeyInv, KeysApart, AnyKey
    <3>2. CASE k.side # key.side
      BY <2>7, <3>1, <3>2
    <3>3. CASE k.side = key.side /\ k.bid # key.bid
      BY <2>5, <2>7, <3>1, <3>3
    <3>4. CASE k.side = key.side /\ k.bid = key.bid
      <4>1. book[key.side].bids[key.bid].from = b
        BY <1>3 DEF KeyInv, KeysApart
      <4>2. c = b
        BY <3>1, <3>4, <4>1
      <4>3. QED
        BY <2>1, <2>5, <2>7, <3>1, <3>4, <4>2
    <3>5. QED
      BY <3>2, <3>3, <3>4
  <2>9. QED
    BY <1>1, <2>6, <2>8 DEF KeyInv, KeysApart
<1>4. QED
  BY <1>2, <1>3

\* The keys of a market that has been cleared are for a market that is past.
LEMMA ClearKeepsKeys ==
  ASSUME KeyInv, ClearMarket
  PROVE  KeyInv'
<1>1. market' = market + 1 /\ book' = EmptyBook /\ held' = held
  BY DEF ClearMarket, NextMarket
<1>2. \A b \in Bidder : \A k \in held[b] : k.market \in Int /\ k.market <= market
  BY DEF KeyInv, AnyKey
<1>3. \A b \in Bidder : \A k \in held[b] : k.market <= market + 1 /\ k.market # market + 1
  BY <1>2 DEF KeyInv
<1>4. book' \in [asks : AnyCurve, offers : AnyCurve]
  BY <1>1 DEF EmptyBook, EmptyCurve, AnyCurve
<1>5. QED
  BY <1>1, <1>3, <1>4 DEF KeyInv, KeysApart

\* Every step keeps what the keys stand for.
LEMMA KeyInvStep ==
  ASSUME KeyInv, [Next]_vars
  PROVE  KeyInv'
<1>1. ASSUME NEW b \in Bidder, NEW q \in Quantities, NEW p \in Prices, NEW st \in States,
             \/ SubmitNew(b, q, p, st)
             \/ \E key \in held[b] : SubmitAgain(b, q, p, st, key)
      PROVE  KeyInv'
  BY <1>1, SubmitNewKeepsKeys, SubmitAgainKeepsKeys
<1>2. CASE ClearMarket
  BY <1>2, ClearKeepsKeys
<1>3. CASE UNCHANGED <<market, book, held>>
  BY <1>3 DEF KeyInv, KeysApart
<1>4. QED
  BY <1>1, <1>2, <1>3 DEF Next, FirstPresync, ClearThrows, Tick, vars

(* For any number of bidders, bids and markets: a key only ever gives      *)
(* access to the bid it was handed out for.                                *)
THEOREM KeysStayApart == Spec => []KeysApart
<1>1. KeyInv => KeysApart
  BY DEF KeyInv
<1>2. KeyInv /\ [Next]_vars => KeyInv'
  BY KeyInvStep
<1>3. QED
  BY <1>1, <1>2, KeyInvInit, PTL DEF Spec

---------------------------------------------------------------------------
(* Totals *)

(* What TotalsRight says of one side. *)
CurveTotals(c) ==
  /\ c.total = Quantity(c.bids, LAMBDA bid : TRUE)
  /\ c.on = Quantity(c.bids, LAMBDA bid : bid.state = "on")
  /\ c.off = Quantity(c.bids, LAMBDA bid : bid.state = "off")

\* What a new bid, and a bid that is replaced, do to the sum of some of them.
LEMMA SumAppend ==
  ASSUME NEW f, NEW g, NEW n \in Nat, \A k \in 1 .. n : f[k] = g[k]
  PROVE  SumTo(g, n + 1) = SumTo(f, n) + g[n + 1]
BY SumFacts, SumSame

\* The totals of no bids.
LEMMA TotalsEmpty == CurveTotals(EmptyCurve)
<1>1. EmptyCurve.bids = <<>> /\ Len(<<>>) = 0
  BY DEF EmptyCurve
<1> QED BY <1>1, SumFacts DEF EmptyCurve, CurveTotals, Quantity

\* A new bid is added to the totals of all bids and of those in its state.
LEMMA TotalsSubmit ==
  ASSUME NEW c \in AnyCurve, NEW bid \in AnyBid, CurveTotals(c)
  PROVE  CurveTotals(CurveSubmit(c, bid))
<1> DEFINE d == CurveSubmit(c, bid)
           n == Len(c.bids)
<1>1. c.bids \in Seq(AnyBid) /\ n \in Nat
  BY DEF AnyCurve
<1>2. /\ d.bids = Append(c.bids, bid) /\ d.total = c.total + bid.quantity
      /\ d.on = c.on + Counted(bid, "on") /\ d.off = c.off + Counted(bid, "off")
  BY DEF CurveSubmit
<1> HIDE DEF d
<1>3. /\ Len(d.bids) = n + 1 /\ d.bids[n + 1] = bid /\ n + 1 \in 1 .. n + 1
      /\ \A k \in 1 .. n : d.bids[k] = c.bids[k] /\ k \in 1 .. n + 1
  BY <1>1, <1>2
<1> HIDE DEF n
<1>4. d.total = Quantity(d.bids, LAMBDA b : TRUE)
  <2> DEFINE f == [k \in 1 .. n |-> IF TRUE THEN c.bids[k].quantity ELSE 0]
             g == [k \in 1 .. n + 1 |-> IF TRUE THEN d.bids[k].quantity ELSE 0]
  <2>1. (\A k \in 1 .. n : f[k] = g[k]) /\ g[n + 1] = bid.quantity
    BY <1>3
  <2>2. Quantity(c.bids, LAMBDA b : TRUE) = SumTo(f, n)
    BY DEF Quantity, n
  <2>3. Quantity(d.bids, LAMBDA b : TRUE) = SumTo(g, n + 1)
    BY <1>3 DEF Quantity
  <2> HIDE DEF f, g
  <2>4. SumTo(g, n + 1) = SumTo(f, n) + g[n + 1]
    BY <1>1, <2>1, SumAppend
  <2> QED BY <1>2, <2>1, <2>2, <2>3, <2>4 DEF CurveTotals
<1>5. d.on = Quantity(d.bids, LAMBDA b : b.state = "on")
  <2> DEFINE f == [k \in 1 .. n |-> IF c.bids[k].state = "on" THEN c.bids[k].quantity ELSE 0]
             g == [k \in 1 .. n + 1 |-> IF d.bids[k].state = "on" THEN d.bids[k].quantity ELSE 0]
  <2>1. (\A k \in 1 .. n : f[k] = g[k]) /\ g[n + 1] = Counted(bid, "on")
    BY <1>3 DEF Counted
  <2>2. Quantity(c.bids, LAMBDA b : b.state = "on") = SumTo(f, n)
    BY DEF Quantity, n
  <2>3. Quantity(d.bids, LAMBDA b : b.state = "on") = SumTo(g, n + 1)
    BY <1>3 DEF Quantity
  <2> HIDE DEF f, g
  <2>4. SumTo(g, n + 1) = SumTo(f, n) + g[n + 1]
    BY <1>1, <2>1, SumAppend
  <2> QED BY <1>2, <2>1, <2>2, <2>3, <2>4 DEF CurveTotals
<1>6. d.off = Quantity(d.bids, LAMBDA b : b.state = "off")
  <2> DEFINE f == [k \in 1 .. n |-> IF c.bids[k].state = "off" THEN c.bids[k].quantity ELSE 0]
             g == [k \in 1 .. n + 1 |-> IF d.bids[k].state = "off" THEN d.bids[k].quantity ELSE 0]
  <2>1. (\A k \in 1 .. n : f[k] = g[k]) /\ g[n + 1] = Counted(bid, "off")
    BY <1>3 DEF Counted
  <2>2. Quantity(c.bids, LAMBDA b : b.state = "off") = SumTo(f, n)
    BY DEF Quantity, n
  <2>3. Quantity(d.bids, LAMBDA b : b.state = "off") = SumTo(g, n + 1)
    BY <1>3 DEF Quantity
  <2> HIDE DEF f, g
  <2>4. SumTo(g, n + 1) = SumTo(f, n) + g[n + 1]
    BY <1>1, <2>1, SumAppend
  <2> QED BY <1>2, <2>1, <2>2, <2>3, <2>4 DEF CurveTotals
<1> QED BY <1>4, <1>5, <1>6 DEF CurveTotals, d

\* A changed bid is added in place of the old one, whatever states they have.
LEMMA TotalsResubmit ==
  ASSUME NEW c \in AnyCurve, NEW bid \in AnyBid, NEW j \in Nat, CurveTotals(c)
  PROVE  CurveTotals(CurveResubmit(c, j, bid))
<1>1. CASE j \notin DOMAIN c.bids
  BY <1>1 DEF CurveResubmit
<1>2. CASE j \in DOMAIN c.bids
  <2> DEFINE d == CurveResubmit(c, j, bid)
             n == Len(c.bids)
             old == c.bids[j]
  <2>1. c.bids \in Seq(AnyBid) /\ n \in Nat /\ j \in 1 .. n /\ \A k \in 1 .. n : c.bids[k] \in AnyBid
    BY <1>2 DEF AnyCurve
  <2>2. /\ d.bids = [c.bids EXCEPT ![j] = bid]
        /\ d.total = c.total - old.quantity + bid.quantity
        /\ d.on = c.on - Counted(old, "on") + Counted(bid, "on")
        /\ d.off = c.off - Counted(old, "off") + Counted(bid, "off")
    BY <1>2 DEF CurveResubmit
  <2> HIDE DEF d
  <2>3. /\ Len(d.bids) = n /\ d.bids[j] = bid
        /\ \A k \in 1 .. n : k # j => d.bids[k] = c.bids[k]
    BY <2>1, <2>2
  <2> HIDE DEF n
  <2>4. /\ \A k \in 1 .. n : c.bids[k].quantity \in Int
        /\ bid.quantity \in Int
    BY <2>1 DEF AnyBid
  <2>5. d.total = Quantity(d.bids, LAMBDA b : TRUE)
    <3> DEFINE f == [k \in 1 .. n |-> IF TRUE THEN c.bids[k].quantity ELSE 0]
               g == [k \in 1 .. n |-> IF TRUE THEN d.bids[k].quantity ELSE 0]
    <3>1. /\ \A k \in 1 .. n : f[k] \in Int
          /\ \A k \in 1 .. n : k # j => g[k] = f[k]
          /\ f[j] = old.quantity /\ g[j] = bid.quantity
      BY <2>1, <2>3, <2>4
    <3>2. Quantity(c.bids, LAMBDA b : TRUE) = SumTo(f, n)
      BY DEF Quantity, n
    <3>3. Quantity(d.bids, LAMBDA b : TRUE) = SumTo(g, n)
      BY <2>3 DEF Quantity
    <3> HIDE DEF f, g
    <3>4. SumTo(g, n) = SumTo(f, n) - f[j] + g[j]
      BY <2>1, <2>4, <3>1, SumChange
    <3> QED BY <2>2, <3>1, <3>2, <3>3, <3>4 DEF CurveTotals
  <2>6. d.on = Quantity(d.bids, LAMBDA b : b.state = "on")
    <3> DEFINE f == [k \in 1 .. n |-> IF c.bids[k].state = "on" THEN c.bids[k].quantity ELSE 0]
               g == [k \in 1 .. n |-> IF d.bids[k].state = "on" THEN d.bids[k].quantity ELSE 0]
    <3>1. /\ \A k \in 1 .. n : f[k] \in Int
          /\ \A k \in 1 .. n : k # j => g[k] = f[k]
          /\ f[j] = Counted(old, "on") /\ g[j] = Counted(bid, "on") /\ g[j] \in Int
      BY <2>1, <2>3, <2>4 DEF Counted
    <3>2. Quantity(c.bids, LAMBDA b : b.state = "on") = SumTo(f, n)
      BY DEF Quantity, n
    <3>3. Quantity(d.bids, LAMBDA b : b.state = "on") = SumTo(g, n)
      BY <2>3 DEF Quantity
    <3> HIDE DEF f, g
    <3>4. SumTo(g, n) = SumTo(f, n) - f[j] + g[j]
      BY <2>1, <3>1, SumChange
    <3> QED BY <2>2, <3>1, <3>2, <3>3, <3>4 DEF CurveTotals
  <2>7. d.off = Quantity(d.bids, LAMBDA b : b.state = "off")
    <3> DEFINE f == [k \in 1 .. n |-> IF c.bids[k].state = "off" THEN c.bids[k].quantity ELSE 0]
               g == [k \in 1 .. n |-> IF d.bids[k].state = "off" THEN d.bids[k].quantity ELSE 0]
    <3>1. /\ \A k \in 1 .. n : f[k] \in Int
          /\ \A k \in 1 .. n : k # j => g[k] = f[k]
          /\ f[j] = Counted(old, "off") /\ g[j] = Counted(bid, "off") /\ g[j] \in Int
      BY <2>1, <2>3, <2>4 DEF Counted
    <3>2. Quantity(c.bids, LAMBDA b : b.state = "off") = SumTo(f, n)
      BY DEF Quantity, n
    <3>3. Quantity(d.bids, LAMBDA b : b.state = "off") = SumTo(g, n)
      BY <2>3 DEF Quantity
    <3> HIDE DEF f, g
    <3>4. SumTo(g, n) = SumTo(f, n) - f[j] + g[j]
      BY <2>1, <3>1, SumChange
    <3> QED BY <2>2, <3>1, <3>2, <3>3, <3>4 DEF CurveTotals
  <2> QED BY <2>5, <2>6, <2>7 DEF CurveTotals, d
<1> QED BY <1>1, <1>2

TotalsInv == \A side \in Side : CurveTotals(book[side])

\* Every step keeps the totals.
LEMMA TotalsStep ==
  ASSUME KeyInv, TotalsInv, [Next]_vars
  PROVE  TotalsInv'
<1>1. ASSUME NEW b \in Bidder, NEW q \in Quantities, NEW p \in Prices, NEW st \in States,
             SubmitNew(b, q, p, st)
      PROVE  TotalsInv'
  <2> DEFINE bid == BidOf(b, q, p, st)
  <2>1. q \in Int /\ q # 0 /\ ~Ignored(q) /\ bid \in AnyBid
    BY <1>1, BidAssumption, BidType DEF SubmitNew
  <2>2. PICK side \in Side : book' = [book EXCEPT ![side] = CurveSubmit(book[side], bid)]
    <3>1. CASE q < 0
      <4>1. book' = [book EXCEPT !.asks = CurveSubmit(book.asks, bid)]
        BY <1>1, <2>1, <3>1 DEF SubmitNew, NewBid
      <4> QED BY <4>1 DEF Side
    <3>2. CASE q > 0
      BY <1>1, <2>1, <3>2 DEF SubmitNew, NewBid, Side
    <3> QED BY <2>1, <3>1, <3>2
  <2>3. CurveTotals(CurveSubmit(book[side], bid))
    BY <2>1, TotalsSubmit DEF KeyInv, TotalsInv, Side
  <2> QED BY <2>2, <2>3 DEF KeyInv, TotalsInv, Side
<1>2. ASSUME NEW b \in Bidder, NEW q \in Quantities, NEW p \in Prices, NEW st \in States,
             NEW key \in held[b], SubmitAgain(b, q, p, st, key)
      PROVE  TotalsInv'
  <2> DEFINE bid == BidOf(b, q, p, st)
  <2>1. bid \in AnyBid /\ key.side \in Side /\ key.bid \in Nat
    BY BidType DEF KeyInv, AnyKey
  <2>2. CASE key.market # market
    BY <1>2, <2>2 DEF SubmitAgain, TotalsInv
  <2>3. CASE key.market = market
    <3>1. book' = [book EXCEPT ![key.side] = CurveResubmit(book[key.side], key.bid, bid)]
      BY <1>2, <2>3 DEF SubmitAgain
    <3>2. CurveTotals(CurveResubmit(book[key.side], key.bid, bid))
      BY <2>1, TotalsResubmit DEF KeyInv, TotalsInv, Side
    <3> QED BY <2>1, <3>1, <3>2 DEF KeyInv, TotalsInv, Side
  <2> QED BY <2>2, <2>3
<1>3. CASE ClearMarket
  BY <1>3, TotalsEmpty DEF ClearMarket, EmptyBook, TotalsInv, Side
<1>4. CASE UNCHANGED book
  BY <1>4 DEF TotalsInv
<1> QED BY <1>1, <1>2, <1>3, <1>4 DEF Next, FirstPresync, ClearThrows, Tick, vars

\* However often bids are submitted and changed, the running totals are the
\* sums of the bids that are there, in whatever states they are.
THEOREM TotalsAdd == Spec => []TotalsRight
<1>1. Init => TotalsInv
  BY TotalsEmpty DEF Init, EmptyBook, TotalsInv, Side
<1>2. TotalsInv => TotalsRight
  BY DEF TotalsInv, CurveTotals, TotalsRight, Side
<1>3. KeyInv /\ TotalsInv /\ [Next]_vars => KeyInv' /\ TotalsInv'
  BY KeyInvStep, TotalsStep
<1> QED BY <1>1, <1>2, <1>3, KeyInvInit, PTL DEF Spec

---------------------------------------------------------------------------
(* The ring of results that are not in force yet *)

(* How many markets clear before the result of one is in force.            *)
Delay == (Latency + Period - 1) \div Period

(* The results that wait, and where they stand in the ring.                *)
Pending == market - 1 - current.market
Slot(j) == (front + j) % RingSize

(* Markets are cleared at multiples of the period.                         *)
ClockKept ==
  /\ market \in Nat \ {0} /\ clock \in Nat /\ clearat \in Nat
  /\ clearat = 0 => market = 1
  /\ clearat # 0 => clock <= clearat /\ \E q \in Nat : clearat = Period * q

(* The ring holds the results after the current one in the order of their  *)
(* markets, one for each period of the delay at most.                      *)
RingKept ==
  /\ current.market \in Nat /\ Pending \in 0 .. Delay
  /\ DOMAIN ring = 0 .. RingSize - 1 /\ front \in 0 .. RingSize - 1
  /\ back = Slot(Pending)
  /\ \A j \in 0 .. Pending - 1 :
       /\ ring[Slot(j)].market = current.market + 1 + j
       /\ ring[Slot(j)].start = clearat + Latency - (Pending - j) * Period

(* Once a result is in force there is a new one at every clearing.         *)
CurrentKept ==
  /\ current.market > 0 => /\ Pending = Delay /\ clearat # 0 /\ clearat - Period <= clock
                           /\ Latency % Period = 0 => current.start = clearat - Period
  /\ next.market \in {0, current.market + 1}
  /\ Latency = 0 => next.market = 0

FrameInv == ClockKept /\ RingKept /\ CurrentKept

\* What a quotient and a remainder are.
LEMMA DivFacts ==
  ASSUME NEW a \in Nat, NEW b \in Nat \ {0}
  PROVE  /\ a \div b \in Nat /\ a % b \in 0 .. b - 1
         /\ a = b * (a \div b) + (a % b)
<1>1. a = (b * (a \div b)) + (a % b) /\ 0 <= a % b /\ a % b < b
  BY Z3
<1> QED BY <1>1, Z3

\* A multiple leaves no remainder.
LEMMA MultipleMod ==
  ASSUME NEW p \in Nat \ {0}, NEW q \in Nat
  PROVE  p * q \in Nat /\ (p * q) % p = 0
<1> DEFINE a == p * q
           d == a \div p
           r == a % p
<1>1. a \in Nat
  BY Z3
<1>2. d \in Nat /\ r \in 0 .. p - 1 /\ a = p * d + r
  BY <1>1, DivFacts
<1>3. a = p * q
  OBVIOUS
<1> HIDE DEF a, d, r
<1>4. ASSUME d < q PROVE FALSE
  <2>1. p * (d + 1) <= p * q /\ p * (d + 1) = p * d + p
    BY <1>2, <1>4, Z3
  <2> QED BY <1>1, <1>2, <1>3, <2>1, Z3
<1>5. ASSUME d > q PROVE FALSE
  <2>1. p * (q + 1) <= p * d /\ p * (q + 1) = p * q + p
    BY <1>2, <1>5, Z3
  <2> QED BY <1>1, <1>2, <1>3, <2>1, Z3
<1>6. d = q
  BY <1>2, <1>4, <1>5
<1>7. r = 0
  BY <1>1, <1>2, <1>3, <1>6, Z3
<1> QED BY <1>1, <1>7 DEF a, r

\* A position in the ring wraps once.
LEMMA Wrap ==
  ASSUME NEW R \in Nat \ {0}, NEW s \in 0 .. 2 * R - 1
  PROVE  s % R = IF s < R THEN s ELSE s - R
<1> DEFINE d == s \div R
           r == s % R
<1>1. d \in Nat /\ r \in 0 .. R - 1 /\ s = R * d + r
  <2>1. s \in Nat
    OBVIOUS
  <2> QED BY <2>1, DivFacts
<1> HIDE DEF d, r
<1>2. CASE d = 0
  BY <1>1, <1>2, Z3 DEF r
<1>3. CASE d = 1
  BY <1>1, <1>3, Z3 DEF r
<1>4. CASE d >= 2
  <2>1. R * d >= R * 2
    BY <1>1, <1>4, Z3
  <2> QED BY <1>1, <2>1, Z3
<1> QED BY <1>1, <1>2, <1>3, <1>4

\* The delay is the latency in periods, rounded up, and fits in the ring.
LEMMA DelayFacts ==
  /\ Period \in Nat \ {0} /\ Latency \in Nat
  /\ Delay \in Nat /\ Latency <= Delay * Period /\ Delay * Period < Latency + Period
  /\ Latency = 0 <=> Delay = 0
  /\ RingSize \in Nat \ {0} /\ Delay < RingSize
  /\ Latency % Period = 0 => Latency = Delay * Period
<1>1. Period \in Nat \ {0} /\ Latency \in Nat
  BY TimeAssumption
<1> DEFINE D == Delay
           q == Latency \div Period
           r == Latency % Period
<1>2. D \in Nat /\ Latency <= Period * D /\ Period * D < Latency + Period
  <2>1. Latency + Period - 1 \in Nat
    BY <1>1
  <2>2. D = (Latency + Period - 1) \div Period
    BY DEF Delay
  <2>3. \E m \in 0 .. Period - 1 : D \in Nat /\ Latency + Period - 1 = Period * D + m
    BY <1>1, <2>1, <2>2, DivFacts
  <2> HIDE DEF D
  <2>4. D \in Nat /\ Period * D \in Nat
    BY <1>1, <2>3, Z3
  <2> QED BY <1>1, <2>3, <2>4
<1>3. q \in Nat /\ r \in 0 .. Period - 1 /\ Latency = Period * q + r
  BY <1>1, DivFacts
<1>4. RingSize = q + 2
  BY DEF RingSize
<1>5. D * Period = Period * D
  <2> HIDE DEF D
  <2> QED BY <1>1, <1>2, Z3
<1>6. D <= q + 1 /\ (r = 0 => D = q) /\ (Latency = 0 <=> D = 0)
  <2> HIDE DEF D, q, r
  <2>1. Period * D < Period * (q + 2)
    BY <1>1, <1>2, <1>3, Z3
  <2>2. D < q + 2
    BY <1>1, <1>2, <1>3, <2>1, Z3
  <2>3. ASSUME r = 0 PROVE D = q
    <3>1. Period * q <= Period * D /\ Period * D < Period * (q + 1)
      BY <1>1, <1>2, <1>3, <2>3, Z3
    <3>2. q <= D /\ D < q + 1
      BY <1>1, <1>2, <1>3, <3>1, Z3
    <3> QED BY <1>2, <1>3, <3>2
  <2>4. CASE Latency = 0
    <3>1. Period * D < Period * 1
      BY <1>1, <1>2, <2>4, Z3
    <3>2. D < 1
      BY <1>1, <1>2, <3>1, Z3
    <3> QED BY <1>2, <1>3, <2>2, <2>3, <2>4, <3>2
  <2>5. CASE Latency # 0
    <3>1. D # 0
      BY <1>1, <1>2, <2>5, Z3
    <3> QED BY <1>2, <1>3, <2>2, <2>3, <2>5, <3>1
  <2> QED BY <2>4, <2>5
<1>7. r = 0 => Latency = Period * D
  <2> HIDE DEF D, q, r
  <2> QED BY <1>1, <1>2, <1>3, <1>6, Z3
<1> HIDE DEF q, r
<1> QED BY <1>1, <1>2, <1>3, <1>4, <1>5, <1>6, <1>7 DEF r

\* Where the slots of the ring are.
LEMMA SlotFacts ==
  ASSUME NEW f \in 0 .. RingSize - 1, NEW j \in 0 .. RingSize
  PROVE  (f + j) % RingSize = IF f + j < RingSize THEN f + j ELSE f + j - RingSize
<1>1. RingSize \in Nat \ {0} /\ f + j \in 0 .. 2 * RingSize - 1
  BY DelayFacts
<1>2. \A s \in 0 .. 2 * RingSize - 1 : s % RingSize = IF s < RingSize THEN s ELSE s - RingSize
  BY <1>1, Wrap
<1> QED BY <1>1, <1>2

\* What one result out and one result in do to the places of the ring.
Moved(f, e, m, g) ==
  /\ g \in 0 .. RingSize - 1 /\ (g + 0) % RingSize = g
  /\ \A j \in 0 .. m : /\ (g + j) % RingSize = (f + (j + e)) % RingSize
                       /\ (g + j) % RingSize \in 0 .. RingSize - 1
  /\ (((g + m) % RingSize) + 1) % RingSize = (g + (m + 1)) % RingSize
  /\ (g + (m + 1)) % RingSize # g
  /\ \A j \in 0 .. m - 1 : (g + j) % RingSize # (g + m) % RingSize

\* Where the results of the ring are after some have been taken from it.
LEMMA RingFacts ==
  ASSUME NEW e \in 0 .. 1, NEW m \in Nat, m + 2 <= RingSize, NEW f \in 0 .. RingSize - 1
  PROVE  Moved(f, e, m, (f + e) % RingSize)
<1> DEFINE g == (f + e) % RingSize
<1>1. RingSize \in Nat \ {0}
  BY DelayFacts
<1>2. ASSUME NEW h \in 0 .. RingSize - 1, NEW j \in 0 .. RingSize
      PROVE  /\ (h + j) % RingSize = IF h + j < RingSize THEN h + j ELSE h + j - RingSize
             /\ (h + j) % RingSize \in 0 .. RingSize - 1
  <2>1. (h + j) % RingSize = IF h + j < RingSize THEN h + j ELSE h + j - RingSize
    BY SlotFacts
  <2> QED BY <1>1, <2>1
<1>3. e \in 0 .. RingSize /\ 0 \in 0 .. RingSize /\ 1 \in 0 .. RingSize
  BY <1>1
<1>4. g = (IF f + e < RingSize THEN f + e ELSE f + e - RingSize) /\ g \in 0 .. RingSize - 1
  BY <1>2, <1>3
<1> DEFINE At(j) == (g + j) % RingSize
<1>5. ASSUME NEW j \in 0 .. m + 1
      PROVE  At(j) = (IF g + j < RingSize THEN g + j ELSE g + j - RingSize) /\ At(j) \in 0 .. RingSize - 1
  <2>1. j \in 0 .. RingSize
    BY <1>1
  <2> QED BY <1>2, <1>4, <2>1
<1>6. ASSUME NEW j \in 0 .. m PROVE At(j) = (f + (j + e)) % RingSize /\ At(j) \in 0 .. RingSize - 1
  <2>1. j + e \in 0 .. RingSize /\ j \in 0 .. m + 1
    BY <1>1
  <2>2. (f + (j + e)) % RingSize
           = IF f + (j + e) < RingSize THEN f + (j + e) ELSE f + (j + e) - RingSize
    BY <1>2, <2>1
  <2> DEFINE there == (f + (j + e)) % RingSize
  <2>3. there = IF f + (j + e) < RingSize THEN f + (j + e) ELSE f + (j + e) - RingSize
    BY <2>2
  <2>4. At(j) = (IF g + j < RingSize THEN g + j ELSE g + j - RingSize) /\ At(j) \in 0 .. RingSize - 1
    BY <1>5, <2>1
  <2> HIDE DEF At, there
  <2>5. At(j) = there
    BY <1>1, <1>4, <2>3, <2>4
  <2> QED BY <2>4, <2>5 DEF there
<1>7. m \in 0 .. m + 1 /\ m + 1 \in 0 .. m + 1
  OBVIOUS
<1>8. /\ At(m) = (IF g + m < RingSize THEN g + m ELSE g + m - RingSize) /\ At(m) \in 0 .. RingSize - 1
      /\ At(m + 1) = (IF g + (m + 1) < RingSize THEN g + (m + 1) ELSE g + (m + 1) - RingSize)
  BY <1>5, <1>7
<1>9. (At(m) + 1) % RingSize = IF At(m) + 1 < RingSize THEN At(m) + 1 ELSE At(m) + 1 - RingSize
  BY <1>2, <1>3, <1>8
<1> DEFINE after == (At(m) + 1) % RingSize
<1>10. after = IF At(m) + 1 < RingSize THEN At(m) + 1 ELSE At(m) + 1 - RingSize
  BY <1>9
<1>11. ASSUME NEW j \in 0 .. m - 1 PROVE At(j) # At(m)
  <2>1. j \in 0 .. m + 1
    OBVIOUS
  <2>2. At(j) = IF g + j < RingSize THEN g + j ELSE g + j - RingSize
    BY <1>5, <2>1
  <2> HIDE DEF At
  <2> QED BY <1>1, <1>4, <1>8, <2>2
<1>12. At(0) = g
  <2>1. 0 \in 0 .. m + 1
    OBVIOUS
  <2>2. At(0) = IF g + 0 < RingSize THEN g + 0 ELSE g + 0 - RingSize
    BY <1>5, <2>1
  <2> HIDE DEF At
  <2> QED BY <1>1, <1>4, <2>2
<1>13. after = At(m + 1) /\ At(m + 1) # g
  <2> HIDE DEF At, after
  <2> QED BY <1>1, <1>4, <1>8, <1>10
<1> HIDE DEF g
<1>14. Moved(f, e, m, g)
  BY <1>4, <1>6, <1>11, <1>12, <1>13 DEF Moved
<1> QED BY <1>14 DEF g

\* An empty ring.
LEMMA FrameInit == Init => FrameInv
<1> SUFFICES ASSUME Init PROVE FrameInv
  OBVIOUS
<1>1. Period \in Nat \ {0} /\ Latency \in Nat /\ Delay \in Nat /\ RingSize \in Nat \ {0}
  BY DelayFacts
<1>2. /\ clock \in 1 .. Period /\ clearat = 0 /\ market = 1 /\ front = 0 /\ back = 0
      /\ ring = [i \in 0 .. RingSize - 1 |-> NoFrame]
      /\ current = [NoFrame EXCEPT !.price = InitPrice]
      /\ next = IF Latency > 0 THEN current ELSE NoFrame
  BY DEF Init
<1>3. current.market = 0 /\ next.market = 0
  BY <1>2 DEF NoFrame
<1>4. Pending = 0
  BY <1>2, <1>3 DEF Pending
<1>5. Slot(0) = 0
  BY <1>1, <1>2, SlotFacts DEF Slot
<1> QED BY <1>1, <1>2, <1>3, <1>4, <1>5 DEF FrameInv, ClockKept, RingKept, CurrentKept

\* A step that leaves the frames alone.
LEMMA FrameQuiet ==
  ASSUME FrameInv, UNCHANGED <<market, ring, front, back, current, next>>,
         ClockKept', clearat' = clearat, clock' >= clock
  PROVE  FrameInv'
<1>1. Pending' = Pending /\ \A j : Slot(j)' = Slot(j)
  BY DEF Pending, Slot
<1>2. RingKept'
  BY <1>1 DEF FrameInv, RingKept
<1>3. CurrentKept'
  <2>1. clearat \in Nat /\ clock \in Nat /\ clock' \in Nat /\ Period \in Nat
    BY TimeAssumption DEF FrameInv, ClockKept
  <2> QED BY <1>1, <2>1 DEF FrameInv, CurrentKept
<1> QED BY <1>2, <1>3 DEF FrameInv

\* The first presync sets the time of the first clearing.
LEMMA FrameFirst == ASSUME FrameInv, FirstPresync PROVE FrameInv'
<1>1. /\ clearat = 0 /\ clearat' = NextClear /\ market = 1 /\ clock \in Nat
      /\ UNCHANGED <<clock, market, ring, front, back, current, next>>
  BY DEF FirstPresync, frameVars, FrameInv, ClockKept
<1>2. Period \in Nat \ {0} /\ Delay \in Nat
  BY DelayFacts
<1>3. \E q \in Nat : clearat' = Period * q /\ clearat' > clock
  <2> DEFINE d == clock \div Period
             r == clock % Period
  <2>1. d \in Nat /\ r \in 0 .. Period - 1 /\ clock = Period * d + r
    BY <1>1, <1>2, DivFacts
  <2>2. clearat' = clock + (Period - r)
    BY <1>1 DEF NextClear
  <2> HIDE DEF d, r
  <2>3. clearat' = Period * (d + 1) /\ clearat' > clock
    BY <1>1, <1>2, <2>1, <2>2, Z3
  <2> QED BY <2>1, <2>3
<1>4. ClockKept'
  BY <1>1, <1>2, <1>3, MultipleMod DEF FrameInv, ClockKept
<1>5. current.market = 0 /\ Pending = 0 /\ Pending' = 0
  BY <1>1 DEF FrameInv, RingKept, Pending
<1>6. RingKept'
  <2>1. \A j : Slot(j)' = Slot(j)
    BY <1>1 DEF Slot
  <2> QED BY <1>1, <1>2, <1>5, <2>1 DEF FrameInv, RingKept
<1>7. CurrentKept'
  BY <1>1, <1>5 DEF FrameInv, CurrentKept
<1> QED BY <1>4, <1>6, <1>7 DEF FrameInv

\* What clearing a market does to the clocks and to the frame it makes.
LEMMA ClearFacts ==
  ASSUME FrameInv, ClearMarket
  PROVE  /\ clock = clearat /\ clock' = clock /\ clearat' = clearat + Period /\ market' = market + 1
         /\ ClockKept'
         /\ cleared'.market = market /\ cleared'.start = clearat + Latency
         /\ IF Latency > 0 THEN Deliver(cleared') ELSE DeliverNow(cleared')
<1>1. /\ clearat # 0 /\ clock >= clearat /\ clock' = clock /\ clearat' = NextClear
      /\ market' = market + 1
      /\ IF Latency > 0 THEN Deliver(cleared') ELSE DeliverNow(cleared')
  BY DEF ClearMarket, NextMarket
<1>2. cleared'.market = market /\ cleared'.start = clock + Latency
  BY DEF ClearMarket
<1>3. /\ clock = clearat /\ clock \in Nat /\ market \in Nat
      /\ \E q \in Nat : clearat = Period * q
  BY <1>1 DEF FrameInv, ClockKept
<1>4. PICK q \in Nat : clearat = Period * q
  BY <1>3
<1>5. Period \in Nat \ {0}
  BY DelayFacts
<1>6. clearat % Period = 0
  BY <1>4, <1>5, MultipleMod
<1>7. clearat' = clearat + Period
  BY <1>1, <1>3, <1>5, <1>6 DEF NextClear
<1>8. clearat' = Period * (q + 1)
  BY <1>4, <1>5, <1>7, Z3
<1>9. ClockKept'
  BY <1>1, <1>3, <1>5, <1>7, <1>8 DEF ClockKept
<1> QED BY <1>1, <1>2, <1>3, <1>7, <1>9

\* Without latency the result is in force at once.
LEMMA FrameNow == ASSUME FrameInv, ClearMarket, Latency = 0 PROVE FrameInv'
<1>1. /\ clock = clearat /\ clock' = clock /\ clearat' = clearat + Period /\ market' = market + 1
      /\ ClockKept' /\ cleared'.market = market /\ cleared'.start = clearat + Latency
      /\ DeliverNow(cleared')
  BY ClearFacts
<1>2. current' = cleared' /\ UNCHANGED <<ring, front, back, next>>
  BY <1>1 DEF DeliverNow
<1>3. Delay = 0 /\ Period \in Nat \ {0} /\ market \in Nat /\ clearat \in Nat
  BY DelayFacts DEF FrameInv, ClockKept
<1>4. current'.market = market /\ Pending' = 0 /\ Pending = 0
  <2>1. Pending' = market' - 1 - current'.market
    BY DEF Pending
  <2> QED BY <1>1, <1>2, <1>3, <2>1 DEF FrameInv, RingKept
<1>5. \A j : Slot(j)' = Slot(j)
  BY <1>2 DEF Slot
<1>6. RingKept'
  BY <1>2, <1>3, <1>4, <1>5 DEF FrameInv, RingKept
<1>7. CurrentKept'
  <2>1. next'.market = 0
    BY <1>2 DEF FrameInv, CurrentKept
  <2> QED BY <1>1, <1>2, <1>3, <1>4, <2>1 DEF CurrentKept
<1> QED BY <1>1, <1>6, <1>7 DEF FrameInv

\* What is pending is due when it is all that the delay allows.
LEMMA DueFacts ==
  ASSUME FrameInv, Latency > 0, clock = clearat
  PROVE  /\ Due <=> Pending = Delay
         /\ Due => ring[front].market = current.market + 1
                   /\ ring[front].start = clearat + Latency - Delay * Period
<1> DEFINE n == Pending
<1>1. /\ Period \in Nat \ {0} /\ Latency \in Nat /\ Delay \in Nat \ {0} /\ Delay < RingSize
      /\ Latency <= Delay * Period /\ Delay * Period < Latency + Period /\ RingSize \in Nat \ {0}
  BY DelayFacts
<1>2. /\ n \in 0 .. Delay /\ front \in 0 .. RingSize - 1 /\ back = (front + n) % RingSize
      /\ clock \in Nat /\ current.market \in Nat
  BY DEF FrameInv, ClockKept, RingKept, Slot
<1>3. back = IF front + n < RingSize THEN front + n ELSE front + n - RingSize
  <2> HIDE DEF n
  <2> QED BY <1>1, <1>2, SlotFacts
<1>4. front # back <=> n # 0
  <2> HIDE DEF n
  <2> QED BY <1>1, <1>2, <1>3
<1>5. n > 0 => /\ ring[front].market = current.market + 1
               /\ ring[front].start = clearat + Latency - n * Period
  <2> SUFFICES ASSUME n > 0
               PROVE  /\ ring[front].market = current.market + 1
                      /\ ring[front].start = clearat + Latency - n * Period
    OBVIOUS
  <2>1. Slot(0) = front
    <3>1. 0 \in 0 .. RingSize
      BY <1>1
    <3>2. (front + 0) % RingSize = IF front + 0 < RingSize THEN front + 0 ELSE front + 0 - RingSize
      BY <1>2, <3>1, SlotFacts
    <3>3. front + 0 = front /\ front < RingSize
      BY <1>1, <1>2
    <3> QED BY <3>2, <3>3 DEF Slot
  <2>2. 0 \in 0 .. n - 1
    BY <1>2, <1>1
  <2>3. /\ ring[Slot(0)].market = current.market + 1 + 0
        /\ ring[Slot(0)].start = clearat + Latency - (n - 0) * Period
    BY <2>2 DEF FrameInv, RingKept
  <2>4. n - 0 = n /\ current.market + 1 + 0 = current.market + 1
    BY <1>1, <1>2
  <2> QED BY <2>1, <2>3, <2>4
<1>6. n * Period >= Latency <=> n = Delay
  <2> HIDE DEF n
  <2>1. CASE n = Delay
    BY <1>1, <2>1
  <2>2. CASE n < Delay
    <3>1. (n + 1) * Period <= Delay * Period /\ (n + 1) * Period = n * Period + Period
      BY <1>1, <1>2, <2>2, Z3
    <3>2. n * Period \in Nat
      BY <1>1, <1>2, Z3
    <3> QED BY <1>1, <1>2, <2>2, <3>1, <3>2
  <2> QED BY <1>1, <1>2, <2>1, <2>2
<1>7. n * Period \in Nat
  <2> HIDE DEF n
  <2> QED BY <1>1, <1>2, Z3
<1> HIDE DEF n
<1>8. Due <=> n > 0 /\ n * Period >= Latency
  <2>1. n > 0 => (clock >= ring[front].start <=> n * Period >= Latency)
    BY <1>1, <1>2, <1>5, <1>7
  <2> QED BY <1>1, <1>2, <1>4, <2>1 DEF Due
<1>9. Due <=> n = Delay
  BY <1>1, <1>2, <1>6, <1>8
<1> QED BY <1>1, <1>2, <1>5, <1>9 DEF n

\* A clearing takes the result that is due out of the ring and puts the new
\* one in; there is always room for it.
LEMMA FrameLater == ASSUME FrameInv, ClearMarket, Latency > 0 PROVE FrameInv'
<1> DEFINE first == IF Due THEN (front + 1) % RingSize ELSE front
           due == IF Due THEN 1 ELSE 0
           m == Pending - due
           full == (back + 1) % RingSize = first
           ahead == ring'[first]
           isNext == ahead.start > clock /\ ahead.start <= clock + Period
<1>1. /\ clock = clearat /\ clock' = clock /\ clearat' = clearat + Period /\ market' = market + 1
      /\ ClockKept' /\ cleared'.market = market /\ cleared'.start = clearat + Latency
      /\ Deliver(cleared')
  BY ClearFacts
<1>2. /\ Period \in Nat \ {0} /\ Latency \in Nat /\ Delay \in Nat \ {0} /\ Delay < RingSize
      /\ Latency <= Delay * Period /\ Delay * Period < Latency + Period /\ RingSize \in Nat \ {0}
  BY DelayFacts
<1>3. /\ Due <=> Pending = Delay
      /\ Due => ring[front].market = current.market + 1
                /\ ring[front].start = clearat + Latency - Delay * Period
  BY <1>1, DueFacts
<1>4. /\ Pending \in 0 .. Delay /\ Pending = market - 1 - current.market
      /\ front \in 0 .. RingSize - 1 /\ back = (front + Pending) % RingSize
      /\ market \in Nat /\ clearat \in Nat /\ current.market \in Nat
      /\ DOMAIN ring = 0 .. RingSize - 1
  BY DEF FrameInv, ClockKept, RingKept, Slot, Pending
<1>5. m \in 0 .. Delay - 1 /\ due \in 0 .. 1 /\ Pending = m + due /\ (Due => m = Delay - 1)
  <2> DEFINE n == Pending
             d == Delay
  <2>1. n \in 0 .. d /\ d \in Nat \ {0} /\ (Due <=> n = d)
    BY <1>2, <1>3, <1>4
  <2>2. CASE Due
    <3>1. due = 1 /\ m = n - 1 /\ n = d
      BY <2>1, <2>2
    <3> HIDE DEF m, due, n, d
    <3>2. m \in 0 .. d - 1 /\ due \in 0 .. 1 /\ n = m + due /\ m = d - 1
      BY <2>1, <3>1
    <3> QED BY <3>2 DEF n, d
  <2>3. CASE ~Due
    <3>1. due = 0 /\ m = n - 0 /\ n # d
      BY <2>1, <2>3
    <3> HIDE DEF m, due, n, d
    <3>2. m \in 0 .. d - 1 /\ due \in 0 .. 1 /\ n = m + due
      BY <2>1, <3>1
    <3> QED BY <2>3, <3>2 DEF n, d
  <2> QED BY <2>2, <2>3
<1>6. first = (front + due) % RingSize
  <2>1. front + 0 = front /\ front % RingSize = front
    <3>1. 0 \in 0 .. RingSize
      BY <1>2
    <3>2. (front + 0) % RingSize = IF front + 0 < RingSize THEN front + 0 ELSE front + 0 - RingSize
      BY <1>4, <3>1, SlotFacts
    <3>3. front + 0 = front /\ front < RingSize
      BY <1>2, <1>4
    <3> QED BY <3>2, <3>3
  <2> QED BY <2>1
<1> DEFINE At(j) == (first + j) % RingSize
<1>7. /\ first \in 0 .. RingSize - 1 /\ At(0) = first
      /\ \A j \in 0 .. m : /\ At(j) = (front + (j + due)) % RingSize
                           /\ At(j) \in 0 .. RingSize - 1
      /\ (At(m) + 1) % RingSize = At(m + 1) /\ At(m + 1) # first
      /\ \A j \in 0 .. m - 1 : At(j) # At(m)
  <2> HIDE DEF first, m, due
  <2>1. m \in Nat /\ m + 2 <= RingSize
    BY <1>2, <1>5
  <2>2. front \in 0 .. RingSize - 1 /\ due \in 0 .. 1
    BY <1>4, <1>5
  <2>3. Moved(front, due, m, (front + due) % RingSize)
    BY <2>1, <2>2, RingFacts, Zenon
  <2> QED BY <1>6, <2>3 DEF Moved
<1>8. back = At(m)
  <2> HIDE DEF first, m, due, At
  <2>1. m \in 0 .. m
    BY <1>5
  <2> QED BY <1>4, <1>5, <1>7, <2>1
<1>9. /\ back \in 0 .. RingSize - 1 /\ (back + 1) % RingSize = At(m + 1) /\ ~full
      /\ \A j \in 0 .. m - 1 : At(j) # back
  <2>1. m \in 0 .. m
    BY <1>5
  <2> HIDE DEF first, m, due, At
  <2> QED BY <1>7, <1>8, <2>1
<1>10. /\ front' = first /\ current' = (IF Due THEN ring[front] ELSE current)
       /\ ring' = [ring EXCEPT ![back] = cleared'] /\ back' = (back + 1) % RingSize
       /\ next' = IF isNext THEN ahead ELSE next
  BY <1>1, <1>9 DEF Deliver
<1> DEFINE now == current.market
           then == current'.market
<1>11. then = now + due /\ now \in Nat /\ due \in 0 .. 1
  BY <1>3, <1>4, <1>5, <1>10, SMTT(30)
<1>12. Pending' = m + 1
  <2>1. Pending' = market' - 1 - then
    BY DEF Pending
  <2>2. market' = market + 1 /\ market \in Nat /\ market - 1 - now = m + due /\ m \in Int
    BY <1>1, <1>2, <1>4, <1>5
  <2> HIDE DEF m, due, now, then
  <2> QED BY <1>11, <2>1, <2>2
<1>13. \A j : Slot(j)' = At(j)
  BY <1>10 DEF Slot
<1>14. ASSUME NEW j \in 0 .. m
       PROVE  /\ ring'[At(j)].market = current'.market + 1 + j
              /\ ring'[At(j)].start = clearat' + Latency - ((m + 1) - j) * Period
  <2>1. CASE j = m
    <3>1. ring'[At(j)] = cleared'
      BY <1>4, <1>8, <1>9, <1>10, <2>1
    <3> HIDE DEF m, due
    <3>2. (m + 1) - j = 1 /\ market = then + 1 + j
      <4>1. market - 1 - now = m + due /\ market \in Nat /\ m \in Int
        BY <1>2, <1>4, <1>5
      <4> HIDE DEF m, due, now, then
      <4> QED BY <1>11, <2>1, <4>1
    <3>3. ((m + 1) - j) * Period = Period
      BY <1>2, <3>2
    <3>4. clearat + Latency = clearat' + Latency - Period
      BY <1>1, <1>2, <1>4
    <3> QED BY <1>1, <3>1, <3>2, <3>3, <3>4
  <2>2. CASE j # m
    <3>1. At(j) # back /\ At(j) = Slot(j + due)
      BY <1>5, <1>7, <1>9, <2>2 DEF Slot
    <3>2. ring'[At(j)] = ring[At(j)]
      <4>1. At(j) \in 0 .. RingSize - 1
        BY <1>7
      <4> HIDE DEF At
      <4> QED BY <1>4, <1>10, <3>1, <4>1
    <3> HIDE DEF m, due, At, first
    <3>3. j + due \in 0 .. Pending - 1
      BY <1>4, <1>5, <2>2
    <3>4. /\ ring[Slot(j + due)].market = current.market + 1 + (j + due)
          /\ ring[Slot(j + due)].start = clearat + Latency - (Pending - (j + due)) * Period
      BY <3>3 DEF FrameInv, RingKept
    <3>5. Pending - (j + due) = m - j
      BY <1>2, <1>5
    <3>6. ((m + 1) - j) * Period = (m - j) * Period + Period /\ (m - j) * Period \in Int
      BY <1>2, <1>5, Z3
    <3>7. current.market + 1 + (j + due) = current'.market + 1 + j
      <4>1. j \in Int
        BY <1>2, <1>5
      <4>2. now + 1 + (j + due) = then + 1 + j
        <5> HIDE DEF m, due, now, then
        <5> QED BY <1>11, <4>1
      <4> QED BY <4>2
    <3> DEFINE x == (m - j) * Period
               y == ((m + 1) - j) * Period
    <3>8. clearat + Latency - x = clearat' + Latency - y
      <4>1. x \in Int /\ y = x + Period
        BY <3>6
      <4> HIDE DEF x, y
      <4> QED BY <1>1, <1>2, <1>4, <4>1
    <3> QED BY <3>1, <3>2, <3>4, <3>5, <3>7, <3>8
  <2> QED BY <2>1, <2>2
<1>15. RingKept'
  <2>1. current'.market \in Nat /\ Pending' \in 0 .. Delay
    <3>1. Pending' \in 0 .. Delay
      BY <1>2, <1>5, <1>12
    <3>2. then \in Nat
      <4> HIDE DEF due, now, then
      <4> QED BY <1>11
    <3> QED BY <3>1, <3>2
  <2>2. DOMAIN ring' = 0 .. RingSize - 1 /\ front' \in 0 .. RingSize - 1 /\ back' = Slot(Pending)'
    <3>1. DOMAIN ring' = 0 .. RingSize - 1 /\ front' \in 0 .. RingSize - 1
      BY <1>4, <1>7, <1>10
    <3>2. back' = At(m + 1) /\ front' = first
      BY <1>9, <1>10
    <3> HIDE DEF first, m, due
    <3> QED BY <1>12, <3>1, <3>2 DEF Slot
  <2>3. \A j \in 0 .. Pending' - 1 :
          /\ ring'[Slot(j)'].market = current'.market + 1 + j
          /\ ring'[Slot(j)'].start = clearat' + Latency - (Pending' - j) * Period
    BY <1>5, <1>12, <1>13, <1>14
  <2> HIDE DEF m, due, first, At
  <2> QED BY <2>1, <2>2, <2>3 DEF RingKept
<1>16. /\ ahead.market = current'.market + 1
       /\ ahead.start = clearat' + Latency - (m + 1) * Period
  <2>1. At(0) = first
    BY <1>7
  <2>2. /\ ring'[At(0)].market = current'.market + 1 + 0
        /\ ring'[At(0)].start = clearat' + Latency - ((m + 1) - 0) * Period
    BY <1>5, <1>14
  <2>3. current'.market \in Nat
    BY <1>15 DEF RingKept
  <2> HIDE DEF m, due, first, At
  <2>4. (m + 1) - 0 = m + 1
    BY <1>5
  <2> QED BY <2>1, <2>2, <2>3, <2>4
<1>17. Due => isNext
  <2> SUFFICES ASSUME Due PROVE isNext
    OBVIOUS
  <2>1. m + 1 = Delay
    BY <1>2, <1>5
  <2> HIDE DEF m, first
  <2> DEFINE total == Delay * Period
  <2>2. total \in Nat /\ Latency <= total /\ total < Latency + Period
    BY <1>2, Z3
  <2>3. ahead.start = clearat' + Latency - total
    BY <1>16, <2>1
  <2> HIDE DEF total, ahead
  <2> QED BY <1>1, <1>2, <1>4, <2>2, <2>3
<1>18. CurrentKept'
  <2>1. next'.market \in {0, current'.market + 1}
    <3>1. CASE isNext
      BY <1>10, <1>16, <3>1
    <3>2. CASE ~isNext
      BY <1>10, <1>17, <3>2 DEF FrameInv, CurrentKept
    <3> QED BY <3>1, <3>2
  <2>2. CASE Due
    <3>1. Pending' = Delay /\ clearat' # 0 /\ clearat' - Period <= clock'
      BY <1>1, <1>2, <1>4, <1>5, <1>12, <2>2
    <3>2. ASSUME Latency % Period = 0 PROVE current'.start = clearat' - Period
      <4>1. current'.start = clearat + Latency - Delay * Period
        BY <1>3, <1>10, <2>2
      <4>2. Latency = Delay * Period
        BY <3>2, DelayFacts
      <4> QED BY <1>1, <1>2, <1>4, <4>1, <4>2
    <3> QED BY <2>1, <3>1, <3>2 DEF CurrentKept
  <2>3. CASE ~Due
    <3>1. ~(current.market > 0)
      BY <1>3, <2>3 DEF FrameInv, CurrentKept
    <3> QED BY <1>10, <2>1, <2>3, <3>1 DEF CurrentKept
  <2> QED BY <2>2, <2>3
<1> QED BY <1>1, <1>15, <1>18 DEF FrameInv

\* Every step keeps the ring in order.
LEMMA FrameStep == ASSUME FrameInv, [Next]_vars PROVE FrameInv'
<1>1. ASSUME NEW b \in Bidder, NEW q \in Quantities, NEW p \in Prices, NEW st \in States,
             \/ SubmitNew(b, q, p, st)
             \/ \E key \in held[b] : SubmitAgain(b, q, p, st, key)
      PROVE  FrameInv'
  <2>1. UNCHANGED <<clock, clearat, market, frameVars>>
    BY <1>1 DEF SubmitNew, SubmitAgain
  <2> QED BY <2>1, FrameQuiet DEF FrameInv, ClockKept, frameVars
<1>2. CASE FirstPresync
  BY <1>2, FrameFirst
<1>3. CASE ClearMarket
  BY <1>3, FrameNow, FrameLater, DelayFacts
<1>4. CASE Tick
  <2>1. UNCHANGED <<clearat, market, frameVars>> /\ clock' \in clock + 1 .. clearat
    BY <1>4 DEF Tick
  <2>2. ClockKept' /\ clock' >= clock
    BY <2>1 DEF FrameInv, ClockKept
  <2> QED BY <2>1, <2>2, FrameQuiet DEF frameVars
<1>5. CASE UNCHANGED <<clock, clearat, market, frameVars>>
  BY <1>5, FrameQuiet DEF frameVars, FrameInv, ClockKept
<1> QED BY <1>1, <1>2, <1>3, <1>4, <1>5 DEF Next, ClearThrows, vars

(* For every period and latency, the ring never overflows: it holds one    *)
(* result for each period of the delay, in the order of their markets.     *)
THEOREM RingHolds == Spec => []FrameInv
BY FrameInit, FrameStep, PTL DEF Spec

(* Whenever the latency is a multiple of the period, the result in force   *)
(* is the one for the present period.                                      *)
THEOREM InTime == Spec => []CurrentOnTime
<1>1. FrameInv => CurrentOnTime
  <2> SUFFICES ASSUME FrameInv, Latency % Period = 0, current.market > 0
               PROVE  current.start <= clock /\ clock <= current.start + Period
    BY DEF CurrentOnTime
  <2>1. clearat \in Nat /\ clock \in Nat /\ Period \in Nat /\ Latency \in Nat
    BY TimeAssumption DEF FrameInv, ClockKept
  <2>2. clearat # 0 /\ clearat - Period <= clock /\ current.start = clearat - Period
    BY DEF FrameInv, CurrentKept
  <2>3. clock <= clearat
    BY <2>2 DEF FrameInv, ClockKept
  <2> QED BY <2>1, <2>2, <2>3
<1> QED BY <1>1, RingHolds, PTL

(* Results come into force one after the other, none lost and none twice,  *)
(* and the one announced is the one that comes into force next.            *)
THEOREM InOrder == Spec => MarketsInOrder
<1>1. ASSUME FrameInv, [Next]_vars
      PROVE  [/\ current'.market \in {current.market, current.market + 1}
              /\ next'.market \in {0, current'.market + 1}]_vars
  <2>1. FrameInv'
    BY <1>1, FrameStep
  <2>2. next'.market \in {0, current'.market + 1}
    BY <2>1 DEF FrameInv, CurrentKept
  <2>3. current'.market \in {current.market, current.market + 1}
    <3>1. CASE UNCHANGED current
      BY <3>1
    <3>2. CASE ClearMarket
      <4>1. CASE Latency > 0
        <5>1. clock = clearat /\ Deliver(cleared')
          BY <1>1, <3>2, <4>1, ClearFacts
        <5>2. current' = (IF Due THEN ring[front] ELSE current)
          BY <5>1 DEF Deliver
        <5>3. Due => ring[front].market = current.market + 1
          BY <1>1, <4>1, <5>1, DueFacts
        <5> QED BY <5>2, <5>3
      <4>2. CASE ~(Latency > 0)
        <5>1. current' = cleared' /\ cleared'.market = market
          BY <1>1, <3>2, <4>2, ClearFacts DEF DeliverNow
        <5>2. Pending = 0 /\ market \in Nat /\ current.market \in Nat
          BY <1>1, <4>2, DelayFacts DEF FrameInv, ClockKept, RingKept
        <5>3. market = current.market + 1
          BY <5>2 DEF Pending
        <5> QED BY <5>1, <5>3
      <4> QED BY <4>1, <4>2
    <3>3. ClearMarket \/ UNCHANGED current
      BY <1>1 DEF Next, SubmitNew, SubmitAgain, FirstPresync, ClearThrows, Tick, frameVars, vars
    <3> QED BY <3>1, <3>2, <3>3
  <2> QED BY <2>2, <2>3
<1> QED BY <1>1, RingHolds, PTL DEF Spec, MarketsInOrder
---------------------------------------------------------------------------
(* Means *)

(* The prices that the mean of a frame is to be taken of.                  *)
MeanOf(n, s) ==
  SumOf([k \in 1 .. s.need |-> Recent(n, s.need - k + IF s.past THEN 1 ELSE 0)], s.need)
MeanKept(f) ==
  /\ f.market \in Nat /\ f.market < market
  /\ f.market > 0 => \A s \in Stats : f.stats[s] = MeanOf(f.market, s)

(* The ring of prices holds those of the last markets, the latest before   *)
(* the index, and each frame has had its means from it.                    *)
LogKept ==
  /\ log \in Seq({log[i] : i \in DOMAIN log}) /\ Len(log) = market - 1
  /\ DOMAIN history = 0 .. HistorySize - 1 /\ index \in 0 .. HistorySize
  /\ \A k \in 0 .. HistorySize - 1 :
       history[(index + (HistorySize - 1 - k)) % HistorySize] = Recent(market - 1, k)

FramesKept ==
  /\ MeanKept(current) /\ MeanKept(next)
  /\ \A i \in DOMAIN ring : MeanKept(ring[i])

MeansInv == LogKept /\ FramesKept

\* Finitely many numbers have a largest one.
LEMMA LargestNumber ==
  ASSUME NEW S \in SUBSET Nat, S # {}, IsFiniteSet(S)
  PROVE  Max(S) \in S /\ \A k \in S : Max(S) >= k
<1>1. PICK o \in Bijection(1 .. Cardinality(S), S) : TRUE
  BY FS_CardinalityType DEF ExistsBijection
<1> DEFINE n == Cardinality(S)
           T == {m \in Nat : m <= n => \E b \in Nat : \A i \in 1 .. m : o[i] <= b}
<1>2. /\ n \in Nat /\ \A i \in 1 .. n : o[i] \in Nat
      /\ \A k \in S : \E i \in 1 .. n : o[i] = k
  BY <1>1, FS_CardinalityType DEF Bijection, Injection, Surjection
<1> HIDE DEF n
<1>3. 0 \in T
  OBVIOUS
<1>4. ASSUME NEW m \in Nat, m \in T PROVE m + 1 \in T
  <2> SUFFICES ASSUME m + 1 <= n PROVE \E b \in Nat : \A i \in 1 .. m + 1 : o[i] <= b
    OBVIOUS
  <2>1. PICK b \in Nat : \A i \in 1 .. m : o[i] <= b
    BY <1>2, <1>4
  <2>2. o[m + 1] \in Nat /\ \A i \in 1 .. m : o[i] \in Nat
    BY <1>2
  <2>3. \A i \in 1 .. m + 1 : o[i] <= b + o[m + 1]
    <3> TAKE i \in 1 .. m + 1
    <3>1. CASE i = m + 1
      BY <2>2, <3>1
    <3>2. CASE i \in 1 .. m
      BY <2>1, <2>2, <3>2
    <3> QED BY <3>1, <3>2
  <2>4. b + o[m + 1] \in Nat
    BY <2>1, <2>2
  <2> QED BY <2>3, <2>4
<1> HIDE DEF T
<1>5. n \in T
  BY <1>2, <1>3, <1>4, AllNumbers
<1> DEFINE B == {b \in Nat : \A k \in S : k <= b}
<1>6. B # {}
  <2>1. PICK b \in Nat : \A i \in 1 .. n : o[i] <= b
    BY <1>2, <1>5 DEF T
  <2>2. b \in B
    BY <1>2, <2>1
  <2> QED BY <2>2
<1>7. PICK m \in B : \A b \in B : m <= b
  BY <1>6, LeastNumber
<1>8. m \in S
  <2> SUFFICES ASSUME m \notin S PROVE FALSE
    OBVIOUS
  <2>1. \A k \in S : k < m
    BY <1>7
  <2>2. PICK k \in S : TRUE
    OBVIOUS
  <2>3. m - 1 \in Nat /\ \A l \in S : l <= m - 1
    BY <1>7, <2>1, <2>2
  <2> QED BY <1>7, <2>3
<1>9. \E x \in S : \A y \in S : x >= y
  BY <1>7, <1>8
<1> QED BY <1>9 DEF Max

\* There is room in the ring for each mean, and for one more price.
LEMMA HistoryFacts ==
  /\ HistorySize \in Nat \ {0}
  /\ \A s \in Stats : s.need \in Nat /\ s.need + 2 <= HistorySize
<1> DEFINE needs == {s.need : s \in Stats}
<1>1. CASE Stats = {}
  BY <1>1 DEF HistorySize
<1>2. CASE Stats # {}
  <2>1. needs \in SUBSET Nat /\ needs # {}
    BY <1>2, StatAssumption
  <2>2. [s \in Stats |-> s.need] \in Surjection(Stats, needs)
    BY DEF Surjection
  <2>3. IsFiniteSet(needs)
    BY <2>2, StatAssumption, FS_Surjection
  <2>4. Max(needs) \in needs /\ \A k \in needs : Max(needs) >= k
    BY <2>1, <2>3, LargestNumber
  <2>5. HistorySize = Max(needs) + 2
    BY <1>2 DEF HistorySize
  <2>6. \A s \in Stats : s.need \in needs
    OBVIOUS
  <2> HIDE DEF needs
  <2>7. Max(needs) \in Nat
    BY <2>1, <2>4
  <2>8. \A s \in Stats : s.need \in Nat /\ Max(needs) >= s.need
    BY <2>1, <2>4, <2>6
  <2> QED BY <2>5, <2>7, <2>8
<1> QED BY <1>1, <1>2

\* No prices have been kept at the start.
LEMMA MeansInit == Init => MeansInv
<1> SUFFICES ASSUME Init PROVE MeansInv
  OBVIOUS
<1>1. /\ market = 1 /\ log = <<>> /\ index = 0
      /\ history = [i \in 0 .. HistorySize - 1 |-> InitPrice]
      /\ ring = [i \in 0 .. RingSize - 1 |-> NoFrame]
      /\ current = [NoFrame EXCEPT !.price = InitPrice]
      /\ next = IF Latency > 0 THEN current ELSE NoFrame
  BY DEF Init
<1>2. HistorySize \in Nat \ {0}
  BY HistoryFacts
<1>3. LogKept
  <2>1. ASSUME NEW k \in 0 .. HistorySize - 1
        PROVE  history[(index + (HistorySize - 1 - k)) % HistorySize] = Recent(market - 1, k)
    <3>1. (0 + (HistorySize - 1 - k)) % HistorySize = HistorySize - 1 - k
      <4> DEFINE at == 0 + (HistorySize - 1 - k)
      <4>1. at \in 0 .. 2 * HistorySize - 1 /\ at < HistorySize /\ at = HistorySize - 1 - k
        BY <1>2
      <4> HIDE DEF at
      <4>2. at % HistorySize = at
        BY <1>2, <4>1, Wrap
      <4> QED BY <4>1, <4>2 DEF at
    <3>2. Recent(0, k) = InitPrice
      BY DEF Recent
    <3> QED BY <1>1, <1>2, <3>1, <3>2
  <2> QED BY <1>1, <1>2, <2>1 DEF LogKept
<1>4. current.market = 0 /\ next.market = 0 /\ NoFrame.market = 0
  BY <1>1 DEF NoFrame
<1>5. FramesKept
  BY <1>1, <1>4 DEF FramesKept, MeanKept
<1> QED BY <1>3, <1>5 DEF MeansInv

\* What clearing a market does to the prices that are kept.
LEMMA LogClear ==
  ASSUME FrameInv, LogKept, ClearMarket
  PROVE  /\ LogKept' /\ index' \in 1 .. HistorySize
         /\ \A n \in Nat : n < market => \A k \in Nat : Recent(n, k)' = Recent(n, k)
<1> DEFINE H == HistorySize
           x == NextIndex
<1>1. PICK price : /\ history' = [history EXCEPT ![x] = price] /\ index' = x + 1
                   /\ log' = Append(log, price) /\ market' = market + 1
  BY DEF ClearMarket, NextMarket
<1>2. H \in Nat \ {0} /\ market \in Nat \ {0}
  BY HistoryFacts DEF FrameInv, ClockKept
<1>3. x \in 0 .. H - 1 /\ index \in 0 .. H /\ x = IF index = H THEN 0 ELSE index
  BY <1>2 DEF LogKept, NextIndex
<1> DEFINE S == {log[i] : i \in DOMAIN log} \cup {price}
<1>4. log \in Seq(S) /\ Len(log) = market - 1 /\ price \in S
  BY DEF LogKept
<1>5. /\ log' \in Seq(S) /\ Len(log') = market
      /\ log'[market] = price /\ \A i \in 1 .. market - 1 : log'[i] = log[i]
  BY <1>1, <1>2, <1>4
<1>6. log' \in Seq({log'[i] : i \in DOMAIN log'})
  <2>1. DOMAIN log' = 1 .. market /\ log' = [i \in 1 .. market |-> log'[i]]
    BY <1>2, <1>5
  <2> QED BY <1>2, <2>1
<1> HIDE DEF H, x, S
<1>7. ASSUME NEW n \in Nat, n < market, NEW k \in Nat PROVE Recent(n, k)' = Recent(n, k)
  <2>1. CASE n - k < 1
    BY <2>1 DEF Recent
  <2>2. CASE n - k >= 1
    BY <1>2, <1>5, <1>7, <2>2 DEF Recent
  <2> QED BY <2>1, <2>2
<1>8. ASSUME NEW k \in 0 .. H - 1
      PROVE  history'[(index' + (H - 1 - k)) % H] = Recent(market - 1, k)'
  <2>1. CASE k = 0
    <3>1. (x + 1 + (H - 1 - 0)) % H = x
      <4>1. x + 1 + (H - 1 - 0) \in 0 .. 2 * H - 1 /\ x + 1 + (H - 1 - 0) = x + H
        BY <1>2, <1>3
      <4>2. (x + H) % H = x
        <5> DEFINE at == x + H
        <5>1. at \in 0 .. 2 * H - 1 /\ ~(at < H) /\ at - H = x
          BY <1>2, <1>3
        <5> HIDE DEF at
        <5>2. at % H = x
          BY <1>2, <5>1, Wrap
        <5> QED BY <5>2 DEF at
      <4> QED BY <4>1, <4>2
    <3>2. history'[x] = price
      BY <1>1, <1>3 DEF LogKept, H
    <3>3. Recent(market - 1, 0)' = price
      BY <1>1, <1>2, <1>5 DEF Recent
    <3> QED BY <1>1, <1>2, <2>1, <3>1, <3>2, <3>3
  <2>2. CASE k # 0
    <3> DEFINE at == x + (H - 1 - (k - 1))
               was == index + (H - 1 - (k - 1))
    <3>1. k - 1 \in 0 .. H - 1 /\ at = x + 1 + (H - 1 - k)
      BY <1>2, <1>3, <2>2
    <3>2. at \in 0 .. 2 * H - 1 /\ was \in 0 .. 2 * H - 1
      BY <1>2, <1>3, <2>2
    <3>3. /\ at % H = IF at < H THEN at ELSE at - H
          /\ was % H = IF was < H THEN was ELSE was - H
      BY <1>2, <3>2, Wrap
    <3>4. at % H = was % H /\ at % H # x /\ at % H \in 0 .. H - 1
      <4> DEFINE a == at % H
                 w == was % H
      <4>1. a = (IF at < H THEN at ELSE at - H) /\ w = IF was < H THEN was ELSE was - H
        BY <3>3
      <4> HIDE DEF a, w
      <4>2. a = w /\ a # x /\ a \in 0 .. H - 1
        BY <1>2, <1>3, <2>2, <4>1
      <4> QED BY <4>2 DEF a, w
    <3> HIDE DEF at
    <3>5. history'[at % H] = history[at % H]
      BY <1>1, <3>4 DEF LogKept
    <3>6. history[was % H] = Recent(market - 1, k - 1)
      BY <3>1 DEF LogKept, H
    <3> HIDE DEF was
    <3>7. Recent(market - 1, k)' = Recent(market - 1, k - 1)
      <4>1. market - k = (market - 1) - (k - 1) /\ market' - 1 = market
        BY <1>1, <1>2
      <4>2. CASE market - k < 1
        BY <4>1, <4>2 DEF Recent
      <4>3. CASE market - k >= 1
        <5>1. log'[market - k] = log[market - k]
          BY <1>2, <1>5, <2>2, <4>3
        <5> QED BY <1>2, <4>1, <4>3, <5>1 DEF Recent
      <4> QED BY <1>2, <4>2, <4>3
    <3> QED BY <1>1, <1>2, <3>1, <3>4, <3>5, <3>6, <3>7
  <2> QED BY <2>1, <2>2
<1>9. DOMAIN history' = 0 .. H - 1 /\ index' \in 1 .. H
  BY <1>1, <1>2, <1>3 DEF LogKept, H
<1>10. LogKept'
  <2>1. Len(log') = market' - 1
    BY <1>1, <1>2, <1>5
  <2>2. index' \in 0 .. H
    BY <1>2, <1>9
  <2>3. H' = H
    BY DEF H, HistorySize
  <2> QED BY <1>6, <1>8, <1>9, <2>1, <2>2, <2>3 DEF LogKept, H
<1> QED BY <1>7, <1>9, <1>10 DEF H

\* The window of a mean in the ring holds the prices it is to be taken of.
LEMMA WindowRight ==
  ASSUME FrameInv, MeansInv, ClearMarket, NEW s \in Stats
  PROVE  cleared'.stats[s] = MeanOf(market - 1, s)'
<1> DEFINE H == HistorySize
           back0 == IF s.past THEN 1 ELSE 0
           w == H + (IF s.past THEN index' - 1 ELSE index') - s.need
<1>1. LogKept' /\ index' \in 1 .. H
  BY LogClear DEF MeansInv
<1>2. H \in Nat \ {0} /\ s.need \in Nat /\ s.need + 2 <= H
  BY HistoryFacts
<1>3. WindowStart(index', s) = w % H
  BY DEF WindowStart
<1>4. ASSUME NEW k \in 1 .. s.need
      PROVE  history'[(WindowStart(index', s) + k - 1) % H] = Recent(market - 1, s.need - k + back0)'
  <2> DEFINE j == s.need - k + back0
             at == w + k - 1
             v == w % H
             there == v + k - 1
  <2>1. /\ w \in 0 .. 2 * H - 1 /\ at \in 0 .. 2 * H - 1 /\ j \in 0 .. H - 1
        /\ at = index' + (H - 1 - j)
    BY <1>1, <1>2
  <2>2. v = IF w < H THEN w ELSE w - H
    BY <1>2, <2>1, Wrap
  <2> HIDE DEF v
  <2>3. there \in 0 .. 2 * H - 1 /\ (there = at \/ (there = at - H /\ at >= H))
    BY <1>1, <1>2, <2>1, <2>2
  <2> HIDE DEF there, at, w
  <2>4. there % H = at % H
    <3>1. there % H = (IF there < H THEN there ELSE there - H)
      BY <1>2, <2>3, Wrap
    <3>2. at % H = (IF at < H THEN at ELSE at - H)
      BY <1>2, <2>1, Wrap
    <3> DEFINE a == at % H
               b == there % H
    <3>3. a = (IF at < H THEN at ELSE at - H) /\ b = IF there < H THEN there ELSE there - H
      BY <3>1, <3>2
    <3> HIDE DEF a, b
    <3>4. a = b
      BY <1>2, <2>1, <2>3, <3>3
    <3> QED BY <3>4 DEF a, b
  <2> HIDE DEF j
  <2>5. history'[(index' + (H - 1 - j)) % H] = Recent(market - 1, j)'
    BY <1>1, <2>1 DEF LogKept
  <2>6. history'[(v + k - 1) % H] = Recent(market - 1, j)'
    BY <2>1, <2>4, <2>5 DEF there
  <2> QED BY <1>3, <2>6 DEF j, v
<1>5. cleared'.stats[s] = Window(history', index', s)
  BY DEF ClearMarket
<1> HIDE DEF w
<1>6. [k \in 1 .. s.need |-> history'[(WindowStart(index', s) + k - 1) % H]]
        = [k \in 1 .. s.need |-> Recent(market - 1, s.need - k + back0)']
  BY <1>4
<1> QED BY <1>5, <1>6 DEF Window, MeanOf

\* Every step keeps the past prices, and the means in the frames.
LEMMA MeansStep ==
  ASSUME FrameInv, MeansInv, [Next]_vars
  PROVE  MeansInv'
<1>1. CASE ClearMarket
  <2>1. /\ LogKept'
        /\ \A n \in Nat : n < market => \A k \in Nat : Recent(n, k)' = Recent(n, k)
    BY <1>1, LogClear DEF MeansInv
  <2>2. /\ market' = market + 1 /\ market \in Nat \ {0} /\ cleared'.market = market
        /\ IF Latency > 0 THEN Deliver(cleared') ELSE DeliverNow(cleared')
    BY <1>1, ClearFacts DEF FrameInv, ClockKept
  <2>3. ASSUME NEW n \in Nat, n < market, NEW s \in Stats PROVE MeanOf(n, s)' = MeanOf(n, s)
    <3>1. ASSUME NEW k \in 1 .. s.need
          PROVE  Recent(n, s.need - k + IF s.past THEN 1 ELSE 0)'
                   = Recent(n, s.need - k + IF s.past THEN 1 ELSE 0)
      <4>1. s.need - k + (IF s.past THEN 1 ELSE 0) \in Nat
        BY HistoryFacts
      <4> QED BY <2>1, <2>3, <4>1
    <3> QED BY <3>1 DEF MeanOf
  <2>4. ASSUME NEW f, MeanKept(f) \/ f = cleared'
        PROVE  /\ f.market \in Nat /\ f.market < market'
               /\ f.market > 0 => \A s \in Stats : f.stats[s] = MeanOf(f.market, s)'
    <3>1. CASE MeanKept(f)
      <4>1. f.market \in Nat /\ f.market < market /\ f.market < market'
        BY <2>2, <3>1 DEF MeanKept
      <4> QED BY <2>3, <3>1, <4>1 DEF MeanKept
    <3>2. CASE f = cleared'
      <4>1. \A s \in Stats : f.stats[s] = MeanOf(market - 1, s)'
        BY <1>1, <3>2, WindowRight
      <4>2. f.market = market /\ market' - 1 = market
        BY <2>2, <3>2
      <4> QED BY <2>2, <4>1, <4>2
    <3> QED BY <2>4, <3>1, <3>2
  <2> DEFINE Kept(f) == MeanKept(f) \/ f = cleared'
  <2>5. Kept(current') /\ Kept(next') /\ \A i \in DOMAIN ring' : Kept(ring'[i])
    <3>1. CASE Latency > 0
      <4>1. Deliver(cleared') /\ RingSize \in Nat \ {0}
        BY <2>2, <3>1, DelayFacts
      <4>2. DOMAIN ring = 0 .. RingSize - 1 /\ front \in DOMAIN ring /\ DOMAIN ring' = DOMAIN ring
        BY <4>1 DEF Deliver, FrameInv, RingKept
      <4>3. \A i \in DOMAIN ring' : ring'[i] = ring[i] \/ ring'[i] = cleared'
        BY <4>1, <4>2 DEF Deliver
      <4>4. \A i \in DOMAIN ring' : Kept(ring'[i])
        BY <4>2, <4>3 DEF MeansInv, FramesKept
      <4>5. Kept(current')
        BY <4>1, <4>2 DEF Deliver, MeansInv, FramesKept
      <4>6. (IF Due THEN (front + 1) % RingSize ELSE front) \in DOMAIN ring'
        <5>1. (front + 1) % RingSize \in 0 .. RingSize - 1
          <6>1. front + 1 \in Nat
            BY <4>2
          <6> QED BY <4>1, <6>1, DivFacts
        <5> QED BY <4>2, <5>1
      <4>7. next' = next \/ \E i \in DOMAIN ring' : next' = ring'[i]
        BY <4>1, <4>6 DEF Deliver
      <4>8. Kept(next')
        BY <4>4, <4>7 DEF MeansInv, FramesKept
      <4> QED BY <4>4, <4>5, <4>8
    <3>2. CASE ~(Latency > 0)
      BY <2>2, <3>2 DEF DeliverNow, MeansInv, FramesKept
    <3> QED BY <3>1, <3>2
  <2> HIDE DEF Kept
  <2>6. ASSUME NEW f, Kept(f)
        PROVE  /\ f.market \in Nat /\ f.market < market'
               /\ f.market > 0 => \A s \in Stats : f.stats[s] = MeanOf(f.market, s)'
    BY <2>4, <2>6 DEF Kept
  <2>7. FramesKept'
    BY <2>5, <2>6 DEF FramesKept, MeanKept
  <2> QED BY <2>1, <2>7 DEF MeansInv
<1>2. CASE UNCHANGED <<market, log, history, index, current, next, ring>>
  BY <1>2 DEF MeansInv, LogKept, FramesKept, MeanKept, MeanOf, Recent
<1> QED BY <1>1, <1>2 DEF Next, SubmitNew, SubmitAgain, FirstPresync, ClearThrows, Tick, frameVars, vars

\* For any statistics, in any number of markets: a mean is that of the prices
\* of the markets that it is for, however often the ring has wrapped.
THEOREM MeansAreRight == Spec => []MeansRight
<1>1. MeansInv => MeansRight
  BY DEF MeansInv, FramesKept, MeanKept, MeanOf, MeansRight
<1> QED BY <1>1, FrameInit, FrameStep, MeansInit, MeansStep, PTL DEF Spec

---------------------------------------------------------------------------
(* Sorting and the quantities at a price.  Bids are told by their prices   *)
(* with sets of prices.                                                    *)

(* The numbers in the order in which each comes behind those in first.    *)
Places(n, first) == [i \in 1 .. n |-> CHOOSE k \in 1 .. n : Cardinality(first[k]) = i - 1]

\* When comes-first is a linear order, everything has a place, and in that order.
LEMMA SortOrder ==
  ASSUME NEW n \in Nat, NEW first \in [1 .. n -> SUBSET (1 .. n)],
         \A k \in 1 .. n : k \notin first[k],
         \A k, l \in 1 .. n : k # l => k \in first[l] \/ l \in first[k],
         \A k \in 1 .. n : \A l \in first[k] : first[l] \subseteq first[k]
  PROVE  /\ Places(n, first) \in Orders(n)
         /\ \A i, j \in 1 .. n : i < j => Places(n, first)[i] \in first[Places(n, first)[j]]
<1> DEFINE o == Places(n, first)
           place == [k \in 1 .. n |-> Cardinality(first[k]) + 1]
<1>1. IsFiniteSet(1 .. n) /\ Cardinality(1 .. n) = n
  BY FS_Interval
<1>2. ASSUME NEW k \in 1 .. n
      PROVE  IsFiniteSet(first[k]) /\ Cardinality(first[k]) \in Nat /\ place[k] \in 1 .. n
  <2>1. first[k] \subseteq 1 .. n
    OBVIOUS
  <2>2. IsFiniteSet(first[k]) /\ Cardinality(first[k]) \in Nat /\ Cardinality(first[k]) <= n
    BY <1>1, <2>1, FS_Subset, FS_CardinalityType
  <2>3. Cardinality(first[k]) # n
    BY <1>1, <2>1, FS_Subset
  <2> QED BY <2>2, <2>3
<1>3. ASSUME NEW k \in 1 .. n, NEW l \in first[k] PROVE l \in 1 .. n /\ place[l] < place[k]
  <2>1. l \in 1 .. n
    OBVIOUS
  <2>2. first[l] \cup {l} \subseteq first[k] /\ l \notin first[l]
    BY <2>1
  <2>3. Cardinality(first[l] \cup {l}) = Cardinality(first[l]) + 1
    BY <1>2, <2>1, <2>2, FS_AddElement
  <2>4. Cardinality(first[l] \cup {l}) <= Cardinality(first[k])
    BY <1>2, <2>2, FS_Subset
  <2> QED BY <1>2, <2>1, <2>3, <2>4
<1>4. ASSUME NEW k \in 1 .. n
      PROVE  place[k] \in 1 .. n /\ place[k] \in Int /\ Cardinality(first[k]) = place[k] - 1
  BY <1>2
<1>4a. place \in [1 .. n -> 1 .. n]
  BY <1>4
<1> HIDE DEF place
<1>5. ASSUME NEW k \in 1 .. n, NEW l \in 1 .. n, place[k] = place[l] PROVE k = l
  <2>1. place[k] \in Int /\ place[l] \in Int
    BY <1>4
  <2>2. k \notin first[l] /\ l \notin first[k]
    BY <1>3, <1>5, <2>1
  <2> QED BY <2>2
<1>6. \A i \in 1 .. n : \E k \in 1 .. n : place[k] = i
  <2>1. place \in Injection(1 .. n, 1 .. n)
    BY <1>5, <1>4a DEF Injection, IsInjective
  <2>2. place \in Surjection(1 .. n, 1 .. n)
    BY <1>1, <2>1, FS_Injection
  <2> QED BY <2>2 DEF Surjection
<1>7. ASSUME NEW i \in 1 .. n PROVE o[i] \in 1 .. n /\ place[o[i]] = i
  <2>1. PICK k \in 1 .. n : Cardinality(first[k]) = i - 1
    BY <1>4, <1>6
  <2>2. o[i] = CHOOSE l \in 1 .. n : Cardinality(first[l]) = i - 1
    BY DEF Places
  <2>3. o[i] \in 1 .. n /\ Cardinality(first[o[i]]) = i - 1
    BY <2>1, <2>2
  <2>4. place[o[i]] \in Int
    BY <1>4, <2>3
  <2> QED BY <1>4, <2>3, <2>4
<1>8. o \in [1 .. n -> 1 .. n]
  <2>1. o = [i \in 1 .. n |-> o[i]]
    BY DEF Places
  <2> QED BY <1>7, <2>1
<1> HIDE DEF o
<1>9. ASSUME NEW k \in 1 .. n PROVE place[k] \in 1 .. n /\ o[place[k]] = k
  BY <1>4, <1>5, <1>7
<1>10. o \in Orders(n)
  <2>1. ASSUME NEW k \in 1 .. n, NEW l \in 1 .. n, o[k] = o[l] PROVE k = l
    <3>1. place[o[k]] = k /\ place[o[l]] = l
      BY <1>7
    <3> QED BY <2>1, <3>1
  <2>2. ASSUME NEW l \in 1 .. n PROVE \E k \in 1 .. n : o[k] = l
    BY <1>9
  <2> QED BY <1>8, <2>1, <2>2 DEF Orders
<1>11. ASSUME NEW i \in 1 .. n, NEW j \in 1 .. n, i < j PROVE o[i] \in first[o[j]]
  <2>1. place[o[i]] = i /\ place[o[j]] = j /\ o[i] \in 1 .. n /\ o[j] \in 1 .. n
    BY <1>7
  <2>2. o[i] # o[j]
    BY <1>11, <2>1
  <2>3. o[j] \notin first[o[i]]
    BY <1>3, <1>11, <2>1
  <2> QED BY <2>1, <2>2, <2>3
<1> QED BY <1>10, <1>11 DEF o

\* Adding nothing.
LEMMA SumZeros ==
  ASSUME NEW f, NEW n \in Nat, NEW m \in 0 .. n, \A k \in 1 .. n : f[k] \in Int,
         \A k \in m + 1 .. n : f[k] = 0
  PROVE  SumTo(f, n) = SumTo(f, m)
<1> DEFINE S == {k \in Nat : m <= k /\ k <= n => SumTo(f, k) = SumTo(f, m)}
<1>1. 0 \in S
  OBVIOUS
<1>2. ASSUME NEW k \in Nat, k \in S PROVE k + 1 \in S
  <2> SUFFICES ASSUME m <= k + 1, k + 1 <= n PROVE SumTo(f, k + 1) = SumTo(f, m)
    OBVIOUS
  <2>1. CASE m = k + 1
    BY <2>1
  <2>2. CASE m <= k
    <3>1. SumTo(f, k) = SumTo(f, m)
      BY <1>2, <2>2
    <3>2. SumTo(f, k + 1) = SumTo(f, k) + f[k + 1] /\ f[k + 1] = 0
      BY <2>2, SumFacts
    <3>3. SumTo(f, k) \in Int
      BY SumType
    <3> QED BY <3>1, <3>2, <3>3
  <2> QED BY <2>1, <2>2
<1> HIDE DEF S
<1>3. \A k \in Nat : k \in S
  BY <1>1, <1>2, AllNumbers
<1>4. n \in S
  BY <1>3
<1> QED BY <1>4 DEF S

Amount(bids) == [k \in 1 .. Len(bids) |-> bids[k].quantity]
Upto(bids, k) == SumTo(Amount(bids), k)
Priced(bids, P) == Quantity(bids, LAMBDA bid : bid.price \in P)

\* What a list of bids has.
LEMMA BidFacts ==
  ASSUME NEW bids \in Seq(AnyBid)
  PROVE  /\ Len(bids) \in Nat /\ DOMAIN bids = 1 .. Len(bids)
         /\ \A k \in 1 .. Len(bids) : /\ bids[k] \in AnyBid /\ bids[k].quantity \in Nat
                                      /\ bids[k].price \in AnyPrice /\ bids[k].price \in Int
                                      /\ bids[k].price <= Cap
                                      /\ Amount(bids)[k] = bids[k].quantity
<1>1. Len(bids) \in Nat /\ DOMAIN bids = 1 .. Len(bids) /\ \A k \in 1 .. Len(bids) : bids[k] \in AnyBid
  OBVIOUS
<1>2. \A bid \in AnyBid : /\ bid.quantity \in Nat /\ bid.price \in AnyPrice /\ bid.price \in Int
                          /\ bid.price <= Cap
  BY DEF AnyBid, AnyPrice
<1> QED BY <1>1, <1>2 DEF Amount

\* The first bids get as much as those at some prices if they are at these
\* prices, and no less if there are no others at these prices.
LEMMA PricedBounds ==
  ASSUME NEW bids \in Seq(AnyBid), NEW P, NEW k \in 0 .. Len(bids)
  PROVE  /\ Upto(bids, k) \in Nat /\ Priced(bids, P) \in Nat
         /\ (\A i \in 1 .. k : bids[i].price \in P) => Upto(bids, k) <= Priced(bids, P)
         /\ (\A i \in k + 1 .. Len(bids) : bids[i].price \notin P) => Priced(bids, P) <= Upto(bids, k)
<1> DEFINE n == Len(bids)
           f == Amount(bids)
           g == [i \in 1 .. n |-> IF bids[i].price \in P THEN bids[i].quantity ELSE 0]
           h == [i \in 1 .. n |-> IF i <= k THEN bids[i].quantity ELSE 0]
<1>1. /\ n \in Nat /\ k \in 0 .. n /\ k \in Nat
      /\ \A i \in 1 .. n : /\ f[i] \in Nat /\ g[i] \in Nat /\ h[i] \in Nat
                           /\ bids[i].quantity \in Nat /\ f[i] = bids[i].quantity
  BY BidFacts
<1>2. Priced(bids, P) = SumTo(g, n)
  BY DEF Priced, Quantity
<1>3. Upto(bids, k) = SumTo(f, k)
  BY DEF Upto
<1>4. SumTo(g, n) \in Nat /\ SumTo(f, k) \in Nat
  BY <1>1, SumType, SMTT(30)
<1>5. ASSUME \A i \in 1 .. k : bids[i].price \in P PROVE SumTo(f, k) <= SumTo(g, n)
  <2>1. \A i \in 1 .. k : f[i] = g[i]
    BY <1>1, <1>5
  <2> HIDE DEF f, g, n
  <2>2. SumTo(f, k) = SumTo(g, k)
    BY <1>1, <2>1, SumSame
  <2>3. SumTo(g, k) <= SumTo(g, n)
    BY <1>1, SumPrefix
  <2> QED BY <2>2, <2>3
<1>6. ASSUME \A i \in k + 1 .. n : bids[i].price \notin P PROVE SumTo(g, n) <= SumTo(f, k)
  <2>1. \A i \in 1 .. n : g[i] <= h[i]
    BY <1>1, <1>6
  <2>2. \A i \in k + 1 .. n : h[i] = 0
    BY <1>1
  <2>3. \A i \in 1 .. k : h[i] = f[i]
    BY <1>1
  <2> HIDE DEF f, g, h, n
  <2>4. \A i \in 1 .. n : g[i] \in Int /\ h[i] \in Int
    BY <1>1
  <2>5. SumTo(g, n) <= SumTo(h, n)
    BY <1>1, <2>1, <2>4, SumLess
  <2>6. SumTo(h, n) = SumTo(h, k)
    BY <1>1, <2>2, <2>4, SumZeros
  <2>7. SumTo(h, k) = SumTo(f, k)
    BY <1>1, <2>3, SumSame
  <2> QED BY <2>5, <2>6, <2>7
<1> QED BY <1>2, <1>3, <1>4, <1>5, <1>6

\* Sorting changes neither the bids nor what is bid at any price.
LEMMA SortedBids ==
  ASSUME NEW bids \in Seq(AnyBid),
         NEW first \in [DOMAIN bids -> SUBSET DOMAIN bids],
         \A k \in DOMAIN bids : k \notin first[k],
         \A k, l \in DOMAIN bids : k # l => k \in first[l] \/ l \in first[k],
         \A k \in DOMAIN bids : \A l \in first[k] : first[l] \subseteq first[k]
  PROVE  LET s == Sorted(bids, first) IN
         /\ s \in Seq(AnyBid) /\ Len(s) = Len(bids) /\ ToSet(s) = ToSet(bids)
         /\ \A P : Priced(s, P) = Priced(bids, P)
         /\ \E o \in Orders(Len(bids)) :
              /\ s = [i \in 1 .. Len(bids) |-> bids[o[i]]]
              /\ \A i, j \in 1 .. Len(bids) : i < j => o[i] \in first[o[j]]
<1> DEFINE n == Len(bids)
           o == Places(n, first)
           s == Sorted(bids, first)
<1>1. n \in Nat /\ DOMAIN bids = 1 .. n
  OBVIOUS
<1> HIDE DEF n
<1>2. first \in [1 .. n -> SUBSET (1 .. n)]
  BY <1>1
<1>3. /\ \A k \in 1 .. n : k \notin first[k]
      /\ \A k, l \in 1 .. n : k # l => k \in first[l] \/ l \in first[k]
      /\ \A k \in 1 .. n : \A l \in first[k] : first[l] \subseteq first[k]
  BY <1>1
<1>5. s = [i \in 1 .. n |-> bids[o[i]]]
  BY <1>1 DEF Sorted, Places
<1> HIDE DEF o, s
<1>6. o \in Orders(n) /\ \A i, j \in 1 .. n : i < j => o[i] \in first[o[j]]
  BY <1>1, <1>2, <1>3, SortOrder DEF o
<1>7. \A i \in 1 .. n : o[i] \in 1 .. n
  BY <1>6 DEF Orders
<1>8. s \in Seq(AnyBid) /\ Len(s) = n
  <2>1. \A i \in 1 .. n : bids[o[i]] \in AnyBid
    BY <1>1, <1>7
  <2>2. s \in [1 .. n -> AnyBid]
    BY <1>5, <2>1
  <2> QED BY <1>1, <2>2
<1>9. ASSUME NEW P PROVE Priced(s, P) = Priced(bids, P)
  <2> DEFINE f == [i \in 1 .. n |-> IF bids[i].price \in P THEN bids[i].quantity ELSE 0]
             g == [i \in 1 .. n |-> IF s[i].price \in P THEN s[i].quantity ELSE 0]
             h == [i \in 1 .. n |-> f[o[i]]]
  <2>1. Priced(bids, P) = SumTo(f, n) /\ Priced(s, P) = SumTo(g, n)
    BY <1>8 DEF Priced, Quantity, n
  <2>2. \A i \in 1 .. n : g[i] = h[i]
    BY <1>5, <1>7
  <2>3. \A i \in 1 .. n : f[i] \in Int
    BY <1>1, BidFacts DEF n
  <2> HIDE DEF f, g
  <2>4. SumTo(h, n) = SumTo(f, n)
    BY <1>1, <1>6, <2>3, SumOrder
  <2> HIDE DEF h
  <2>5. SumTo(g, n) = SumTo(h, n)
    BY <1>1, <2>2, SumSame
  <2> QED BY <2>1, <2>4, <2>5
<1>10. ToSet(s) = ToSet(bids)
  <2>1. DOMAIN s = 1 .. n /\ \A i \in 1 .. n : s[i] = bids[o[i]]
    BY <1>5
  <2>2. \A k \in 1 .. n : \E i \in 1 .. n : o[i] = k
    BY <1>6 DEF Orders
  <2>3. ASSUME NEW i \in 1 .. n PROVE s[i] \in ToSet(bids)
    BY <1>1, <1>7, <2>1 DEF ToSet
  <2>4. ASSUME NEW k \in 1 .. n PROVE bids[k] \in ToSet(s)
    <3>1. PICK i \in 1 .. n : o[i] = k
      BY <2>2
    <3> QED BY <2>1, <3>1 DEF ToSet
  <2> QED BY <1>1, <2>1, <2>3, <2>4 DEF ToSet
<1> QED BY <1>5, <1>6, <1>8, <1>9, <1>10 DEF n, s

\* The asks that are sorted are the asks of the curve, from the highest price down.
LEMMA FallingFacts ==
  ASSUME NEW c \in AnyCurve
  PROVE  /\ Falling(c) \in Seq(AnyBid) /\ Len(Falling(c)) = Len(c.bids) /\ ToSet(Falling(c)) = ToSet(c.bids)
         /\ \A P : Priced(Falling(c), P) = Priced(c.bids, P)
         /\ \A i, j \in 1 .. Len(c.bids) : i <= j => Falling(c)[i].price >= Falling(c)[j].price
<1> DEFINE price(k) == c.bids[k].price
           D == DOMAIN c.bids
           first == [k \in D |-> {l \in D : price(l) > price(k) \/ (price(l) = price(k) /\ l < k)}]
           s == Falling(c)
<1>1. c.bids \in Seq(AnyBid)
  BY DEF AnyCurve
<1>2. D = 1 .. Len(c.bids) /\ Len(c.bids) \in Nat /\ \A k \in D : k \in Nat /\ price(k) \in Int
  BY <1>1, BidFacts
<1>3. first \in [D -> SUBSET D]
  OBVIOUS
<1>4. /\ \A k \in D : k \notin first[k]
      /\ \A k, l \in D : k # l => k \in first[l] \/ l \in first[k]
      /\ \A k \in D : \A l \in first[k] : first[l] \subseteq first[k]
  BY <1>2
<1>5. s = Sorted(c.bids, first)
  BY DEF Falling
<1>6. \A k \in D : \A l \in first[k] : price(l) >= price(k)
  BY <1>2
<1> HIDE DEF first, s
<1>7. /\ s \in Seq(AnyBid) /\ Len(s) = Len(c.bids) /\ ToSet(s) = ToSet(c.bids)
      /\ \A P : Priced(s, P) = Priced(c.bids, P)
      /\ \E o \in Orders(Len(c.bids)) :
           /\ s = [i \in 1 .. Len(c.bids) |-> c.bids[o[i]]]
           /\ \A i, j \in 1 .. Len(c.bids) : i < j => o[i] \in first[o[j]]
  BY <1>1, <1>3, <1>4, <1>5, SortedBids, Zenon
<1>8. PICK o \in Orders(Len(c.bids)) :
           /\ s = [i \in 1 .. Len(c.bids) |-> c.bids[o[i]]]
           /\ \A i, j \in 1 .. Len(c.bids) : i < j => o[i] \in first[o[j]]
  BY <1>7
<1>9. ASSUME NEW i \in 1 .. Len(c.bids), NEW j \in 1 .. Len(c.bids), i <= j
      PROVE  s[i].price >= s[j].price
  <2>1. o[i] \in D /\ o[j] \in D
    BY <1>2 DEF Orders
  <2>2. s[i].price = price(o[i]) /\ s[j].price = price(o[j])
    BY <1>8
  <2>3. CASE i = j
    BY <1>2, <2>1, <2>2, <2>3
  <2>4. CASE i < j
    <3>1. o[i] \in first[o[j]]
      BY <1>8, <2>4
    <3> QED BY <1>6, <2>1, <2>2, <3>1
  <2> QED BY <1>9, <2>3, <2>4
<1> QED BY <1>7, <1>9 DEF s

\* The offers that are sorted are those of the curve, from the lowest price up.
LEMMA RisingFacts ==
  ASSUME NEW c \in AnyCurve
  PROVE  /\ Rising(c) \in Seq(AnyBid) /\ Len(Rising(c)) = Len(c.bids) /\ ToSet(Rising(c)) = ToSet(c.bids)
         /\ \A P : Priced(Rising(c), P) = Priced(c.bids, P)
         /\ \A i, j \in 1 .. Len(c.bids) : i <= j => Rising(c)[i].price <= Rising(c)[j].price
<1> DEFINE price(k) == c.bids[k].price
           D == DOMAIN c.bids
           first == [k \in D |-> {l \in D : price(l) < price(k) \/ (price(l) = price(k) /\ l > k)}]
           s == Rising(c)
<1>1. c.bids \in Seq(AnyBid)
  BY DEF AnyCurve
<1>2. D = 1 .. Len(c.bids) /\ Len(c.bids) \in Nat /\ \A k \in D : k \in Nat /\ price(k) \in Int
  BY <1>1, BidFacts
<1>3. first \in [D -> SUBSET D]
  OBVIOUS
<1>4. /\ \A k \in D : k \notin first[k]
      /\ \A k, l \in D : k # l => k \in first[l] \/ l \in first[k]
      /\ \A k \in D : \A l \in first[k] : first[l] \subseteq first[k]
  BY <1>2
<1>5. s = Sorted(c.bids, first)
  BY DEF Rising
<1>6. \A k \in D : \A l \in first[k] : price(l) <= price(k)
  BY <1>2
<1> HIDE DEF first, s
<1>7. /\ s \in Seq(AnyBid) /\ Len(s) = Len(c.bids) /\ ToSet(s) = ToSet(c.bids)
      /\ \A P : Priced(s, P) = Priced(c.bids, P)
      /\ \E o \in Orders(Len(c.bids)) :
           /\ s = [i \in 1 .. Len(c.bids) |-> c.bids[o[i]]]
           /\ \A i, j \in 1 .. Len(c.bids) : i < j => o[i] \in first[o[j]]
  BY <1>1, <1>3, <1>4, <1>5, SortedBids, Zenon
<1>8. PICK o \in Orders(Len(c.bids)) :
           /\ s = [i \in 1 .. Len(c.bids) |-> c.bids[o[i]]]
           /\ \A i, j \in 1 .. Len(c.bids) : i < j => o[i] \in first[o[j]]
  BY <1>7
<1>9. ASSUME NEW i \in 1 .. Len(c.bids), NEW j \in 1 .. Len(c.bids), i <= j
      PROVE  s[i].price <= s[j].price
  <2>1. o[i] \in D /\ o[j] \in D
    BY <1>2 DEF Orders
  <2>2. s[i].price = price(o[i]) /\ s[j].price = price(o[j])
    BY <1>8
  <2>3. CASE i = j
    BY <1>2, <2>1, <2>2, <2>3
  <2>4. CASE i < j
    <3>1. o[i] \in first[o[j]]
      BY <1>8, <2>4
    <3> QED BY <1>6, <2>1, <2>2, <3>1
  <2> QED BY <1>9, <2>3, <2>4
<1> QED BY <1>7, <1>9 DEF s

---------------------------------------------------------------------------
(* The double auction matches the bids of two sorted lists.                *)

\* The quantity of the first bids grows with each bid.
LEMMA UptoFacts ==
  ASSUME NEW bids \in Seq(AnyBid)
  PROVE  /\ Upto(bids, 0) = 0
         /\ \A k \in 0 .. Len(bids) : Upto(bids, k) \in Nat /\ Upto(bids, k) <= Upto(bids, Len(bids))
         /\ \A k \in 1 .. Len(bids) : Upto(bids, k) = Upto(bids, k - 1) + bids[k].quantity
<1> DEFINE n == Len(bids)
           f == Amount(bids)
<1>1. n \in Nat /\ \A k \in 1 .. n : f[k] \in Nat /\ f[k] = bids[k].quantity
  BY BidFacts
<1> HIDE DEF f, n
<1>2. SumTo(f, 0) = 0 /\ \A k \in Nat : SumTo(f, k + 1) = SumTo(f, k) + f[k + 1]
  BY SumFacts
<1>3. ASSUME NEW k \in 0 .. n PROVE SumTo(f, k) \in Nat /\ SumTo(f, k) <= SumTo(f, n)
  BY <1>1, SumType, SumPrefix
<1>4. ASSUME NEW k \in 1 .. n PROVE SumTo(f, k) = SumTo(f, k - 1) + bids[k].quantity
  <2>1. k - 1 \in Nat /\ (k - 1) + 1 = k
    BY <1>1
  <2>2. SumTo(f, (k - 1) + 1) = SumTo(f, k - 1) + f[(k - 1) + 1]
    BY <1>2, <2>1
  <2> QED BY <1>1, <2>1, <2>2
<1> QED BY <1>2, <1>3, <1>4 DEF Upto, f, n

Descending(bids) == \A k, l \in 1 .. Len(bids) : k <= l => bids[k].price >= bids[l].price
Ascending(bids) == \A k, l \in 1 .. Len(bids) : k <= l => bids[k].price <= bids[l].price
Something(bids) == \A k \in 1 .. Len(bids) : bids[k].quantity > 0

AnyMatch == [i : Int, j : Int, demand : Int, supply : Int, quantity : Int, a : Int, b : Int,
             check : BOOLEAN, type : {"null", "buyer", "seller"}]

(* The last bids that were matched, and how much of them is left. *)
MetBoth(A, O, m) ==
  /\ m.check /\ m.i > 1 /\ m.j > 1
  /\ m.a = A[m.i - 1].price /\ m.b = O[m.j - 1].price /\ m.b <= m.a
  /\ m.demand = m.quantity /\ m.supply = m.quantity

BuyerLeft(A, O, m) ==
  /\ ~m.check /\ m.type = "buyer" /\ m.i <= Len(A) /\ m.j > 1
  /\ m.a = A[m.i].price /\ m.b = m.a /\ O[m.j - 1].price <= m.a
  /\ m.supply = m.quantity /\ m.quantity < Upto(A, m.i)
  /\ Something(A) /\ Something(O) => m.demand < m.quantity

SellerLeft(A, O, m) ==
  /\ ~m.check /\ m.type = "seller" /\ m.j <= Len(O) /\ m.i > 1
  /\ m.a = O[m.j].price /\ m.b = m.a /\ m.a <= A[m.i - 1].price
  /\ m.demand = m.quantity /\ m.quantity < Upto(O, m.j)
  /\ Something(A) /\ Something(O) => m.supply < m.quantity

(* Each side is matched up to its next bid, which reaches beyond the other. *)
Matching(A, O, m) ==
  /\ m \in AnyMatch
  /\ m.i \in 1 .. Len(A) + 1 /\ m.j \in 1 .. Len(O) + 1
  /\ m.demand = Upto(A, m.i - 1) /\ m.supply = Upto(O, m.j - 1)
  /\ m.demand <= m.quantity /\ m.supply <= m.quantity
  /\ m.i <= Len(A) => m.supply <= Upto(A, m.i)
  /\ m.j <= Len(O) => m.demand <= Upto(O, m.j)
  /\ Something(A) /\ Something(O) => /\ m.i <= Len(A) => m.supply < Upto(A, m.i)
                                     /\ m.j <= Len(O) => m.demand < Upto(O, m.j)
  /\ m = Start \/ MetBoth(A, O, m) \/ BuyerLeft(A, O, m) \/ SellerLeft(A, O, m)

\* Before the first round nothing is matched.
LEMMA MatchingStart ==
  ASSUME NEW A \in Seq(AnyBid), NEW O \in Seq(AnyBid)
  PROVE  Matching(A, O, Start)
<1>1. /\ Start.i = 1 /\ Start.j = 1 /\ Start.demand = 0 /\ Start.supply = 0 /\ Start.quantity = 0
      /\ Start \in AnyMatch
  BY PriceAssumption DEF Start, AnyMatch
<1>2. /\ Len(A) \in Nat /\ Len(O) \in Nat /\ Upto(A, 0) = 0 /\ Upto(O, 0) = 0
  BY UptoFacts
<1>3. Len(A) >= 1 => Upto(A, 1) = A[1].quantity /\ A[1].quantity \in Nat
  BY <1>2, UptoFacts, BidFacts
<1>4. Len(O) >= 1 => Upto(O, 1) = O[1].quantity /\ O[1].quantity \in Nat
  BY <1>2, UptoFacts, BidFacts
<1> QED BY <1>1, <1>2, <1>3, <1>4 DEF Matching, Something

\* A round keeps what the matching means and gets one bid further.
LEMMA MatchingStep ==
  ASSUME NEW A \in Seq(AnyBid), NEW O \in Seq(AnyBid), NEW m, Matching(A, O, m), ~MatchEnds(A, O, m)
  PROVE  LET n == MatchStep(A, O, m)
         IN Matching(A, O, n) /\ n.i + n.j > m.i + m.j
<1> DEFINE n == MatchStep(A, O, m)
           i == m.i
           j == m.j
           d == Upto(A, i)
           s == Upto(O, j)
<1>1. /\ Len(A) \in Nat /\ Len(O) \in Nat /\ i \in 1 .. Len(A) /\ j \in 1 .. Len(O)
      /\ O[j].price <= A[i].price
  <2>1. Len(A) \in Nat /\ Len(O) \in Nat
    OBVIOUS
  <2>2. i \in 1 .. Len(A) /\ j \in 1 .. Len(O)
    BY <2>1 DEF Matching, MatchEnds
  <2>3. A[i].price \in Int /\ O[j].price \in Int
    BY <2>2, BidFacts
  <2> QED BY <2>1, <2>2, <2>3 DEF MatchEnds
<1>2. A[i].price \in Int /\ O[j].price \in Int /\ A[i].quantity \in Nat /\ O[j].quantity \in Nat
  BY <1>1, BidFacts
<1>3. /\ d \in Nat /\ s \in Nat
      /\ d = m.demand + A[i].quantity /\ s = m.supply + O[j].quantity
  BY <1>1, UptoFacts, SMTT(30) DEF Matching
<1>4. /\ m \in AnyMatch /\ m.demand \in Int /\ m.supply \in Int /\ m.quantity \in Int
      /\ m.demand <= s /\ m.supply <= d
      /\ m.demand = Upto(A, i - 1) /\ m.supply = Upto(O, j - 1)
      /\ Something(A) /\ Something(O) => m.supply < d /\ m.demand < s
  BY <1>1 DEF Matching, AnyMatch
<1>5. i + 1 <= Len(A) => /\ Upto(A, i + 1) = d + A[i + 1].quantity /\ A[i + 1].quantity \in Nat
                         /\ Something(A) => A[i + 1].quantity > 0
  <2> SUFFICES ASSUME i + 1 <= Len(A)
               PROVE  /\ Upto(A, i + 1) = d + A[i + 1].quantity /\ A[i + 1].quantity \in Nat
                      /\ Something(A) => A[i + 1].quantity > 0
    OBVIOUS
  <2>1. i + 1 \in 1 .. Len(A) /\ (i + 1) - 1 = i
    BY <1>1
  <2> QED BY <2>1, UptoFacts, BidFacts DEF Something
<1>6. j + 1 <= Len(O) => /\ Upto(O, j + 1) = s + O[j + 1].quantity /\ O[j + 1].quantity \in Nat
                         /\ Something(O) => O[j + 1].quantity > 0
  <2> SUFFICES ASSUME j + 1 <= Len(O)
               PROVE  /\ Upto(O, j + 1) = s + O[j + 1].quantity /\ O[j + 1].quantity \in Nat
                      /\ Something(O) => O[j + 1].quantity > 0
    OBVIOUS
  <2>1. j + 1 \in 1 .. Len(O) /\ (j + 1) - 1 = j
    BY <1>1
  <2> QED BY <2>1, UptoFacts, BidFacts DEF Something
<1>7. CASE d > s
  <2> DEFINE q == s
             y == j + 1
             p == A[i].price
  <2>1. n = [m EXCEPT !.supply = q, !.quantity = q, !.j = y, !.check = FALSE,
                      !.a = p, !.b = p, !.type = "buyer"]
    BY <1>1, <1>3, <1>7 DEF MatchStep
  <2> HIDE DEF n
  <2>2. /\ n \in AnyMatch
        /\ n.i = i /\ n.j = j + 1 /\ n.demand = m.demand /\ n.supply = s /\ n.quantity = s
        /\ n.a = A[i].price /\ n.b = A[i].price /\ ~n.check /\ n.type = "buyer"
    <3>1. q \in Int /\ y \in Int /\ p \in Int
      BY <1>1, <1>2, <1>3
    <3> HIDE DEF q, y, p
    <3>2. /\ n \in AnyMatch
          /\ n.i = m.i /\ n.j = y /\ n.demand = m.demand /\ n.supply = q /\ n.quantity = q
          /\ n.a = p /\ n.b = p /\ ~n.check /\ n.type = "buyer"
      BY <1>4, <2>1, <3>1 DEF AnyMatch
    <3> QED BY <3>2 DEF q, y, p
  <2>3. n.demand = Upto(A, n.i - 1) /\ n.supply = Upto(O, n.j - 1)
    BY <1>1, <1>4, <2>2
  <2>4. BuyerLeft(A, O, n)
    <3>1. O[n.j - 1].price <= n.a
      BY <1>1, <2>2
    <3> QED BY <1>1, <1>4, <1>7, <2>2, <3>1, SMTT(30) DEF BuyerLeft
  <2>5. n.j <= Len(O) => /\ n.demand <= Upto(O, n.j)
                         /\ Something(A) /\ Something(O) => n.demand < Upto(O, n.j)
    BY <1>3, <1>4, <1>6, <2>2
  <2>6. n.i \in 1 .. Len(A) + 1 /\ n.j \in 1 .. Len(O) + 1
    BY <1>1, <2>2
  <2>7. n.demand <= n.quantity /\ n.supply <= n.quantity
    BY <1>3, <1>4, <1>7, <2>2
  <2>8. n.i + n.j > i + j
    BY <1>1, <2>2
  <2>9. /\ n.i <= Len(A) => /\ n.supply <= Upto(A, n.i)
                            /\ Something(A) /\ Something(O) => n.supply < Upto(A, n.i)
        /\ n.j <= Len(O) => /\ n.demand <= Upto(O, n.j)
                            /\ Something(A) /\ Something(O) => n.demand < Upto(O, n.j)
    BY <1>3, <1>4, <1>7, <2>2, <2>5
  <2>10. Matching(A, O, n)
    BY <2>2, <2>3, <2>4, <2>6, <2>7, <2>9, Zenon DEF Matching
  <2> QED BY <2>8, <2>10 DEF n
<1>8. CASE d < s
  <2> DEFINE q == d
             x == i + 1
             p == O[j].price
  <2>1. n = [m EXCEPT !.demand = q, !.quantity = q, !.i = x, !.check = FALSE,
                      !.a = p, !.b = p, !.type = "seller"]
    BY <1>1, <1>3, <1>8 DEF MatchStep
  <2> HIDE DEF n
  <2>2. /\ n \in AnyMatch
        /\ n.i = i + 1 /\ n.j = j /\ n.demand = d /\ n.supply = m.supply /\ n.quantity = d
        /\ n.a = O[j].price /\ n.b = O[j].price /\ ~n.check /\ n.type = "seller"
    <3>1. q \in Int /\ x \in Int /\ p \in Int
      BY <1>1, <1>2, <1>3
    <3> HIDE DEF q, x, p
    <3>2. /\ n \in AnyMatch
          /\ n.i = x /\ n.j = m.j /\ n.demand = q /\ n.supply = m.supply /\ n.quantity = q
          /\ n.a = p /\ n.b = p /\ ~n.check /\ n.type = "seller"
      BY <1>4, <2>1, <3>1 DEF AnyMatch
    <3> QED BY <3>2 DEF q, x, p
  <2>3. n.demand = Upto(A, n.i - 1) /\ n.supply = Upto(O, n.j - 1)
    BY <1>1, <1>4, <2>2
  <2>4. SellerLeft(A, O, n)
    <3>1. n.a <= A[n.i - 1].price
      BY <1>1, <2>2
    <3> QED BY <1>1, <1>4, <1>8, <2>2, <3>1 DEF SellerLeft
  <2>5. n.i <= Len(A) => /\ n.supply <= Upto(A, n.i)
                         /\ Something(A) /\ Something(O) => n.supply < Upto(A, n.i)
    BY <1>3, <1>4, <1>5, <2>2
  <2>6. n.i \in 1 .. Len(A) + 1 /\ n.j \in 1 .. Len(O) + 1
    BY <1>1, <2>2
  <2>7. n.demand <= n.quantity /\ n.supply <= n.quantity
    BY <1>3, <1>4, <1>8, <2>2
  <2>8. n.i + n.j > i + j
    BY <1>1, <2>2
  <2>9. /\ n.i <= Len(A) => /\ n.supply <= Upto(A, n.i)
                            /\ Something(A) /\ Something(O) => n.supply < Upto(A, n.i)
        /\ n.j <= Len(O) => /\ n.demand <= Upto(O, n.j)
                            /\ Something(A) /\ Something(O) => n.demand < Upto(O, n.j)
    BY <1>3, <1>4, <1>8, <2>2, <2>5
  <2>10. Matching(A, O, n)
    BY <2>2, <2>3, <2>4, <2>6, <2>7, <2>9, Zenon DEF Matching
  <2> QED BY <2>8, <2>10 DEF n
<1>9. CASE d = s
  <2> DEFINE q == d
             x == i + 1
             y == j + 1
             p == A[i].price
             r == O[j].price
  <2>1. n = [m EXCEPT !.demand = q, !.supply = q, !.quantity = q, !.check = TRUE,
                      !.i = x, !.j = y, !.a = p, !.b = r]
    BY <1>1, <1>3, <1>9 DEF MatchStep
  <2> HIDE DEF n
  <2>2. /\ n \in AnyMatch
        /\ n.i = i + 1 /\ n.j = j + 1 /\ n.demand = d /\ n.supply = s /\ n.quantity = d
        /\ n.a = A[i].price /\ n.b = O[j].price /\ n.check
    <3>1. q \in Int /\ x \in Int /\ y \in Int /\ p \in Int /\ r \in Int
      BY <1>1, <1>2, <1>3
    <3> HIDE DEF q, x, y, p, r
    <3>2. /\ n \in AnyMatch
          /\ n.i = x /\ n.j = y /\ n.demand = q /\ n.supply = q /\ n.quantity = q
          /\ n.a = p /\ n.b = r /\ n.check
      BY <1>4, <2>1, <3>1 DEF AnyMatch
    <3> QED BY <1>9, <3>2 DEF q, x, y, p, r
  <2>3. n.demand = Upto(A, n.i - 1) /\ n.supply = Upto(O, n.j - 1)
    BY <1>1, <2>2
  <2>4. MetBoth(A, O, n)
    <3>1. n.i - 1 = i /\ n.j - 1 = j
      BY <1>1, <2>2
    <3> QED BY <1>1, <1>9, <2>2, <3>1 DEF MetBoth
  <2>5. /\ n.i <= Len(A) => /\ n.supply <= Upto(A, n.i)
                            /\ Something(A) /\ Something(O) => n.supply < Upto(A, n.i)
        /\ n.j <= Len(O) => /\ n.demand <= Upto(O, n.j)
                            /\ Something(A) /\ Something(O) => n.demand < Upto(O, n.j)
    BY <1>3, <1>5, <1>6, <1>9, <2>2
  <2>6. n.i \in 1 .. Len(A) + 1 /\ n.j \in 1 .. Len(O) + 1
    BY <1>1, <2>2, SMTT(30)
  <2>7. n.demand <= n.quantity /\ n.supply <= n.quantity
    BY <1>3, <1>9, <2>2
  <2>8. n.i + n.j > i + j
    BY <1>1, <2>2
  <2>9. /\ n.i <= Len(A) => /\ n.supply <= Upto(A, n.i)
                            /\ Something(A) /\ Something(O) => n.supply < Upto(A, n.i)
        /\ n.j <= Len(O) => /\ n.demand <= Upto(O, n.j)
                            /\ Something(A) /\ Something(O) => n.demand < Upto(O, n.j)
    BY <1>3, <1>9, <2>2, <2>5
  <2>10. Matching(A, O, n)
    BY <2>2, <2>3, <2>4, <2>6, <2>7, <2>9, Zenon DEF Matching
  <2> QED BY <2>8, <2>10 DEF n
<1> QED BY <1>3, <1>7, <1>8, <1>9

(* The rounds that Match goes through. *)
IsRun(A, O, n, run) == run = [k \in 0 .. n |-> IF k = 0 THEN Start ELSE MatchStep(A, O, run[k - 1])]

\* The rounds make a function.
LEMMA RunExists ==
  ASSUME NEW A, NEW O
  PROVE  \A n \in Nat : \E run : IsRun(A, O, n, run)
<1> DEFINE S == {n \in Nat : \E run : IsRun(A, O, n, run)}
<1>1. 0 \in S
  <2>1. IsRun(A, O, 0, [k \in 0 .. 0 |-> Start])
    BY DEF IsRun
  <2> QED BY <2>1
<1>2. ASSUME NEW n \in Nat, n \in S PROVE n + 1 \in S
  <2>1. PICK s : IsRun(A, O, n, s)
    BY <1>2
  <2> DEFINE t == [k \in 0 .. n + 1 |-> IF k = n + 1 THEN MatchStep(A, O, s[n]) ELSE s[k]]
  <2>2. ASSUME NEW k \in 0 .. n + 1
        PROVE  t[k] = IF k = 0 THEN Start ELSE MatchStep(A, O, t[k - 1])
    <3>1. CASE k = n + 1
      <4>1. t[k - 1] = s[n]
        BY <3>1
      <4> QED BY <3>1, <4>1
    <3>2. CASE k # n + 1
      <4>1. k \in 0 .. n /\ t[k] = s[k] /\ (k # 0 => k - 1 \in 0 .. n /\ t[k - 1] = s[k - 1])
        BY <3>2
      <4>2. s[k] = IF k = 0 THEN Start ELSE MatchStep(A, O, s[k - 1])
        BY <2>1, <4>1 DEF IsRun
      <4> QED BY <4>1, <4>2
    <3> QED BY <3>1, <3>2
  <2>3. IsRun(A, O, n + 1, t)
    BY <2>2, Zenon DEF IsRun
  <2> QED BY <2>3
<1> HIDE DEF S
<1>3. \A n \in Nat : n \in S
  BY <1>1, <1>2, AllNumbers
<1> QED BY <1>3 DEF S

\* The matching goes on for as long as two bids meet.
LEMMA MatchFacts ==
  ASSUME NEW A \in Seq(AnyBid), NEW O \in Seq(AnyBid)
  PROVE  Matching(A, O, Match(A, O)) /\ MatchEnds(A, O, Match(A, O))
<1> DEFINE n == Len(A) + Len(O)
<1>1. Len(A) \in Nat /\ Len(O) \in Nat /\ n \in Nat
  OBVIOUS
<1>2. PICK run : IsRun(A, O, n, run) /\ Match(A, O) = run[n]
  <2>1. Match(A, O) = (CHOOSE run : IsRun(A, O, n, run))[n]
    BY DEF Match, IsRun
  <2>2. IsRun(A, O, n, CHOOSE run : IsRun(A, O, n, run))
    BY <1>1, RunExists
  <2> QED BY <2>1, <2>2
<1> DEFINE S == {k \in Nat : k <= n => /\ Matching(A, O, run[k])
                                       /\ \/ MatchEnds(A, O, run[k])
                                          \/ run[k].i + run[k].j >= k + 2}
<1>3. 0 \in S
  <2>1. run[0] = Start
    BY <1>1, <1>2 DEF IsRun
  <2>2. Start.i = 1 /\ Start.j = 1
    BY DEF Start
  <2> QED BY <2>1, <2>2, MatchingStart
<1>4. ASSUME NEW k \in Nat, k \in S PROVE k + 1 \in S
  <2> SUFFICES ASSUME k + 1 <= n
               PROVE  /\ Matching(A, O, run[k + 1])
                      /\ \/ MatchEnds(A, O, run[k + 1])
                         \/ run[k + 1].i + run[k + 1].j >= (k + 1) + 2
    OBVIOUS
  <2> HIDE DEF n
  <2>1. run[k + 1] = MatchStep(A, O, run[k])
    BY <1>1, <1>2 DEF IsRun
  <2>2. /\ Matching(A, O, run[k])
        /\ MatchEnds(A, O, run[k]) \/ run[k].i + run[k].j >= k + 2
    BY <1>1, <1>4
  <2>3. CASE MatchEnds(A, O, run[k])
    BY <2>1, <2>2, <2>3 DEF MatchStep
  <2>4. CASE ~MatchEnds(A, O, run[k])
    <3>1. /\ Matching(A, O, run[k + 1])
          /\ run[k + 1].i + run[k + 1].j > run[k].i + run[k].j
      BY <2>1, <2>2, <2>4, MatchingStep
    <3>2. /\ run[k].i \in Int /\ run[k].j \in Int
          /\ run[k + 1].i \in Int /\ run[k + 1].j \in Int
      BY <2>2, <3>1 DEF Matching, AnyMatch
    <3> QED BY <2>2, <2>4, <3>1, <3>2, SMTT(30)
  <2> QED BY <2>3, <2>4
<1> HIDE DEF S
<1>5. \A k \in Nat : k \in S
  BY <1>3, <1>4, AllNumbers
<1>6. /\ Matching(A, O, run[n])
      /\ MatchEnds(A, O, run[n]) \/ run[n].i + run[n].j >= n + 2
  BY <1>1, <1>5 DEF S
<1>7. MatchEnds(A, O, run[n])
  <2>1. run[n].i \in 1 .. Len(A) + 1 /\ run[n].j \in 1 .. Len(O) + 1
    BY <1>6 DEF Matching
  <2> QED BY <1>1, <1>6, <2>1 DEF MatchEnds
<1> QED BY <1>2, <1>6, <1>7

---------------------------------------------------------------------------
(* What is traded                                                          *)

\* Which number is the largest.
LEMMA MaxIs ==
  ASSUME NEW S \in SUBSET Int, NEW m \in S, \A x \in S : x <= m
  PROVE  Max(S) = m
<1>1. \E x \in S : \A y \in S : x >= y
  OBVIOUS
<1>2. Max(S) \in S /\ \A y \in S : Max(S) >= y
  BY <1>1 DEF Max
<1>3. Max(S) >= m /\ Max(S) <= m /\ Max(S) \in Int
  BY <1>2
<1> QED BY <1>3

\* Which of two numbers is the smaller.
LEMMA MinOf ==
  ASSUME NEW a \in Int, NEW b \in Int
  PROVE  /\ Min({a, b}) \in Int /\ Min({a, b}) <= a /\ Min({a, b}) <= b
         /\ Min({a, b}) \in {a, b}
<1>1. \E x \in {a, b} : \A y \in {a, b} : x =< y
  OBVIOUS
<1>2. Min({a, b}) \in {a, b} /\ \A y \in {a, b} : Min({a, b}) =< y
  BY <1>1 DEF Min
<1> QED BY <1>2

AtLeast(p) == {x \in Int : x >= p}
AtMost(p) == {x \in Int : x <= p}

\* What the heard bids ask for and offer at a price is what the sorted do.
LEMMA HeardSorted ==
  ASSUME NEW bk \in [asks : AnyCurve, offers : AnyCurve], NEW p \in Int
  PROVE  /\ Demand(bk, p) = Priced(Falling(bk.asks), AtLeast(p))
         /\ Supply(bk, p) = Priced(Rising(bk.offers), AtMost(p))
         /\ Demand(bk, p) \in Nat /\ Supply(bk, p) \in Nat
<1>1. ASSUME NEW c \in AnyCurve
      PROVE  /\ Quantity(c.bids, LAMBDA bid : bid.price >= p) = Priced(c.bids, AtLeast(p))
             /\ Quantity(c.bids, LAMBDA bid : bid.price <= p) = Priced(c.bids, AtMost(p))
             /\ Priced(c.bids, AtLeast(p)) \in Nat /\ Priced(c.bids, AtMost(p)) \in Nat
  <2> DEFINE bids == c.bids
             n == Len(bids)
             f1 == [k \in 1 .. n |-> IF bids[k].price >= p THEN bids[k].quantity ELSE 0]
             f2 == [k \in 1 .. n |-> IF bids[k].price <= p THEN bids[k].quantity ELSE 0]
             g1 == [k \in 1 .. n |-> IF bids[k].price \in AtLeast(p) THEN bids[k].quantity ELSE 0]
             g2 == [k \in 1 .. n |-> IF bids[k].price \in AtMost(p) THEN bids[k].quantity ELSE 0]
  <2>1. bids \in Seq(AnyBid)
    BY DEF AnyCurve
  <2> HIDE DEF bids
  <2>2. n \in Nat /\ \A k \in 1 .. n : bids[k].price \in Int
    BY <2>1, BidFacts
  <2>3. /\ Quantity(bids, LAMBDA bid : bid.price >= p) = SumTo(f1, n)
        /\ Quantity(bids, LAMBDA bid : bid.price <= p) = SumTo(f2, n)
        /\ Priced(bids, AtLeast(p)) = SumTo(g1, n) /\ Priced(bids, AtMost(p)) = SumTo(g2, n)
    BY DEF Priced, Quantity
  <2>4. (\A k \in 1 .. n : f1[k] = g1[k]) /\ (\A k \in 1 .. n : f2[k] = g2[k])
    BY <2>2 DEF AtLeast, AtMost
  <2>5. 0 \in 0 .. Len(bids)
    BY <2>2
  <2>6. Priced(bids, AtLeast(p)) \in Nat /\ Priced(bids, AtMost(p)) \in Nat
    BY <2>1, <2>5, PricedBounds
  <2> HIDE DEF f1, f2, g1, g2, n
  <2>7. SumTo(f1, n) = SumTo(g1, n) /\ SumTo(f2, n) = SumTo(g2, n)
    BY <2>2, <2>4, SumSame
  <2> QED BY <2>3, <2>6, <2>7 DEF bids
<1>2. bk.asks \in AnyCurve /\ bk.offers \in AnyCurve
  OBVIOUS
<1>3. Demand(bk, p) = Priced(bk.asks.bids, AtLeast(p)) /\ Supply(bk, p) = Priced(bk.offers.bids, AtMost(p))
  BY <1>1, <1>2 DEF Demand, Supply
<1>4. /\ Priced(Falling(bk.asks), AtLeast(p)) = Priced(bk.asks.bids, AtLeast(p))
      /\ Priced(Rising(bk.offers), AtMost(p)) = Priced(bk.offers.bids, AtMost(p))
  BY <1>2, FallingFacts, RisingFacts
<1> QED BY <1>1, <1>2, <1>3, <1>4

\* The asks down to a price and the offers up to it, told from the bids there.
LEMMA AskBounds ==
  ASSUME NEW A \in Seq(AnyBid), Descending(A), NEW k \in 0 .. Len(A), NEW p \in Int
  PROVE  /\ Upto(A, k) \in Nat /\ Priced(A, AtLeast(p)) \in Nat
         /\ (k = 0 \/ A[k].price >= p) => Upto(A, k) <= Priced(A, AtLeast(p))
         /\ (k = Len(A) \/ A[k + 1].price < p) => Priced(A, AtLeast(p)) <= Upto(A, k)
<1>1. Len(A) \in Nat /\ \A h \in 1 .. Len(A) : A[h].price \in Int
  BY BidFacts
<1>2. ASSUME k = 0 \/ A[k].price >= p, NEW h \in 1 .. k PROVE A[h].price \in AtLeast(p)
  <2>1. h \in 1 .. Len(A) /\ k \in 1 .. Len(A) /\ h <= k
    BY <1>1
  <2>2. A[h].price >= A[k].price /\ A[h].price \in Int /\ A[k].price \in Int /\ A[k].price >= p
    BY <1>1, <1>2, <2>1 DEF Descending
  <2> QED BY <2>2 DEF AtLeast
<1>3. ASSUME k = Len(A) \/ A[k + 1].price < p, NEW h \in k + 1 .. Len(A)
      PROVE  A[h].price \notin AtLeast(p)
  <2>1. h \in 1 .. Len(A) /\ k + 1 \in 1 .. Len(A) /\ k + 1 <= h /\ k # Len(A)
    BY <1>1
  <2>2. /\ A[h].price <= A[k + 1].price /\ A[h].price \in Int /\ A[k + 1].price \in Int
        /\ A[k + 1].price < p
    BY <1>1, <1>3, <2>1 DEF Descending
  <2> QED BY <2>2 DEF AtLeast
<1>4. /\ Upto(A, k) \in Nat /\ Priced(A, AtLeast(p)) \in Nat
      /\ (\A h \in 1 .. k : A[h].price \in AtLeast(p)) => Upto(A, k) <= Priced(A, AtLeast(p))
      /\ (\A h \in k + 1 .. Len(A) : A[h].price \notin AtLeast(p)) =>
           Priced(A, AtLeast(p)) <= Upto(A, k)
  BY PricedBounds
<1> QED BY <1>2, <1>3, <1>4

\* The offers up to a price, told from the offers around the place k.
LEMMA OfferBounds ==
  ASSUME NEW O \in Seq(AnyBid), Ascending(O), NEW k \in 0 .. Len(O), NEW p \in Int
  PROVE  /\ Upto(O, k) \in Nat /\ Priced(O, AtMost(p)) \in Nat
         /\ (k = 0 \/ O[k].price <= p) => Upto(O, k) <= Priced(O, AtMost(p))
         /\ (k = Len(O) \/ O[k + 1].price > p) => Priced(O, AtMost(p)) <= Upto(O, k)
<1>1. Len(O) \in Nat /\ \A h \in 1 .. Len(O) : O[h].price \in Int
  BY BidFacts
<1>2. ASSUME k = 0 \/ O[k].price <= p, NEW h \in 1 .. k PROVE O[h].price \in AtMost(p)
  <2>1. h \in 1 .. Len(O) /\ k \in 1 .. Len(O) /\ h <= k
    BY <1>1
  <2>2. O[h].price <= O[k].price /\ O[h].price \in Int /\ O[k].price \in Int /\ O[k].price <= p
    BY <1>1, <1>2, <2>1 DEF Ascending
  <2> QED BY <2>2 DEF AtMost
<1>3. ASSUME k = Len(O) \/ O[k + 1].price > p, NEW h \in k + 1 .. Len(O)
      PROVE  O[h].price \notin AtMost(p)
  <2>1. h \in 1 .. Len(O) /\ k + 1 \in 1 .. Len(O) /\ k + 1 <= h /\ k # Len(O)
    BY <1>1
  <2>2. /\ O[h].price >= O[k + 1].price /\ O[h].price \in Int /\ O[k + 1].price \in Int
        /\ O[k + 1].price > p
    BY <1>1, <1>3, <2>1 DEF Ascending
  <2> QED BY <2>2 DEF AtMost
<1>4. /\ Upto(O, k) \in Nat /\ Priced(O, AtMost(p)) \in Nat
      /\ (\A h \in 1 .. k : O[h].price \in AtMost(p)) => Upto(O, k) <= Priced(O, AtMost(p))
      /\ (\A h \in k + 1 .. Len(O) : O[h].price \notin AtMost(p)) =>
           Priced(O, AtMost(p)) <= Upto(O, k)
  BY PricedBounds
<1> QED BY <1>2, <1>3, <1>4

\* No price lets more change hands than is matched, and that of the last ask
\* that is matched lets as much.
LEMMA MatchMost ==
  ASSUME NEW A \in Seq(AnyBid), NEW O \in Seq(AnyBid), Descending(A), Ascending(O),
         NEW m, Matching(A, O, m), MatchEnds(A, O, m)
  PROVE  /\ \A p \in Int : \/ Priced(A, AtLeast(p)) <= m.quantity
                           \/ Priced(O, AtMost(p)) <= m.quantity
         /\ \/ m.quantity = 0
            \/ \E k \in 1 .. Len(A) : /\ m.quantity <= Priced(A, AtLeast(A[k].price))
                                      /\ m.quantity <= Priced(O, AtMost(A[k].price))
<1> DEFINE i == m.i
           j == m.j
<1>1. /\ Len(A) \in Nat /\ Len(O) \in Nat /\ i \in 1 .. Len(A) + 1 /\ j \in 1 .. Len(O) + 1
      /\ i - 1 \in 0 .. Len(A) /\ j - 1 \in 0 .. Len(O)
      /\ m.demand = Upto(A, i - 1) /\ m.supply = Upto(O, j - 1)
      /\ m.demand <= m.quantity /\ m.supply <= m.quantity
      /\ m.demand \in Int /\ m.supply \in Int /\ m.quantity \in Int
  BY DEF Matching, AnyMatch
<1>2. /\ \A k \in 1 .. Len(A) : A[k].price \in Int
      /\ \A k \in 1 .. Len(O) : O[k].price \in Int
  BY BidFacts
<1>3. ASSUME NEW p \in Int
      PROVE  Priced(A, AtLeast(p)) <= m.quantity \/ Priced(O, AtMost(p)) <= m.quantity
  <2>1. (i - 1) + 1 = i /\ (j - 1) + 1 = j
    <3>1. i \in Int /\ j \in Int
      BY <1>1
    <3> HIDE DEF i, j
    <3> QED BY <3>1
  <2>2. CASE i > Len(A) \/ (i <= Len(A) /\ A[i].price < p)
    <3>1. Priced(A, AtLeast(p)) \in Nat /\ Priced(A, AtLeast(p)) <= Upto(A, i - 1)
      <4>1. i - 1 = Len(A) \/ A[(i - 1) + 1].price < p
        BY <1>1, <2>1, <2>2
      <4> QED BY <1>1, <4>1, AskBounds
    <3> QED BY <1>1, <3>1
  <2>3. CASE j > Len(O) \/ (j <= Len(O) /\ O[j].price > p)
    <3>1. Priced(O, AtMost(p)) \in Nat /\ Priced(O, AtMost(p)) <= Upto(O, j - 1)
      <4>1. j - 1 = Len(O) \/ O[(j - 1) + 1].price > p
        BY <1>1, <2>1, <2>3, SMTT(30)
      <4> QED BY <1>1, <4>1, OfferBounds
    <3> QED BY <1>1, <3>1
  <2>4. CASE i \in 1 .. Len(A) /\ j \in 1 .. Len(O) /\ A[i].price < O[j].price
    <3>1. A[i].price < p \/ O[j].price > p
      BY <1>2, <2>4
    <3> QED BY <1>1, <2>2, <2>3, <2>4, <3>1
  <2> QED BY <1>1, <2>2, <2>3, <2>4, SMTT(30) DEF MatchEnds
\* The last bids that met are good for what was matched.
<1>4. ASSUME NEW k \in 1 .. Len(A), NEW l \in 1 .. Len(O), O[l].price <= A[k].price,
             m.quantity <= Upto(A, k), m.quantity <= Upto(O, l)
      PROVE  /\ m.quantity <= Priced(A, AtLeast(A[k].price))
             /\ m.quantity <= Priced(O, AtMost(A[k].price))
  <2> DEFINE p == A[k].price
  <2>1. p \in Int
    BY <1>2
  <2>2. k \in 0 .. Len(A) /\ l \in 0 .. Len(O) /\ A[k].price >= p
    BY <1>2
  <2> HIDE DEF p
  <2>5. /\ Upto(A, k) <= Priced(A, AtLeast(p)) /\ Upto(A, k) \in Nat
        /\ Priced(A, AtLeast(p)) \in Nat
    BY <2>1, <2>2, AskBounds
  <2>6. /\ Upto(O, l) <= Priced(O, AtMost(p)) /\ Upto(O, l) \in Nat
        /\ Priced(O, AtMost(p)) \in Nat
    <3>1. O[l].price <= p
      BY <1>4 DEF p
    <3> QED BY <2>1, <2>2, <3>1, OfferBounds
  <2>7. m.quantity \in Int /\ m.quantity <= Upto(A, k) /\ m.quantity <= Upto(O, l)
    BY <1>1, <1>4
  <2>8. m.quantity <= Priced(A, AtLeast(p)) /\ m.quantity <= Priced(O, AtMost(p))
    BY <2>5, <2>6, <2>7
  <2> QED BY <2>8 DEF p
<1>5. CASE m = Start
  BY <1>3, <1>5 DEF Start
<1>6. CASE MetBoth(A, O, m)
  <2>1. /\ i - 1 \in 1 .. Len(A) /\ j - 1 \in 1 .. Len(O) /\ O[j - 1].price <= A[i - 1].price
        /\ m.quantity <= Upto(A, i - 1) /\ m.quantity <= Upto(O, j - 1)
    BY <1>1, <1>6 DEF MetBoth
  <2> QED BY <1>3, <1>4, <2>1
<1>7. CASE BuyerLeft(A, O, m)
  <2>1. /\ i \in 1 .. Len(A) /\ j - 1 \in 1 .. Len(O) /\ O[j - 1].price <= A[i].price
        /\ Upto(A, i) \in Nat
    BY <1>1, <1>7, UptoFacts, SMTT(30) DEF BuyerLeft
  <2>2. m.quantity <= Upto(A, i) /\ m.quantity <= Upto(O, j - 1)
    BY <1>1, <1>7, <2>1 DEF BuyerLeft
  <2> QED BY <1>3, <1>4, <2>1, <2>2
<1>8. CASE SellerLeft(A, O, m)
  <2>1. /\ i - 1 \in 1 .. Len(A) /\ j \in 1 .. Len(O) /\ O[j].price <= A[i - 1].price
        /\ Upto(O, j) \in Nat
    BY <1>1, <1>8, UptoFacts, SMTT(30) DEF SellerLeft
  <2>2. m.quantity <= Upto(A, i - 1) /\ m.quantity <= Upto(O, j)
    BY <1>1, <1>8, <2>1 DEF SellerLeft
  <2> QED BY <1>3, <1>4, <2>1, <2>2
<1> QED BY <1>3, <1>5, <1>6, <1>7, <1>8 DEF Matching

Books == [asks : AnyCurve, offers : AnyCurve]
TotalsOf(bk) == CurveTotals(bk.asks) /\ CurveTotals(bk.offers)

\* A bid of the market itself keeps the books and their totals.
LEMMA NewBidBooks ==
  ASSUME NEW bk \in Books, TotalsOf(bk), NEW q \in Int, NEW p \in Int
  PROVE  LET new == NewBid(bk, None, q, p, "on") IN new \in Books /\ TotalsOf(new)
<1> DEFINE bid == BidOf(None, q, p, "on")
           new == NewBid(bk, None, q, p, "on")
<1>1. bid \in AnyBid
  BY PriceAssumption DEF BidOf, AnyBid, AnyPrice, Abs, Capped
<1>2. bk.asks \in AnyCurve /\ bk.offers \in AnyCurve
  BY DEF Books
<1>3. CASE Ignored(q) \/ q = 0
  <2>1. new = bk
    BY <1>3 DEF NewBid, Ignored
  <2> QED BY <2>1
<1>4. CASE ~Ignored(q) /\ q < 0
  <2>1. new = [bk EXCEPT !.asks = CurveSubmit(bk.asks, bid)]
    BY <1>4 DEF NewBid
  <2>2. CurveSubmit(bk.asks, bid) \in AnyCurve /\ CurveTotals(CurveSubmit(bk.asks, bid))
    BY <1>1, <1>2, SubmitCurve, TotalsSubmit DEF TotalsOf
  <2> QED BY <1>2, <2>1, <2>2 DEF Books, TotalsOf
<1>5. CASE ~Ignored(q) /\ q > 0
  <2>1. new = [bk EXCEPT !.offers = CurveSubmit(bk.offers, bid)]
    BY <1>5 DEF NewBid
  <2>2. CurveSubmit(bk.offers, bid) \in AnyCurve /\ CurveTotals(CurveSubmit(bk.offers, bid))
    BY <1>1, <1>2, SubmitCurve, TotalsSubmit DEF TotalsOf
  <2> QED BY <1>2, <2>1, <2>2 DEF Books, TotalsOf
<1> QED BY <1>3, <1>4, <1>5

\* The mode and the load are what they may be, and so are the bids.
BidsInv == KeyInv /\ TotalsInv /\ mode \in Modes /\ load \in RefLoads

\* What is heard in the clearing is a book whose totals are right.
LEMMA HeardBooks ==
  ASSUME BidsInv
  PROVE  Heard \in Books /\ TotalsOf(Heard)
<1> DEFINE unknown == book.asks.total - book.asks.on - book.asks.off
           rest == load - book.asks.on - unknown \div 2
           bk1 == IF rest > 0 THEN NewBid(book, None, -rest, Cap, "on") ELSE book
<1>1. book \in Books /\ TotalsOf(book)
  BY DEF BidsInv, KeyInv, TotalsInv, Side, Books, TotalsOf
<1>2. rest \in Int
  <2>1. book.asks.total \in Int /\ book.asks.on \in Int /\ book.asks.off \in Int
    BY <1>1 DEF Books, AnyCurve
  <2>2. load \in Int
    BY MarketAssumption DEF BidsInv
  <2> QED BY <2>1, <2>2
<1> HIDE DEF rest
<1>3. bk1 \in Books /\ TotalsOf(bk1)
  <2>1. -rest \in Int /\ Cap \in Int
    BY <1>2, PriceAssumption
  <2> QED BY <1>1, <2>1, NewBidBooks
<1> HIDE DEF bk1
<1>4. LET new == NewBid(bk1, None, RefQuantity, RefPrice, "on") IN new \in Books /\ TotalsOf(new)
  BY <1>3, NewBidBooks, MarketAssumption
<1>5. WithReference(book) = IF mode.special = "none" /\ mode.reference = "bids"
                              THEN NewBid(bk1, None, RefQuantity, RefPrice, "on") ELSE bk1
  BY DEF WithReference, bk1, rest
<1> QED BY <1>1, <1>3, <1>4, <1>5 DEF Heard

\* The quantity of a market with both sides is the one that was matched, and
\* nothing without one of the sides.
LEMMA TradedQuantity ==
  ASSUME NEW bk \in Books, NEW stale, NEW r, mode.special \notin {"sellers", "buyers"},
         r = Result(Falling(bk.asks), Rising(bk.offers), stale)
  PROVE  r.quantity = Max({Min({Demand(bk, p), Supply(bk, p)}) : p \in BidPrices(bk)} \cup {0})
<1> DEFINE A == Falling(bk.asks)
           O == Rising(bk.offers)
           T == {Min({Demand(bk, p), Supply(bk, p)}) : p \in BidPrices(bk)} \cup {0}
<1>1. /\ bk.asks \in AnyCurve /\ bk.offers \in AnyCurve
      /\ bk \in [asks : AnyCurve, offers : AnyCurve]
  BY DEF Books
<1>2. /\ A \in Seq(AnyBid) /\ O \in Seq(AnyBid) /\ Descending(A) /\ Ascending(O)
      /\ ToSet(A) = ToSet(bk.asks.bids) /\ ToSet(O) = ToSet(bk.offers.bids)
  BY <1>1, FallingFacts, RisingFacts DEF Descending, Ascending
<1>3. BidPrices(bk) = {bid.price : bid \in ToSet(A) \cup ToSet(O)}
  BY <1>2 DEF BidPrices
<1>4. \A p \in BidPrices(bk) : p \in Int
  <2>1. \A bid \in ToSet(A) \cup ToSet(O) : bid.price \in Int
    BY <1>2, BidFacts DEF ToSet
  <2> QED BY <1>3, <2>1
<1>5. \A p \in Int : /\ Demand(bk, p) = Priced(A, AtLeast(p)) /\ Supply(bk, p) = Priced(O, AtMost(p))
                     /\ Demand(bk, p) \in Nat /\ Supply(bk, p) \in Nat
  BY <1>1, HeardSorted
<1>6. r = IF A # <<>> /\ O # <<>> THEN DoubleAuction(A, O, stale) ELSE NoAuction(A, O)
  BY DEF Result
<1> HIDE DEF A, O
<1>7. T \in SUBSET Int
  <2>1. ASSUME NEW p \in BidPrices(bk) PROVE Min({Demand(bk, p), Supply(bk, p)}) \in Int
    <3>1. Demand(bk, p) \in Int /\ Supply(bk, p) \in Int
      BY <1>4, <1>5
    <3> QED BY <3>1, MinOf
  <2>2. ASSUME NEW x \in T, x # 0 PROVE x \in Int
    <3>1. PICK p \in BidPrices(bk) : x = Min({Demand(bk, p), Supply(bk, p)})
      BY <2>2
    <3> QED BY <2>1, <3>1
  <2> HIDE DEF T
  <2> QED BY <2>2
<1>8. CASE A # <<>> /\ O # <<>>
  <2> DEFINE m == Match(A, O)
  <2>1. r.quantity = m.quantity
    <3>1. r = DoubleAuction(A, O, stale)
      BY <1>6, <1>8
    <3> HIDE DEF m
    <3>2. DoubleAuction(A, O, stale).quantity = m.quantity
      BY DEF DoubleAuction, Matched, m
    <3> QED BY <3>1, <3>2
  <2>2. Matching(A, O, m) /\ MatchEnds(A, O, m)
    BY <1>2, MatchFacts
  <2> HIDE DEF m
  <2>3. /\ \A p \in Int : Priced(A, AtLeast(p)) <= m.quantity \/ Priced(O, AtMost(p)) <= m.quantity
        /\ \/ m.quantity = 0
           \/ \E k \in 1 .. Len(A) : /\ m.quantity <= Priced(A, AtLeast(A[k].price))
                                     /\ m.quantity <= Priced(O, AtMost(A[k].price))
    BY <1>2, <2>2, MatchMost
  <2>4. m.quantity \in Int /\ 0 <= m.quantity
    <3>1. m.quantity \in Int /\ m.demand \in Int /\ m.demand <= m.quantity /\ m.demand = Upto(A, m.i - 1)
          /\ m.i - 1 \in 0 .. Len(A)
      BY <1>2, <2>2 DEF Matching, AnyMatch
    <3>2. Upto(A, m.i - 1) \in Nat
      BY <1>2, <3>1, UptoFacts
    <3> QED BY <3>1, <3>2
  <2>5. ASSUME NEW x \in T PROVE x <= m.quantity
    <3>1. CASE x = 0
      BY <2>4, <3>1
    <3>2. CASE x # 0
      <4>1. PICK p \in BidPrices(bk) : x = Min({Demand(bk, p), Supply(bk, p)})
        BY <3>2
      <4>2. /\ Demand(bk, p) \in Int /\ Supply(bk, p) \in Int
            /\ Demand(bk, p) <= m.quantity \/ Supply(bk, p) <= m.quantity
        <5>1. p \in Int
          BY <1>4
        <5>2. /\ Demand(bk, p) = Priced(A, AtLeast(p)) /\ Supply(bk, p) = Priced(O, AtMost(p))
              /\ Demand(bk, p) \in Nat /\ Supply(bk, p) \in Nat
          BY <1>5, <5>1
        <5>3. Priced(A, AtLeast(p)) <= m.quantity \/ Priced(O, AtMost(p)) <= m.quantity
          BY <2>3, <5>1
        <5> QED BY <5>2, <5>3
      <4>3. x <= Demand(bk, p) /\ x <= Supply(bk, p) /\ x \in Int
        BY <4>1, <4>2, MinOf
      <4> QED BY <2>4, <4>2, <4>3
    <3> QED BY <3>1, <3>2
  <2>6. m.quantity \in T
    <3>1. CASE m.quantity = 0
      BY <3>1
    <3>2. CASE m.quantity # 0
      <4>1. PICK k \in 1 .. Len(A) : /\ m.quantity <= Priced(A, AtLeast(A[k].price))
                                     /\ m.quantity <= Priced(O, AtMost(A[k].price))
        BY <2>3, <3>2
      <4> DEFINE p == A[k].price
                 x == Min({Demand(bk, p), Supply(bk, p)})
      <4>2. p \in BidPrices(bk)
        <5>1. A[k] \in ToSet(A)
          BY <1>2 DEF ToSet
        <5> QED BY <1>3, <5>1
      <4>3. x \in T /\ p \in Int
        BY <1>4, <4>2
      <4>4. /\ Demand(bk, p) \in Int /\ Supply(bk, p) \in Int
            /\ m.quantity <= Demand(bk, p) /\ m.quantity <= Supply(bk, p)
        BY <1>5, <4>1, <4>3
      <4> HIDE DEF p
      <4>5. x \in {Demand(bk, p), Supply(bk, p)}
        BY <4>4, MinOf
      <4>6. m.quantity <= x /\ x <= m.quantity /\ x \in Int
        BY <2>5, <4>3, <4>4, <4>5
      <4> HIDE DEF x
      <4>7. m.quantity = x
        BY <2>4, <4>6
      <4> QED BY <4>3, <4>7
    <3> QED BY <3>1, <3>2
  <2> HIDE DEF T
  <2>7. Max(T) = m.quantity
    BY <1>7, <2>5, <2>6, MaxIs
  <2> QED BY <2>1, <2>7 DEF T
<1>9. CASE A = <<>> \/ O = <<>>
  <2>1. r.quantity = 0
    <3>1. r = NoAuction(A, O)
      BY <1>6, <1>9
    <3>2. NoAuction(A, O).quantity = 0
      BY DEF NoAuction
    <3> QED BY <3>1, <3>2
  <2>2. ASSUME NEW p \in Int PROVE Demand(bk, p) = 0 \/ Supply(bk, p) = 0
    <3>1. \A bids \in {A, O} : \A P : bids = <<>> => Priced(bids, P) = 0
      <4> TAKE bids \in {A, O}
      <4> TAKE P
      <4> HAVE bids = <<>>
      <4>1. Len(bids) = 0
        OBVIOUS
      <4> QED BY <4>1, SumFacts DEF Priced, Quantity
    <3> QED BY <1>5, <1>9, <3>1
  <2>3. ASSUME NEW x \in T PROVE x <= 0
    <3>1. CASE x = 0
      BY <3>1
    <3>2. CASE x # 0
      <4>1. PICK p \in BidPrices(bk) : x = Min({Demand(bk, p), Supply(bk, p)})
        BY <3>2
      <4>2. /\ Demand(bk, p) \in Int /\ Supply(bk, p) \in Int
            /\ Demand(bk, p) = 0 \/ Supply(bk, p) = 0
        BY <1>4, <1>5, <2>2
      <4>3. x <= Demand(bk, p) /\ x <= Supply(bk, p) /\ x \in Int
        BY <4>1, <4>2, MinOf
      <4> QED BY <4>2, <4>3
    <3> QED BY <3>1, <3>2
  <2>4. 0 \in T
    OBVIOUS
  <2> HIDE DEF T
  <2>5. Max(T) = 0
    BY <1>7, <2>3, <2>4, MaxIs
  <2> QED BY <2>1, <2>5 DEF T
<1> QED BY <1>8, <1>9

\* Every step keeps the bids, their totals and the mode.
LEMMA BidsInvStep ==
  ASSUME BidsInv, [Next]_vars
  PROVE  BidsInv'
<1>1. KeyInv' /\ TotalsInv'
  BY KeyInvStep, TotalsStep DEF BidsInv
<1>2. mode' \in Modes /\ load' \in RefLoads
  BY DEF BidsInv, Next, SubmitNew, SubmitAgain, FirstPresync, ClearMarket, ClearThrows,
             Tick, vars
<1> QED BY <1>1, <1>2 DEF BidsInv

\* A market opens when the one before has been cleared.
LEMMA ClearsOnly ==
  ASSUME [Next]_vars, market' # market
  PROVE  ClearMarket
BY DEF Next, SubmitNew, SubmitAgain, FirstPresync, ClearThrows, Tick, vars

\* A double auction clears the largest quantity that any price would let
\* change hands.
THEOREM TradesMost == Spec => MostTraded
<1>1. Init => BidsInv
  BY KeyInvInit, TotalsEmpty DEF Init, EmptyBook, BidsInv, TotalsInv, Side
<1>2. BidsInv /\ [Next]_vars => BidsInv'
  BY BidsInvStep
<1>3. BidsInv /\ [Next]_vars => [EachClearing(Most)]_vars
  <2> SUFFICES ASSUME BidsInv, [Next]_vars, market' # market, mode.special \notin {"sellers", "buyers"}
               PROVE  cleared'.quantity =
                        Max({Min({Demand(Heard, p), Supply(Heard, p)}) : p \in BidPrices(Heard)} \cup {0})
    BY DEF EachClearing, Most
  <2>1. ClearMarket
    BY ClearsOnly
  <2>2. PICK stale \in StalePrices :
          cleared'.quantity = Result(Falling(Heard.asks), Rising(Heard.offers), stale).quantity
    BY <2>1 DEF ClearMarket
  <2>3. Heard \in Books
    BY HeardBooks
  <2> QED BY <2>2, <2>3, TradedQuantity
<1> QED BY <1>1, <1>2, <1>3, PTL DEF Spec, MostTraded

---------------------------------------------------------------------------
(* The price                                                               *)

(* The price goes with the quantity. *)
FairAsks(A, q, p) == Priced(A, AtLeast(p + 1)) <= q /\ q <= Priced(A, AtLeast(p))
FairOffers(O, q, p) == Priced(O, AtMost(p - 1)) <= q /\ q <= Priced(O, AtMost(p))
NotBelow(bids) == \A k \in 1 .. Len(bids) : bids[k].price >= -Cap

(* The bids that are better than the price leave some for those at it.     *)
Shares(A, O, r) ==
  /\ r.type = "buyer" => Priced(A, AtLeast(r.price + 1)) < r.quantity
  /\ r.type = "seller" => Priced(O, AtMost(r.price - 1)) < r.quantity

AllAsked(A, O, r, p) ==
  /\ r.type = "seller" /\ Upto(A, Len(A)) = r.quantity
  /\ r.quantity <= Priced(O, AtMost(p - 1))

\* What comes of the ways in which the matching may end.
LEMMA MatchedAt ==
  ASSUME NEW A \in Seq(AnyBid), NEW O \in Seq(AnyBid), NEW stale,
         NEW m, Matching(A, O, m), MatchEnds(A, O, m), NEW r, r = Matched(A, O, m, stale),
         r.type \in {"buyer", "seller", "exact"}
  PROVE  /\ r.quantity = m.quantity
         /\ BuyerLeft(A, O, m) => r.type = "buyer" /\ r.price = m.a
         /\ SellerLeft(A, O, m) => r.type = "seller" /\ r.price = m.a
         /\ MetBoth(A, O, m) =>
              \/ r.type = "buyer" /\ r.price = m.a /\ LeftAt(A, m.i, m.a) /\ ~LeftAt(O, m.j, m.b)
              \/ /\ r.type = "seller" /\ LeftAt(O, m.j, m.b) /\ ~LeftAt(A, m.i, m.a)
                 /\ r.price = IF m.i <= Len(A) THEN m.b ELSE m.a
              \/ /\ r.type = "exact" /\ r.price = m.a /\ m.a = m.b
                 /\ ~LeftAt(O, m.j, m.b) /\ ~LeftAt(A, m.i, m.a)
<1> DEFINE type == IF m.check THEN SplitType(A, O, m) ELSE m.type
           price == CASE type = "price" /\ m.check -> SplitPrice(A, O, m, stale)
                      [] type = "seller" /\ m.check /\ m.i <= Len(A) -> m.b
                      [] OTHER -> IF m.check \/ m.a = m.b THEN m.a ELSE 0
<1>1. r.type = type /\ r.quantity = m.quantity /\ r.price = price
  BY DEF Matched
<1>2. ASSUME BuyerLeft(A, O, m) PROVE r.type = "buyer" /\ r.price = m.a
  <2>1. ~m.check /\ m.type = "buyer" /\ m.a = m.b
    BY <1>2 DEF BuyerLeft
  <2>2. type = "buyer"
    BY <2>1
  <2> HIDE DEF type
  <2> QED BY <1>1, <2>1, <2>2
<1>3. ASSUME SellerLeft(A, O, m) PROVE r.type = "seller" /\ r.price = m.a
  <2>1. ~m.check /\ m.type = "seller" /\ m.a = m.b
    BY <1>3 DEF SellerLeft
  <2>2. type = "seller"
    BY <2>1
  <2> HIDE DEF type
  <2> QED BY <1>1, <2>1, <2>2
<1>4. ASSUME MetBoth(A, O, m)
      PROVE  \/ r.type = "buyer" /\ r.price = m.a /\ LeftAt(A, m.i, m.a) /\ ~LeftAt(O, m.j, m.b)
             \/ /\ r.type = "seller" /\ LeftAt(O, m.j, m.b) /\ ~LeftAt(A, m.i, m.a)
                /\ r.price = IF m.i <= Len(A) THEN m.b ELSE m.a
             \/ /\ r.type = "exact" /\ r.price = m.a /\ m.a = m.b
                /\ ~LeftAt(O, m.j, m.b) /\ ~LeftAt(A, m.i, m.a)
  <2> DEFINE buyersLeft == LeftAt(A, m.i, m.a)
             sellersLeft == LeftAt(O, m.j, m.b)
  <2>1. m.check /\ type = SplitType(A, O, m) /\ m.a \in Int /\ m.b \in Int /\ m.b <= m.a
    BY <1>4 DEF MetBoth, Matching, AnyMatch
  <2>2. ~(buyersLeft /\ sellersLeft)
    <3> SUFFICES ASSUME buyersLeft, sellersLeft PROVE FALSE
      OBVIOUS
    <3>1. A[m.i].price = m.a /\ O[m.j].price = m.b /\ m.i <= Len(A) /\ m.j <= Len(O)
      BY BidFacts DEF LeftAt
    <3>2. m.i \in Int /\ m.j \in Int /\ Len(A) \in Int /\ Len(O) \in Int
      BY BidFacts DEF Matching, AnyMatch
    <3> QED BY <2>1, <3>1, <3>2 DEF MatchEnds
  <2>3. type = CASE sellersLeft /\ ~buyersLeft -> "seller"
                 [] buyersLeft /\ ~sellersLeft -> "buyer"
                 [] buyersLeft /\ sellersLeft -> m.type
                 [] OTHER -> IF m.a = m.b THEN "exact" ELSE "price"
    BY <2>1 DEF SplitType
  <2> HIDE DEF type, buyersLeft, sellersLeft
  <2>4. CASE sellersLeft /\ ~buyersLeft
    <3>1. type = "seller"
      BY <2>3, <2>4
    <3>2. r.price = IF m.i <= Len(A) THEN m.b ELSE m.a
      BY <1>1, <2>1, <3>1
    <3> QED BY <1>1, <2>4, <3>1, <3>2 DEF buyersLeft, sellersLeft
  <2>5. CASE buyersLeft /\ ~sellersLeft
    <3>1. type = "buyer"
      BY <2>3, <2>5
    <3>2. r.price = m.a
      BY <1>1, <2>1, <3>1
    <3> QED BY <1>1, <2>5, <3>1, <3>2 DEF buyersLeft, sellersLeft
  <2>6. CASE ~buyersLeft /\ ~sellersLeft
    <3>1. type = IF m.a = m.b THEN "exact" ELSE "price"
      BY <2>3, <2>6
    <3>2. type = "exact" /\ m.a = m.b
      BY <1>1, <3>1
    <3>3. r.price = m.a
      BY <1>1, <2>1, <3>2
    <3> QED BY <1>1, <2>6, <3>2, <3>3 DEF buyersLeft, sellersLeft
  <2> QED BY <2>2, <2>4, <2>5, <2>6
<1> QED BY <1>1, <1>2, <1>3, <1>4

\* The price of what was matched serves the bids on both sides.
LEMMA MatchedServes ==
  ASSUME NEW A \in Seq(AnyBid), NEW O \in Seq(AnyBid), Descending(A), Ascending(O),
         NotBelow(A), NotBelow(O), NEW stale,
         NEW m, Matching(A, O, m), MatchEnds(A, O, m), m.quantity # 0,
         NEW r, r = Matched(A, O, m, stale), r.type \in {"buyer", "seller", "exact"},
         ~AllAsked(A, O, r, r.price)
  PROVE  /\ r.price \in Int /\ -Cap <= r.price /\ r.price <= Cap
         /\ FairAsks(A, r.quantity, r.price) /\ FairOffers(O, r.quantity, r.price)
         /\ Something(A) /\ Something(O) => Shares(A, O, r)
<1> DEFINE i == m.i
           j == m.j
           q == m.quantity
           p == r.price
<1>1. /\ Len(A) \in Nat /\ Len(O) \in Nat /\ i \in 1 .. Len(A) + 1 /\ j \in 1 .. Len(O) + 1
      /\ i - 1 \in 0 .. Len(A) /\ j - 1 \in 0 .. Len(O) /\ i \in Int /\ j \in Int
      /\ A[(i - 1) + 1] = A[i] /\ O[(j - 1) + 1] = O[j] /\ m.a \in Int /\ m.b \in Int
  <2>1. i \in Int /\ j \in Int /\ m.a \in Int /\ m.b \in Int
    BY DEF Matching, AnyMatch
  <2>2. (i - 1) + 1 = i /\ (j - 1) + 1 = j
    BY <2>1
  <2>3. i \in 1 .. Len(A) + 1 /\ j \in 1 .. Len(O) + 1
    BY DEF Matching
  <2>4. Len(A) \in Nat /\ Len(O) \in Nat
    BY BidFacts
  <2> QED BY <2>1, <2>2, <2>3, <2>4, SMTT(30)
<1>8. /\ Upto(A, i - 1) \in Int /\ Upto(O, j - 1) \in Int /\ q \in Int
      /\ m.demand = Upto(A, i - 1) /\ m.supply = Upto(O, j - 1)
      /\ Upto(A, i - 1) <= q /\ Upto(O, j - 1) <= q
  BY DEF Matching, AnyMatch
<1>9. i > Len(A) \/ j > Len(O) \/ A[i].price < O[j].price
  BY DEF MatchEnds
<1>2. /\ \A k \in 1 .. Len(A) : A[k].price \in Int /\ -Cap <= A[k].price /\ A[k].price <= Cap
      /\ \A k \in 1 .. Len(O) : O[k].price \in Int /\ -Cap <= O[k].price /\ O[k].price <= Cap
  BY BidFacts DEF NotBelow
<1>3. m # Start
  BY DEF Start
<1>4. r.quantity = q
  BY MatchedAt
<1>5. CASE BuyerLeft(A, O, m)
  <2>1. /\ r.type = "buyer" /\ p = A[i].price /\ i \in 1 .. Len(A) /\ j - 1 \in 1 .. Len(O)
        /\ O[j - 1].price <= p /\ m.supply = q /\ q < Upto(A, i)
        /\ Something(A) /\ Something(O) => m.demand < q
    <3>1. r.type = "buyer" /\ p = m.a
      BY <1>5, MatchedAt
    <3> QED BY <1>1, <1>5, <3>1 DEF BuyerLeft
  <2>2. p \in Int /\ -Cap <= p /\ p <= Cap
    BY <1>2, <2>1
  <2>3. p + 1 \in Int /\ p - 1 \in Int
    BY <2>2
  <2> HIDE DEF p, q
  <2>4. Priced(A, AtLeast(p + 1)) <= Upto(A, i - 1) /\ Priced(A, AtLeast(p + 1)) \in Nat
    <3>1. A[(i - 1) + 1].price < p + 1
      BY <1>1, <2>1, <2>2
    <3> QED BY <1>1, <2>3, <3>1, AskBounds
  <2>5. Upto(A, i) <= Priced(A, AtLeast(p)) /\ Priced(A, AtLeast(p)) \in Nat /\ Upto(A, i) \in Nat
    <3>1. i \in 0 .. Len(A) /\ A[i].price >= p
      BY <1>1, <2>1, <2>2, SMTT(30)
    <3> QED BY <2>2, <3>1, AskBounds
  <2>6. Upto(O, j - 1) <= Priced(O, AtMost(p)) /\ Priced(O, AtMost(p)) \in Nat
    BY <1>1, <2>1, <2>2, OfferBounds
  <2>7. Priced(O, AtMost(p - 1)) <= Upto(O, j - 1) /\ Priced(O, AtMost(p - 1)) \in Nat
    <3>1. j - 1 = Len(O) \/ O[(j - 1) + 1].price > p - 1
      <4>1. j > Len(O) \/ (j \in 1 .. Len(O) /\ O[j].price > p)
        BY <1>1, <1>2, <1>9, <2>1, <2>2, SMTT(30) DEF p
      <4>2. CASE j > Len(O)
        BY <1>1, <4>2
      <4>3. CASE j \in 1 .. Len(O) /\ O[j].price > p
        BY <1>1, <1>2, <2>2, <4>3
      <4> QED BY <4>1, <4>2, <4>3
    <3> QED BY <1>1, <2>3, <3>1, OfferBounds
  <2>8. FairAsks(A, q, p) /\ FairOffers(O, q, p)
    <3>1. q \in Int /\ Upto(A, i - 1) <= q /\ Upto(O, j - 1) <= q /\ Upto(A, i - 1) \in Int /\ Upto(O, j - 1) \in Int
      BY <1>8 DEF q
    <3>2. q <= Priced(A, AtLeast(p)) /\ q <= Priced(O, AtMost(p))
      BY <1>8, <2>1, <2>5, <2>6, <3>1
    <3> QED BY <2>4, <2>7, <3>1, <3>2 DEF FairAsks, FairOffers
  <2>9. Something(A) /\ Something(O) => Priced(A, AtLeast(p + 1)) < q
    BY <1>8, <2>1, <2>4 DEF q
  <2> QED BY <1>4, <2>1, <2>2, <2>8, <2>9 DEF Shares, p, q
<1>6. CASE SellerLeft(A, O, m)
  <2>1. /\ r.type = "seller" /\ p = O[j].price /\ j \in 1 .. Len(O) /\ i - 1 \in 1 .. Len(A)
        /\ p <= A[i - 1].price /\ m.demand = q /\ q < Upto(O, j)
        /\ Something(A) /\ Something(O) => m.supply < q
    <3>1. r.type = "seller" /\ p = m.a
      BY <1>6, MatchedAt
    <3> QED BY <1>1, <1>6, <3>1 DEF SellerLeft
  <2>2. p \in Int /\ -Cap <= p /\ p <= Cap
    BY <1>2, <2>1
  <2>3. p + 1 \in Int /\ p - 1 \in Int
    BY <2>2
  <2> HIDE DEF p, q
  <2>4. Priced(A, AtLeast(p + 1)) <= Upto(A, i - 1) /\ Priced(A, AtLeast(p + 1)) \in Nat
    <3>1. i - 1 = Len(A) \/ A[(i - 1) + 1].price < p + 1
      <4>1. i > Len(A) \/ (i \in 1 .. Len(A) /\ A[i].price < p)
        BY <1>1, <1>2, <1>9, <2>1, <2>2, SMTT(30) DEF p
      <4>2. CASE i > Len(A)
        BY <1>1, <4>2
      <4>3. CASE i \in 1 .. Len(A) /\ A[i].price < p
        BY <1>1, <1>2, <2>2, <4>3
      <4> QED BY <4>1, <4>2, <4>3
    <3> QED BY <1>1, <2>3, <3>1, AskBounds
  <2>5. Upto(A, i - 1) <= Priced(A, AtLeast(p)) /\ Priced(A, AtLeast(p)) \in Nat
    <3>1. A[i - 1].price >= p
      BY <1>2, <2>1, <2>2
    <3> QED BY <1>1, <2>2, <3>1, AskBounds
  <2>6. Upto(O, j) <= Priced(O, AtMost(p)) /\ Priced(O, AtMost(p)) \in Nat /\ Upto(O, j) \in Nat
    <3>1. j \in 0 .. Len(O) /\ O[j].price <= p
      BY <1>1, <2>1, <2>2, SMTT(30)
    <3> QED BY <2>2, <3>1, OfferBounds
  <2>7. Priced(O, AtMost(p - 1)) <= Upto(O, j - 1) /\ Priced(O, AtMost(p - 1)) \in Nat
    <3>1. O[(j - 1) + 1].price > p - 1
      BY <1>1, <2>1, <2>2
    <3> QED BY <1>1, <2>3, <3>1, OfferBounds
  <2>8. FairAsks(A, q, p) /\ FairOffers(O, q, p)
    <3>1. q \in Int /\ Upto(A, i - 1) <= q /\ Upto(O, j - 1) <= q /\ Upto(A, i - 1) \in Int /\ Upto(O, j - 1) \in Int
      BY <1>8 DEF q
    <3>2. q <= Priced(A, AtLeast(p)) /\ q <= Priced(O, AtMost(p))
      BY <1>8, <2>1, <2>5, <2>6, <3>1
    <3> QED BY <2>4, <2>7, <3>1, <3>2 DEF FairAsks, FairOffers
  <2>9. Something(A) /\ Something(O) => Priced(O, AtMost(p - 1)) < q
    BY <1>8, <2>1, <2>7 DEF q
  <2> QED BY <1>4, <2>1, <2>2, <2>8, <2>9 DEF Shares, p, q
<1>7. CASE MetBoth(A, O, m)
  <2>1. /\ i - 1 \in 1 .. Len(A) /\ j - 1 \in 1 .. Len(O)
        /\ m.a = A[i - 1].price /\ m.b = O[j - 1].price /\ m.b <= m.a
        /\ m.demand = q /\ m.supply = q
    BY <1>1, <1>7, <1>8, SMTT(30) DEF MetBoth
  <2>2. /\ -Cap <= m.a /\ m.a <= Cap /\ -Cap <= m.b /\ m.b <= Cap
    BY <1>2, <2>1
  \* The asks that are left are not above the last that was matched, nor are
  \* the offers that are left below theirs.
  <2>3. /\ i \in 1 .. Len(A) => A[i].price <= m.a /\ A[i].price \in Int
        /\ j \in 1 .. Len(O) => m.b <= O[j].price /\ O[j].price \in Int
        /\ i > Len(A) \/ i \in 1 .. Len(A)
        /\ j > Len(O) \/ j \in 1 .. Len(O)
    <3>1. i \in 1 .. Len(A) => A[i].price <= A[i - 1].price
      BY <1>1, <2>1, SMTT(30) DEF Descending
    <3>2. j \in 1 .. Len(O) => O[j - 1].price <= O[j].price
      BY <1>1, <2>1, SMTT(30) DEF Ascending
    <3>3. /\ i \in 1 .. Len(A) => A[i].price \in Int
          /\ j \in 1 .. Len(O) => O[j].price \in Int
      BY <1>2
    <3>4. (i > Len(A) \/ i \in 1 .. Len(A)) /\ (j > Len(O) \/ j \in 1 .. Len(O))
      BY <1>1, SMTT(30)
    <3> QED BY <2>1, <3>1, <3>2, <3>3, <3>4
  <2>4. /\ LeftAt(A, i, m.a) <=> i \in 1 .. Len(A) /\ A[i].price = m.a
        /\ LeftAt(O, j, m.b) <=> j \in 1 .. Len(O) /\ O[j].price = m.b
    BY BidFacts DEF LeftAt
  <2>5. i \in 1 .. Len(A) /\ j \in 1 .. Len(O) => A[i].price < O[j].price
    BY <1>1, <1>9, <2>3, SMTT(30)
  \* A price between them.
  <2>6. ASSUME NEW x \in Int, m.b <= x, x <= m.a,
               NEW y \in Int, y = x + 1, NEW z \in Int, z = x - 1,
               Priced(A, AtLeast(y)) <= q, Priced(O, AtMost(z)) <= q
        PROVE  FairAsks(A, q, x) /\ FairOffers(O, q, x)
    <3>1. Upto(A, i - 1) <= Priced(A, AtLeast(x))
      BY <1>1, <2>1, <2>6, AskBounds
    <3>2. Upto(O, j - 1) <= Priced(O, AtMost(x))
      BY <1>1, <2>1, <2>6, OfferBounds
    <3> QED BY <1>8, <2>1, <2>6, <3>1, <3>2 DEF FairAsks, FairOffers
  <2>7. \A x \in Int : x + 1 \in Int /\ x - 1 \in Int
    OBVIOUS
  \* The bids that are left at their side's price, or worse, get nothing more.
  <2>8. ASSUME NEW x \in Int, i > Len(A) \/ (i \in 1 .. Len(A) /\ A[i].price <= x)
        PROVE  Priced(A, AtLeast(x + 1)) <= q
    <3>1. i - 1 = Len(A) \/ A[(i - 1) + 1].price < x + 1
      BY <1>1, <2>3, <2>8, SMTT(30)
    <3> QED BY <1>1, <1>8, <2>1, <2>7, <3>1, AskBounds
  <2>9. ASSUME NEW x \in Int, j > Len(O) \/ (j \in 1 .. Len(O) /\ x <= O[j].price)
        PROVE  Priced(O, AtMost(x - 1)) <= q
    <3>1. j - 1 = Len(O) \/ O[(j - 1) + 1].price > x - 1
      <4>1. CASE j > Len(O)
        BY <1>1, <4>1
      <4>2. CASE j \in 1 .. Len(O) /\ x <= O[j].price
        <5>1. O[j].price \in Int /\ O[(j - 1) + 1] = O[j]
          BY <1>1, <2>3, <4>2
        <5> QED BY <4>2, <5>1
      <4> QED BY <2>9, <4>1, <4>2
    <3> QED BY <1>1, <1>8, <2>1, <2>7, <3>1, OfferBounds
  \* What the last bids that were matched asked for is not for better ones.
  <2>10. ASSUME Something(A), Something(O)
         PROVE  /\ Priced(A, AtLeast(m.a + 1)) < q
                /\ Priced(O, AtMost(m.b - 1)) < q
    <3>1. /\ i - 2 \in 0 .. Len(A) /\ j - 2 \in 0 .. Len(O)
          /\ i - 2 = (i - 1) - 1 /\ j - 2 = (j - 1) - 1
          /\ A[(i - 2) + 1] = A[i - 1] /\ O[(j - 2) + 1] = O[j - 1]
      <4>1. \A x \in Int : /\ x - 2 = (x - 1) - 1 /\ (x - 2) + 1 = x - 1
                            /\ \A n \in Nat : x - 1 \in 1 .. n => x - 2 \in 0 .. n
        OBVIOUS
      <4>2. i \in Int /\ j \in Int /\ Len(A) \in Nat /\ Len(O) \in Nat
        BY <1>1
      <4>3. i - 2 \in 0 .. Len(A) /\ j - 2 \in 0 .. Len(O)
        BY <2>1, <4>1, <4>2
      <4>4. /\ i - 2 = (i - 1) - 1 /\ j - 2 = (j - 1) - 1
            /\ (i - 2) + 1 = i - 1 /\ (j - 2) + 1 = j - 1
        BY <4>1, <4>2
      <4> QED BY <4>3, <4>4
    <3>2. Upto(A, i - 1) > Upto(A, i - 2) /\ Upto(O, j - 1) > Upto(O, j - 2)
      <4>1. /\ Upto(A, i - 1) = Upto(A, i - 2) + A[i - 1].quantity
            /\ Upto(O, j - 1) = Upto(O, j - 2) + O[j - 1].quantity
        BY <2>1, <3>1, UptoFacts
      <4>2. /\ Upto(A, i - 2) \in Nat /\ Upto(O, j - 2) \in Nat
            /\ A[i - 1].quantity \in Nat /\ O[j - 1].quantity \in Nat
        BY <2>1, <3>1, UptoFacts, BidFacts
      <4>3. A[i - 1].quantity > 0 /\ O[j - 1].quantity > 0
        BY <2>1, <2>10 DEF Something
      <4> QED BY <4>1, <4>2, <4>3, SMTT(30)
    <3>3. Priced(A, AtLeast(m.a + 1)) <= Upto(A, i - 2) /\ Priced(A, AtLeast(m.a + 1)) \in Nat
      <4>1. A[(i - 2) + 1].price < m.a + 1 /\ m.a + 1 \in Int
        <5>1. m.a \in Int /\ A[(i - 2) + 1].price = m.a
          BY <1>1, <2>1, <3>1
        <5> QED BY <5>1
      <4> QED BY <3>1, <4>1, AskBounds
    <3>4. Priced(O, AtMost(m.b - 1)) <= Upto(O, j - 2) /\ Priced(O, AtMost(m.b - 1)) \in Nat
      <4>1. O[(j - 2) + 1].price > m.b - 1 /\ m.b - 1 \in Int
        <5>1. m.b \in Int /\ O[(j - 2) + 1].price = m.b
          BY <1>1, <2>1, <3>1
        <5> QED BY <5>1
      <4> QED BY <3>1, <4>1, OfferBounds
    <3>5. Upto(A, i - 2) \in Nat /\ Upto(O, j - 2) \in Nat
      BY <3>1, UptoFacts
    <3> QED BY <1>8, <2>1, <3>2, <3>3, <3>4, <3>5
  <2>11. ASSUME NEW x \in Int, p = x, m.b <= x, x <= m.a,
                Priced(A, AtLeast(x + 1)) <= q, Priced(O, AtMost(x - 1)) <= q
         PROVE  /\ p \in Int /\ -Cap <= p /\ p <= Cap
                /\ FairAsks(A, q, p) /\ FairOffers(O, q, p)
    <3>1. FairAsks(A, q, x) /\ FairOffers(O, q, x)
      BY <2>6, <2>7, <2>11
    <3>2. -Cap <= x /\ x <= Cap
      <4>1. m.a \in Int /\ m.b \in Int /\ Cap \in Int /\ -Cap \in Int
        BY <1>1, PriceAssumption
      <4> QED BY <2>2, <2>11, <4>1
    <3> QED BY <2>11, <3>1, <3>2
  <2>12. CASE r.type = "buyer" /\ p = m.a /\ LeftAt(A, i, m.a) /\ ~LeftAt(O, j, m.b)
    <3>1. Priced(A, AtLeast(m.a + 1)) <= q
      <4>1. m.a \in Int /\ i \in 1 .. Len(A) /\ A[i].price <= m.a
        BY <1>1, <2>3, <2>4, <2>12
      <4> QED BY <2>8, <4>1
    <3>2. Priced(O, AtMost(m.a - 1)) <= q
      <4>1. j > Len(O) \/ (j \in 1 .. Len(O) /\ m.a <= O[j].price)
        BY <1>1, <2>3, <2>4, <2>5, <2>12, SMTT(30)
      <4> QED BY <1>1, <2>9, <4>1
    <3>3. Something(A) /\ Something(O) => Shares(A, O, r)
      BY <1>4, <2>10, <2>12 DEF Shares
    <3>4. m.b <= m.a
      BY <2>1
    <3>5. m.a <= m.a
      BY <1>1
    <3> QED BY <1>1, <1>4, <2>11, <2>12, <3>1, <3>2, <3>3, <3>4, <3>5
  <2>13. CASE r.type = "seller" /\ LeftAt(O, j, m.b) /\ p = m.b /\ i <= Len(A)
    <3>1. Priced(A, AtLeast(m.b + 1)) <= q
      <4>1. i \in 1 .. Len(A) /\ A[i].price <= m.b
        BY <1>1, <2>3, <2>4, <2>5, <2>13, SMTT(30)
      <4> QED BY <1>1, <2>8, <4>1
    <3>2. Priced(O, AtMost(m.b - 1)) <= q
      <4>1. j \in 1 .. Len(O) /\ m.b <= O[j].price
        BY <1>1, <2>3, <2>4, <2>13
      <4> QED BY <1>1, <2>9, <4>1
    <3>3. Something(A) /\ Something(O) => Shares(A, O, r)
      BY <1>4, <2>10, <2>13 DEF Shares
    <3>4. m.b <= m.a
      BY <2>1
    <3>5. m.b <= m.b
      BY <1>1
    <3> QED BY <1>1, <1>4, <2>11, <2>13, <3>1, <3>2, <3>3, <3>4, <3>5
  <2>14. CASE r.type = "seller" /\ p = m.a /\ i > Len(A)
    <3>1. Priced(A, AtLeast(m.a + 1)) <= q
      BY <1>1, <2>8, <2>14
    <3>2. Priced(O, AtMost(m.a - 1)) < q /\ Priced(O, AtMost(m.a - 1)) \in Nat
      <4>1. Upto(A, Len(A)) = q
        <5>1. i - 1 = Len(A)
          BY <1>1, <2>14
        <5> QED BY <1>8, <2>1, <5>1
      <4>2. Priced(O, AtMost(m.a - 1)) \in Nat
        <5>1. m.a - 1 \in Int
          BY <1>1
        <5> QED BY <1>1, <5>1, OfferBounds
      <4>3. ~(q <= Priced(O, AtMost(m.a - 1)))
        BY <1>4, <2>14, <4>1 DEF AllAsked
      <4> QED BY <1>8, <4>2, <4>3
    <3>3. Shares(A, O, r)
      BY <1>4, <2>14, <3>2 DEF Shares
    <3>4. Priced(O, AtMost(m.a - 1)) <= q
      BY <1>8, <3>2
    <3>5. m.b <= m.a
      BY <2>1
    <3>6. m.a <= m.a
      BY <1>1
    <3> QED BY <1>1, <1>4, <2>11, <2>14, <3>1, <3>3, <3>4, <3>5, <3>6
  <2>15. CASE r.type = "exact" /\ p = m.a /\ m.a = m.b
    <3>1. Priced(A, AtLeast(m.a + 1)) <= q
      BY <1>1, <2>3, <2>8
    <3>2. Priced(O, AtMost(m.a - 1)) <= q
      BY <1>1, <2>3, <2>9, <2>15
    <3>3. Shares(A, O, r)
      BY <2>15 DEF Shares
    <3>4. m.b <= m.a
      BY <2>1
    <3>5. m.a <= m.a
      BY <1>1
    <3> QED BY <1>1, <1>4, <2>11, <2>15, <3>1, <3>2, <3>3, <3>4, <3>5
  <2>16. \/ r.type = "buyer" /\ p = m.a /\ LeftAt(A, i, m.a) /\ ~LeftAt(O, j, m.b)
         \/ /\ r.type = "seller" /\ LeftAt(O, j, m.b) /\ ~LeftAt(A, i, m.a)
            /\ p = IF i <= Len(A) THEN m.b ELSE m.a
         \/ /\ r.type = "exact" /\ p = m.a /\ m.a = m.b
            /\ ~LeftAt(O, j, m.b) /\ ~LeftAt(A, i, m.a)
    BY <1>7, MatchedAt
  <2>17. CASE r.type = "seller" /\ LeftAt(O, j, m.b) /\ p = IF i <= Len(A) THEN m.b ELSE m.a
    <3>1. CASE i <= Len(A)
      <4>1. p = m.b
        BY <2>17, <3>1
      <4> HIDE DEF p
      <4> QED BY <2>13, <2>17, <3>1, <4>1 DEF p
    <3>2. CASE i > Len(A)
      <4>1. p = m.a
        BY <1>1, <2>17, <3>2
      <4> QED BY <2>14, <2>17, <3>2, <4>1
    <3> QED BY <1>1, <3>1, <3>2
  <2> QED BY <2>12, <2>15, <2>16, <2>17
<1> QED BY <1>3, <1>5, <1>6, <1>7 DEF Matching

\* The quantities at prices add up, and those at more prices are no less.
LEMMA PricedParts ==
  ASSUME NEW bids \in Seq(AnyBid), NEW P, NEW Q, NEW R,
         \A x \in Int : (x \in R <=> x \in P \/ x \in Q) /\ ~(x \in P /\ x \in Q)
  PROVE  Priced(bids, R) = Priced(bids, P) + Priced(bids, Q)
<1> DEFINE n == Len(bids)
           f == [k \in 1 .. n |-> IF bids[k].price \in P THEN bids[k].quantity ELSE 0]
           g == [k \in 1 .. n |-> IF bids[k].price \in Q THEN bids[k].quantity ELSE 0]
           h == [k \in 1 .. n |-> IF bids[k].price \in R THEN bids[k].quantity ELSE 0]
           S == {k \in Nat : k <= n => SumTo(h, k) = SumTo(f, k) + SumTo(g, k)}
<1>1. n \in Nat /\ \A k \in 1 .. n : bids[k].price \in Int /\ bids[k].quantity \in Nat
  BY BidFacts
<1>2. \A k \in 1 .. n : f[k] \in Int /\ g[k] \in Int /\ h[k] = f[k] + g[k]
  BY <1>1
<1>3. Priced(bids, P) = SumTo(f, n) /\ Priced(bids, Q) = SumTo(g, n) /\ Priced(bids, R) = SumTo(h, n)
  BY DEF Priced, Quantity
<1> HIDE DEF n, f, g, h
<1>4. 0 \in S
  BY SumFacts
<1>5. ASSUME NEW k \in Nat, k \in S PROVE k + 1 \in S
  <2> SUFFICES ASSUME k + 1 <= n PROVE SumTo(h, k + 1) = SumTo(f, k + 1) + SumTo(g, k + 1)
    OBVIOUS
  <2>1. SumTo(h, k) = SumTo(f, k) + SumTo(g, k)
    BY <1>1, <1>5
  <2>2. /\ SumTo(h, k + 1) = SumTo(h, k) + h[k + 1] /\ SumTo(f, k + 1) = SumTo(f, k) + f[k + 1]
        /\ SumTo(g, k + 1) = SumTo(g, k) + g[k + 1]
    BY SumFacts
  <2>3. /\ f[k + 1] \in Int /\ g[k + 1] \in Int /\ h[k + 1] = f[k + 1] + g[k + 1]
        /\ SumTo(f, k) \in Int /\ SumTo(g, k) \in Int
    BY <1>1, <1>2, SumType
  <2> QED BY <2>1, <2>2, <2>3
<1> HIDE DEF S
<1>6. \A k \in Nat : k \in S
  BY <1>4, <1>5, AllNumbers
<1> QED BY <1>1, <1>3, <1>6 DEF S

\* The bids at more prices have no less quantity.
LEMMA PricedWithin ==
  ASSUME NEW bids \in Seq(AnyBid), NEW P, NEW Q,
         \A k \in 1 .. Len(bids) : bids[k].price \in P => bids[k].price \in Q
  PROVE  Priced(bids, P) <= Priced(bids, Q)
<1> DEFINE n == Len(bids)
           f == [k \in 1 .. n |-> IF bids[k].price \in P THEN bids[k].quantity ELSE 0]
           g == [k \in 1 .. n |-> IF bids[k].price \in Q THEN bids[k].quantity ELSE 0]
<1>1. n \in Nat /\ \A k \in 1 .. n : bids[k].quantity \in Nat
  BY BidFacts
<1>2. \A k \in 1 .. n : f[k] \in Int /\ g[k] \in Int /\ f[k] <= g[k]
  BY <1>1
<1>3. Priced(bids, P) = SumTo(f, n) /\ Priced(bids, Q) = SumTo(g, n)
  BY DEF Priced, Quantity
<1> HIDE DEF n, f, g
<1> QED BY <1>1, <1>2, <1>3, SumLess

\* A sum of the quantities at some prices is the quantity there.
LEMMA PricedIs ==
  ASSUME NEW bids \in Seq(AnyBid), NEW P, NEW f,
         \A k \in 1 .. Len(bids) : f[k] = IF bids[k].price \in P THEN bids[k].quantity ELSE 0
  PROVE  SumTo(f, Len(bids)) = Priced(bids, P)
<1> DEFINE n == Len(bids)
           g == [k \in 1 .. n |-> IF bids[k].price \in P THEN bids[k].quantity ELSE 0]
<1>1. n \in Nat /\ \A k \in 1 .. n : f[k] = g[k]
  BY BidFacts
<1>2. Priced(bids, P) = SumTo(g, n)
  BY DEF Priced, Quantity
<1> HIDE DEF n, g
<1> QED BY <1>1, <1>2, SumSame DEF n

\* What the marginal bids get, and what they asked for together.
LEMMA MarginalFacts ==
  ASSUME NEW A \in Seq(AnyBid), NEW O \in Seq(AnyBid), NEW r, r.price \in Int, r.quantity \in Int
  PROVE  /\ r.type = "buyer" /\ FairAsks(A, r.quantity, r.price) =>
              /\ Marginal(A, O, r).quantity = r.quantity - Priced(A, AtLeast(r.price + 1))
              /\ Marginal(A, O, r).quantity <= Marginal(A, O, r).total
         /\ r.type = "seller" /\ FairOffers(O, r.quantity, r.price) =>
              /\ Marginal(A, O, r).quantity = r.quantity - Priced(O, AtMost(r.price - 1))
              /\ Marginal(A, O, r).quantity <= Marginal(A, O, r).total
<1> DEFINE p == r.price
           q == r.quantity
<1>1. \A P : Priced(A, P) \in Nat /\ Priced(O, P) \in Nat
  <2>1. 0 \in 0 .. Len(A) /\ 0 \in 0 .. Len(O)
    BY BidFacts
  <2> QED BY <2>1, PricedBounds
<1>2. ASSUME r.type = "buyer", FairAsks(A, q, p)
      PROVE  /\ Marginal(A, O, r).quantity = q - Priced(A, AtLeast(p + 1))
             /\ Marginal(A, O, r).quantity <= Marginal(A, O, r).total
  <2> DEFINE f == [k \in 1 .. Len(A) |-> IF A[k].price > p THEN A[k].quantity ELSE 0]
             g == [k \in 1 .. Len(A) |-> IF A[k].price = p THEN A[k].quantity ELSE 0]
  <2>1. Marginal(A, O, r) = [quantity |-> q - SumTo(f, Len(A)), total |-> SumTo(g, Len(A))]
    BY <1>2 DEF Marginal, Quantity
  <2>5. /\ \A k \in 1 .. Len(A) : f[k] = IF A[k].price \in AtLeast(p + 1) THEN A[k].quantity ELSE 0
        /\ \A k \in 1 .. Len(A) : g[k] = IF A[k].price \in {p} THEN A[k].quantity ELSE 0
    BY BidFacts DEF AtLeast, AtMost
  <2> HIDE DEF p, q, f, g
  <2>6. SumTo(f, Len(A)) = Priced(A, AtLeast(p + 1))
    BY <2>5, PricedIs
  <2>7. SumTo(g, Len(A)) = Priced(A, {p})
    BY <2>5, PricedIs
  <2>2. Marginal(A, O, r).quantity = q - Priced(A, AtLeast(p + 1)) /\ Marginal(A, O, r).total = Priced(A, {p})
    BY <2>1, <2>6, <2>7
  <2>3. Priced(A, AtLeast(p)) = Priced(A, AtLeast(p + 1)) + Priced(A, {p})
    <3>1. \A x \in Int : /\ x \in AtLeast(p) <=> x \in AtLeast(p + 1) \/ x \in {p}
                         /\ ~(x \in AtLeast(p + 1) /\ x \in {p})
      BY DEF AtLeast, p
    <3> QED BY <3>1, PricedParts
  <2>4. q \in Int /\ q <= Priced(A, AtLeast(p))
    BY <1>2 DEF FairAsks, q
  <2> QED BY <1>1, <2>2, <2>3, <2>4
<1>3. ASSUME r.type = "seller", FairOffers(O, q, p)
      PROVE  /\ Marginal(A, O, r).quantity = q - Priced(O, AtMost(p - 1))
             /\ Marginal(A, O, r).quantity <= Marginal(A, O, r).total
  <2> DEFINE f == [k \in 1 .. Len(O) |-> IF O[k].price < p THEN O[k].quantity ELSE 0]
             g == [k \in 1 .. Len(O) |-> IF O[k].price = p THEN O[k].quantity ELSE 0]
  <2>1. Marginal(A, O, r) = [quantity |-> q - SumTo(f, Len(O)), total |-> SumTo(g, Len(O))]
    BY <1>3 DEF Marginal, Quantity
  <2>5. /\ \A k \in 1 .. Len(O) : f[k] = IF O[k].price \in AtMost(p - 1) THEN O[k].quantity ELSE 0
        /\ \A k \in 1 .. Len(O) : g[k] = IF O[k].price \in {p} THEN O[k].quantity ELSE 0
    BY BidFacts DEF AtLeast, AtMost
  <2> HIDE DEF p, q, f, g
  <2>6. SumTo(f, Len(O)) = Priced(O, AtMost(p - 1))
    BY <2>5, PricedIs
  <2>7. SumTo(g, Len(O)) = Priced(O, {p})
    BY <2>5, PricedIs
  <2>2. Marginal(A, O, r).quantity = q - Priced(O, AtMost(p - 1)) /\ Marginal(A, O, r).total = Priced(O, {p})
    BY <2>1, <2>6, <2>7
  <2>3. Priced(O, AtMost(p)) = Priced(O, AtMost(p - 1)) + Priced(O, {p})
    <3>1. \A x \in Int : /\ x \in AtMost(p) <=> x \in AtMost(p - 1) \/ x \in {p}
                         /\ ~(x \in AtMost(p - 1) /\ x \in {p})
      BY DEF AtMost, p
    <3> QED BY <3>1, PricedParts
  <2>4. q \in Int /\ q <= Priced(O, AtMost(p))
    BY <1>3 DEF FairOffers, q
  <2> QED BY <1>1, <2>2, <2>3, <2>4
<1> QED BY <1>2, <1>3

\* Of one side, the bids that are needed are taken and no more.
LEMMA TakeFacts ==
  ASSUME NEW bids \in Seq(AnyBid), NEW wanted \in Nat, NEW type \in {"buyer", "seller"}, NEW behind,
         NEW r, r = TakeQuantity(bids, wanted, type, behind), r.type \in {"buyer", "seller", "exact"}
  PROVE  /\ r.quantity = wanted /\ r.type \in {type, "exact"}
         /\ \E k \in 1 .. Len(bids) : /\ r.price = bids[k].price
                                      /\ wanted <= Upto(bids, k)
                                      /\ wanted > 0 => Upto(bids, k - 1) < wanted
<1> DEFINE Sum(k) == Quantity(SubSeq(bids, 1, k), LAMBDA bid : TRUE)
           enough == {k \in DOMAIN bids : Sum(k) >= wanted}
           last == Min(enough)
<1>1. /\ enough # {}
      /\ r = [type |-> IF Sum(last) > wanted THEN type ELSE "exact",
              quantity |-> wanted, price |-> bids[last].price]
  BY DEF TakeQuantity
<1>2. Len(bids) \in Nat /\ DOMAIN bids = 1 .. Len(bids)
  BY BidFacts
<1>3. ASSUME NEW k \in 0 .. Len(bids) PROVE Sum(k) = Upto(bids, k)
  <2> DEFINE s == SubSeq(bids, 1, k)
             f == Amount(s)
             g == Amount(bids)
  <2>1. k \in Nat /\ k <= Len(bids)
    BY <1>2
  <2>2. s \in Seq(AnyBid) /\ Len(s) = k /\ \A l \in 1 .. k : s[l] = bids[l]
    BY <1>2, <2>1
  <2>3. Sum(k) = Upto(s, k)
    BY <2>2 DEF Quantity, Upto, Amount
  <2>4. \A l \in 1 .. k : f[l] = g[l]
    BY <1>2, <2>1, <2>2 DEF Amount
  <2> HIDE DEF f, g, s
  <2>5. SumTo(f, k) = SumTo(g, k)
    BY <2>1, <2>4, SumSame
  <2> QED BY <2>3, <2>5 DEF Upto, f, g
<1> HIDE DEF Sum
<1>4. last \in enough /\ \A k \in enough : last <= k
  <2>1. enough \in SUBSET Nat
    BY <1>2
  <2>2. PICK l \in enough : \A k \in enough : l <= k
    BY <1>1, <2>1, LeastNumber
  <2> HIDE DEF enough
  <2> QED BY <2>2 DEF Min
<1>5. last \in 1 .. Len(bids) /\ wanted <= Upto(bids, last)
  <2>1. last \in 1 .. Len(bids) /\ Sum(last) >= wanted
    BY <1>2, <1>4
  <2>2. last \in 0 .. Len(bids)
    BY <1>2, <2>1
  <2>3. Sum(last) = Upto(bids, last) /\ Upto(bids, last) \in Nat
    BY <1>3, <2>2, UptoFacts
  <2> HIDE DEF last
  <2> QED BY <2>1, <2>3
<1>6. wanted > 0 => Upto(bids, last - 1) < wanted
  <2> SUFFICES ASSUME wanted > 0 PROVE Upto(bids, last - 1) < wanted
    OBVIOUS
  <2>1. last - 1 \in 0 .. Len(bids) /\ ~(last <= last - 1) /\ last \in Int
    BY <1>2, <1>5
  <2> HIDE DEF last
  <2>2. Sum(last - 1) = Upto(bids, last - 1) /\ Upto(bids, last - 1) \in Nat
    BY <1>3, <2>1, UptoFacts
  <2>3. CASE last = 1
    <3>1. Upto(bids, last - 1) = 0
      BY <2>3, UptoFacts
    <3> QED BY <3>1
  <2>4. CASE last # 1
    <3>1. last - 1 \in DOMAIN bids
      BY <1>2, <1>5, <2>1, <2>4
    <3>2. ~(Sum(last - 1) >= wanted)
      BY <1>4, <2>1, <3>1
    <3> QED BY <2>2, <3>2
  <2> QED BY <2>3, <2>4
<1> HIDE DEF last
<1>7. r.quantity = wanted /\ r.price = bids[last].price /\ r.type \in {type, "exact"}
  BY <1>1
<1> QED BY <1>5, <1>6, <1>7

\* The price of what was matched is that of a bid.
LEMMA MatchedRange ==
  ASSUME NEW A \in Seq(AnyBid), NEW O \in Seq(AnyBid), NotBelow(A), NotBelow(O), NEW stale,
         NEW m, Matching(A, O, m), MatchEnds(A, O, m), m.quantity # 0,
         NEW r, r = Matched(A, O, m, stale), r.type \in {"buyer", "seller", "exact"}
  PROVE  r.price \in Int /\ -Cap <= r.price /\ r.price <= Cap /\ r.quantity = m.quantity
<1>1. /\ \A k \in 1 .. Len(A) : A[k].price \in Int /\ -Cap <= A[k].price /\ A[k].price <= Cap
      /\ \A k \in 1 .. Len(O) : O[k].price \in Int /\ -Cap <= O[k].price /\ O[k].price <= Cap
      /\ Len(A) \in Nat /\ Len(O) \in Nat
  BY BidFacts DEF NotBelow
<1>2. m.i \in 1 .. Len(A) + 1 /\ m.j \in 1 .. Len(O) + 1
  BY DEF Matching
<1>3. m # Start
  BY DEF Start
<1>4. CASE MetBoth(A, O, m)
  <2>1. m.i - 1 \in 1 .. Len(A) /\ m.j - 1 \in 1 .. Len(O) /\ m.a = A[m.i - 1].price /\ m.b = O[m.j - 1].price
    BY <1>1, <1>2, <1>4, SMTT(30) DEF MetBoth
  <2>2. r.price \in {m.a, m.b} /\ r.quantity = m.quantity
    BY <1>4, MatchedAt
  <2> QED BY <1>1, <2>1, <2>2
<1>5. CASE BuyerLeft(A, O, m)
  <2>1. m.i \in 1 .. Len(A) /\ m.a = A[m.i].price
    BY <1>1, <1>2, <1>5 DEF BuyerLeft
  <2>2. r.price = m.a /\ r.quantity = m.quantity
    BY <1>5, MatchedAt
  <2> QED BY <1>1, <2>1, <2>2
<1>6. CASE SellerLeft(A, O, m)
  <2>1. m.j \in 1 .. Len(O) /\ m.a = O[m.j].price
    BY <1>1, <1>2, <1>6 DEF SellerLeft
  <2>2. r.price = m.a /\ r.quantity = m.quantity
    BY <1>6, MatchedAt
  <2> QED BY <1>1, <2>1, <2>2
<1> QED BY <1>3, <1>4, <1>5, <1>6 DEF Matching

(* A result with the price p it comes into force with is a good one.       *)
GoodResult(A, O, r, p) ==
  /\ p \in Int /\ r.quantity \in Int
  /\ mode.special # "sellers" => FairAsks(A, r.quantity, p)
  /\ mode.special # "buyers" => FairOffers(O, r.quantity, p)
  /\ r.type # "exact" => /\ p = r.price
                         /\ r.type = "buyer" => FairAsks(A, r.quantity, p)
                         /\ r.type = "seller" => FairOffers(O, r.quantity, p)
                         /\ Something(A) /\ Something(O) => Shares(A, O, r)

\* Of a double auction that traded, the price is within the cap.
LEMMA DoubleRange ==
  ASSUME NEW A \in Seq(AnyBid), NEW O \in Seq(AnyBid), NotBelow(A), NotBelow(O), NEW stale,
         NEW r, r = DoubleAuction(A, O, stale), r.type \in {"buyer", "seller", "exact"}
  PROVE  /\ Match(A, O).quantity # 0 /\ r = Matched(A, O, Match(A, O), stale)
         /\ r.price \in Int /\ -Cap <= r.price /\ r.price <= Cap /\ r.quantity \in Int
         /\ Limited(r.price) = r.price
<1> DEFINE m == Match(A, O)
<1>1. Matching(A, O, m) /\ MatchEnds(A, O, m)
  BY MatchFacts
<1>2. m.quantity # 0 /\ r = Matched(A, O, m, stale)
  <2> DEFINE q == m.quantity
             buy == Unresponsive(A, Cap)
             sell == Unresponsive(O, -Cap)
             M == Matched(A, O, m, stale)
             nothing == CASE O[1].price = Cap -> A[1].price + Offset
                          [] O[1].price # Cap /\ A[1].price = -Cap -> O[1].price - Offset
                          [] OTHER -> (O[1].price + A[1].price) \div 2
  <2>1. r = CASE q = 0 -> [type |-> "null", quantity |-> 0, price |-> nothing]
              [] q # 0 /\ q < buy -> [type |-> "failure", quantity |-> q, price |-> Cap]
              [] q # 0 /\ q >= buy /\ q < sell -> [type |-> "failure", quantity |-> q, price |-> -Cap]
              [] q # 0 /\ q = buy /\ q = sell -> [type |-> "price", quantity |-> q, price |-> 0]
              [] OTHER -> M
    BY DEF DoubleAuction
  <2> HIDE DEF M, nothing, buy, sell, q
  <2>2. q # 0
    BY <2>1
  <2>3. r = M
    BY <2>1, <2>2
  <2> QED BY <2>2, <2>3 DEF q, M
<1> HIDE DEF m
<1>3. /\ r.price \in Int /\ -Cap <= r.price /\ r.price <= Cap /\ r.quantity = m.quantity
      /\ r.quantity \in Int
  <2>1. m.quantity \in Int
    BY <1>1 DEF Matching, AnyMatch
  <2>2. /\ r.price \in Int /\ -Cap <= r.price /\ r.price <= Cap
        /\ r.quantity = m.quantity
    BY <1>1, <1>2, MatchedRange
  <2> QED BY <2>1, <2>2
<1>4. Limited(r.price) = r.price
  BY <1>3, PriceAssumption DEF Limited, Capped
<1> QED BY <1>2, <1>3, <1>4 DEF m

\* The double auction gives a good result.
LEMMA DoubleGood ==
  ASSUME NEW A \in Seq(AnyBid), NEW O \in Seq(AnyBid), Descending(A), Ascending(O),
         NotBelow(A), NotBelow(O), NEW stale,
         NEW r, r = DoubleAuction(A, O, stale), r.type \in {"buyer", "seller", "exact"},
         ~AllAsked(A, O, r, Limited(r.price))
  PROVE  GoodResult(A, O, r, Limited(r.price))
<1> DEFINE m == Match(A, O)
<1>1. Matching(A, O, m) /\ MatchEnds(A, O, m)
  BY MatchFacts
<1>2. /\ m.quantity # 0 /\ r = Matched(A, O, m, stale) /\ r.price \in Int /\ r.quantity \in Int
      /\ Limited(r.price) = r.price
  BY DoubleRange
<1> HIDE DEF m
<1>3. ~AllAsked(A, O, r, r.price)
  BY <1>2
<1>4. /\ FairAsks(A, r.quantity, r.price) /\ FairOffers(O, r.quantity, r.price)
      /\ Something(A) /\ Something(O) => Shares(A, O, r)
  BY <1>1, <1>2, <1>3, MatchedServes
<1> QED BY <1>2, <1>4 DEF GoodResult

\* All that is to be had at a price, which may be beyond the cap.
LEMMA TakeAtGood ==
  ASSUME NEW bids \in Seq(AnyBid), NotBelow(bids)
  PROVE  LET p == Limited(FixedPrice)
         IN /\ p \in Int
            /\ FairAsks(bids, Priced(bids, AtLeast(FixedPrice)), p)
            /\ FairOffers(bids, Priced(bids, AtMost(FixedPrice)), p)
<1> DEFINE p == Limited(FixedPrice)
<1>1. FixedPrice \in Int /\ Cap \in Nat
  BY MarketAssumption, PriceAssumption
<1>2. /\ p \in Int
      /\ \A x \in Int : -Cap <= x /\ x <= Cap =>
           /\ x >= p + 1 => x >= FixedPrice
           /\ x >= FixedPrice => x >= p
           /\ x <= p - 1 => x <= FixedPrice
           /\ x <= FixedPrice => x <= p
  BY <1>1 DEF Limited, Capped
<1> HIDE DEF p
<1>3. \A k \in 1 .. Len(bids) : bids[k].price \in Int /\ -Cap <= bids[k].price /\ bids[k].price <= Cap
  BY BidFacts DEF NotBelow
<1>4. \A k \in 1 .. Len(bids) :
        /\ bids[k].price \in AtLeast(p + 1) => bids[k].price \in AtLeast(FixedPrice)
        /\ bids[k].price \in AtLeast(FixedPrice) => bids[k].price \in AtLeast(p)
        /\ bids[k].price \in AtMost(p - 1) => bids[k].price \in AtMost(FixedPrice)
        /\ bids[k].price \in AtMost(FixedPrice) => bids[k].price \in AtMost(p)
  BY <1>2, <1>3 DEF AtLeast, AtMost
<1>5. /\ Priced(bids, AtLeast(p + 1)) <= Priced(bids, AtLeast(FixedPrice))
      /\ Priced(bids, AtLeast(FixedPrice)) <= Priced(bids, AtLeast(p))
      /\ Priced(bids, AtMost(p - 1)) <= Priced(bids, AtMost(FixedPrice))
      /\ Priced(bids, AtMost(FixedPrice)) <= Priced(bids, AtMost(p))
  BY <1>4, PricedWithin
<1> QED BY <1>2, <1>5 DEF FairAsks, FairOffers, p

\* So does the market with sellers alone.
LEMMA SellersGood ==
  ASSUME NEW A \in Seq(AnyBid), NEW O \in Seq(AnyBid), Ascending(O), NotBelow(O), NEW stale,
         mode \in Modes, mode.special = "sellers",
         NEW r, r = Result(A, O, stale), r.type \in {"buyer", "seller", "exact"}
  PROVE  GoodResult(A, O, r, Limited(r.price))
<1>1. mode.quantity \in Nat
  BY MarketAssumption
<1>2. CASE mode.quantity > 0
  <2> DEFINE wanted == mode.quantity
             behind == Price(O, 1, stale) - Offset
  <2>1. r = TakeQuantity(O, wanted, "seller", behind)
    BY <1>2 DEF Result
  <2> HIDE DEF behind
  <2>2. /\ r.quantity = wanted /\ r.type \in {"seller", "exact"}
        /\ \E k \in 1 .. Len(O) : /\ r.price = O[k].price /\ wanted <= Upto(O, k)
                                  /\ wanted > 0 => Upto(O, k - 1) < wanted
    BY <1>1, <2>1, TakeFacts
  <2>3. PICK k \in 1 .. Len(O) : /\ r.price = O[k].price /\ wanted <= Upto(O, k)
                                 /\ wanted > 0 => Upto(O, k - 1) < wanted
    BY <2>2
  <2> DEFINE p == r.price
  <2>4. p \in Int /\ -Cap <= p /\ p <= Cap /\ Len(O) \in Nat
    BY <2>3, BidFacts DEF NotBelow
  <2>5. Limited(p) = p
    BY <2>4, PriceAssumption DEF Limited, Capped
  <2>6. k \in 0 .. Len(O) /\ k - 1 \in 0 .. Len(O) /\ O[(k - 1) + 1] = O[k] /\ p - 1 \in Int
    <3>1. (k - 1) + 1 = k
      OBVIOUS
    <3> QED BY <2>4, <3>1
  <2> HIDE DEF p
  <2>7. Priced(O, AtMost(p - 1)) < wanted
    <3>1. O[(k - 1) + 1].price > p - 1
      BY <2>3, <2>4, <2>6 DEF p
    <3>2. /\ Priced(O, AtMost(p - 1)) <= Upto(O, k - 1) /\ Upto(O, k - 1) \in Nat
          /\ Priced(O, AtMost(p - 1)) \in Nat
      BY <2>6, <3>1, OfferBounds
    <3> QED BY <1>1, <1>2, <2>3, <3>2
  <2>8. wanted <= Priced(O, AtMost(p))
    <3>1. O[k].price <= p
      BY <2>3, <2>4 DEF p
    <3>2. /\ Upto(O, k) <= Priced(O, AtMost(p)) /\ Upto(O, k) \in Nat
          /\ Priced(O, AtMost(p)) \in Nat
      BY <2>4, <2>6, <3>1, OfferBounds
    <3> QED BY <1>1, <2>3, <3>2
  <2>9. Priced(O, AtMost(p - 1)) <= wanted
    <3>1. Priced(O, AtMost(p - 1)) \in Nat
      BY <2>6, OfferBounds
    <3> QED BY <1>1, <2>7, <3>1
  <2>10. FairOffers(O, r.quantity, p)
    BY <2>2, <2>8, <2>9 DEF FairOffers
  <2>11. Shares(A, O, r)
    BY <2>2, <2>7 DEF Shares, p
  <2> QED BY <1>1, <2>2, <2>4, <2>5, <2>10, <2>11 DEF GoodResult, p
<1>3. CASE mode.quantity = 0
  <2> DEFINE f == [k \in 1 .. Len(O) |-> IF O[k].price <= FixedPrice THEN O[k].quantity ELSE 0]
  <2>1. /\ r.type \in {"exact", "null"} /\ r.price = FixedPrice /\ r.quantity = SumTo(f, Len(O))
    <3>1. r = [type |-> IF SumTo(f, Len(O)) > 0 THEN "exact" ELSE "null",
               quantity |-> SumTo(f, Len(O)), price |-> FixedPrice]
      BY <1>3 DEF Result, TakeAt, Quantity
    <3> HIDE DEF f
    <3> QED BY <3>1
  <2>2. \A k \in 1 .. Len(O) : f[k] = IF O[k].price \in AtMost(FixedPrice) THEN O[k].quantity ELSE 0
    BY BidFacts DEF AtMost
  <2> HIDE DEF f
  <2>3. r.quantity = Priced(O, AtMost(FixedPrice))
    BY <2>1, <2>2, PricedIs
  <2>4. Priced(O, AtMost(FixedPrice)) \in Nat
    <3>1. 0 \in 0 .. Len(O)
      BY BidFacts
    <3> QED BY <3>1, PricedBounds
  <2> QED BY <2>1, <2>3, <2>4, TakeAtGood DEF GoodResult
<1> QED BY <1>1, <1>2, <1>3

\* And so does the one with buyers alone.
LEMMA BuyersGood ==
  ASSUME NEW A \in Seq(AnyBid), NEW O \in Seq(AnyBid), Descending(A), NotBelow(A), NEW stale,
         mode \in Modes, mode.special = "buyers",
         NEW r, r = Result(A, O, stale), r.type \in {"buyer", "seller", "exact"}
  PROVE  GoodResult(A, O, r, Limited(r.price))
<1>1. mode.quantity \in Nat
  BY MarketAssumption
<1>2. CASE mode.quantity > 0
  <2> DEFINE wanted == mode.quantity
             behind == Price(A, 1, stale) + Offset
  <2>1. r = TakeQuantity(A, wanted, "buyer", behind)
    BY <1>2 DEF Result
  <2> HIDE DEF behind
  <2>2. /\ r.quantity = wanted /\ r.type \in {"buyer", "exact"}
        /\ \E k \in 1 .. Len(A) : /\ r.price = A[k].price /\ wanted <= Upto(A, k)
                                  /\ wanted > 0 => Upto(A, k - 1) < wanted
    BY <1>1, <2>1, TakeFacts
  <2>3. PICK k \in 1 .. Len(A) : /\ r.price = A[k].price /\ wanted <= Upto(A, k)
                                 /\ wanted > 0 => Upto(A, k - 1) < wanted
    BY <2>2
  <2> DEFINE p == r.price
  <2>4. p \in Int /\ -Cap <= p /\ p <= Cap /\ Len(A) \in Nat
    BY <2>3, BidFacts DEF NotBelow
  <2>5. Limited(p) = p
    BY <2>4, PriceAssumption DEF Limited, Capped
  <2>6. k \in 0 .. Len(A) /\ k - 1 \in 0 .. Len(A) /\ A[(k - 1) + 1] = A[k] /\ p + 1 \in Int
    <3>1. (k - 1) + 1 = k
      OBVIOUS
    <3> QED BY <2>4, <3>1
  <2> HIDE DEF p
  <2>7. Priced(A, AtLeast(p + 1)) < wanted
    <3>1. A[(k - 1) + 1].price < p + 1
      BY <2>3, <2>4, <2>6 DEF p
    <3>2. /\ Priced(A, AtLeast(p + 1)) <= Upto(A, k - 1) /\ Upto(A, k - 1) \in Nat
          /\ Priced(A, AtLeast(p + 1)) \in Nat
      BY <2>6, <3>1, AskBounds
    <3> QED BY <1>1, <1>2, <2>3, <3>2
  <2>8. wanted <= Priced(A, AtLeast(p))
    <3>1. A[k].price >= p
      BY <2>3, <2>4 DEF p
    <3>2. /\ Upto(A, k) <= Priced(A, AtLeast(p)) /\ Upto(A, k) \in Nat
          /\ Priced(A, AtLeast(p)) \in Nat
      BY <2>4, <2>6, <3>1, AskBounds
    <3> QED BY <1>1, <2>3, <3>2
  <2>9. Priced(A, AtLeast(p + 1)) <= wanted
    <3>1. Priced(A, AtLeast(p + 1)) \in Nat
      BY <2>6, AskBounds
    <3> QED BY <1>1, <2>7, <3>1
  <2>10. FairAsks(A, r.quantity, p)
    BY <2>2, <2>8, <2>9 DEF FairAsks
  <2>11. Shares(A, O, r)
    BY <2>2, <2>7 DEF Shares, p
  <2> QED BY <1>1, <2>2, <2>4, <2>5, <2>10, <2>11 DEF GoodResult, p
<1>3. CASE mode.quantity = 0
  <2> DEFINE f == [k \in 1 .. Len(A) |-> IF A[k].price >= FixedPrice THEN A[k].quantity ELSE 0]
  <2>1. /\ r.type \in {"exact", "null"} /\ r.price = FixedPrice /\ r.quantity = SumTo(f, Len(A))
    <3>1. r = [type |-> IF SumTo(f, Len(A)) > 0 THEN "exact" ELSE "null",
               quantity |-> SumTo(f, Len(A)), price |-> FixedPrice]
      BY <1>3 DEF Result, TakeAt, Quantity
    <3> HIDE DEF f
    <3> QED BY <3>1
  <2>2. \A k \in 1 .. Len(A) : f[k] = IF A[k].price \in AtLeast(FixedPrice) THEN A[k].quantity ELSE 0
    BY BidFacts, MarketAssumption DEF AtLeast
  <2> HIDE DEF f
  <2>3. r.quantity = Priced(A, AtLeast(FixedPrice))
    BY <2>1, <2>2, PricedIs
  <2>4. Priced(A, AtLeast(FixedPrice)) \in Nat
    <3>1. 0 \in 0 .. Len(A)
      BY BidFacts
    <3> QED BY <3>1, PricedBounds
  <2> QED BY <2>1, <2>3, <2>4, TakeAtGood DEF GoodResult
<1> QED BY <1>1, <1>2, <1>3

\* In every mode the price goes with the quantity.
LEMMA ResultServes ==
  ASSUME NEW bk \in Books, TotalsOf(bk), mode \in Modes, NEW stale,
         NEW r, r = Result(Falling(bk.asks), Rising(bk.offers), stale),
         NEW c, c.price = Limited(r.price), c.quantity = r.quantity, c.type = r.type,
         c.marginal = Marginal(Falling(bk.asks), Rising(bk.offers), r)
  PROVE  Serves(bk, c)
<1> DEFINE A == Falling(bk.asks)
           O == Rising(bk.offers)
           p == c.price
<1> SUFFICES ASSUME c.type \in {"buyer", "seller", "exact"}, ~AsksExhausted(bk, c), NoneBelow(bk)
             PROVE  /\ mode.special # "sellers" => /\ Demand(bk, p + 1) <= c.quantity
                                                   /\ c.quantity <= Demand(bk, p)
                    /\ mode.special # "buyers" => /\ Supply(bk, p - 1) <= c.quantity
                                                  /\ c.quantity <= Supply(bk, p)
                    /\ c.type # "exact" => /\ NoneEmpty(bk) => 0 < c.marginal.quantity
                                           /\ c.marginal.quantity <= c.marginal.total
  BY DEF Serves
<1>1. /\ bk.asks \in AnyCurve /\ bk.offers \in AnyCurve
      /\ bk \in [asks : AnyCurve, offers : AnyCurve]
  BY DEF Books
<1>2. /\ A \in Seq(AnyBid) /\ O \in Seq(AnyBid) /\ Descending(A) /\ Ascending(O)
      /\ ToSet(A) = ToSet(bk.asks.bids) /\ ToSet(O) = ToSet(bk.offers.bids)
  BY <1>1, FallingFacts, RisingFacts DEF Descending, Ascending
<1>3. NotBelow(A) /\ NotBelow(O)
  <2>1. \A bid \in ToSet(A) \cup ToSet(O) : bid.price >= -Cap
    BY <1>2 DEF NoneBelow, BidPrices
  <2> HIDE DEF A, O
  <2>2. DOMAIN A = 1 .. Len(A) /\ DOMAIN O = 1 .. Len(O)
    BY <1>2, BidFacts
  <2> QED BY <2>1, <2>2 DEF ToSet, NotBelow
<1>4. NoneEmpty(bk) => Something(A) /\ Something(O)
  <2> SUFFICES ASSUME NoneEmpty(bk) PROVE Something(A) /\ Something(O)
    OBVIOUS
  <2>1. \A bid \in ToSet(A) \cup ToSet(O) : bid.quantity > 0
    BY <1>2 DEF NoneEmpty
  <2> HIDE DEF A, O
  <2>2. DOMAIN A = 1 .. Len(A) /\ DOMAIN O = 1 .. Len(O)
    BY <1>2, BidFacts
  <2> QED BY <2>1, <2>2 DEF ToSet, Something
<1>5. bk.asks.total = Upto(A, Len(A))
  <2> DEFINE bids == bk.asks.bids
             f == [k \in 1 .. Len(bids) |-> IF TRUE THEN bids[k].quantity ELSE 0]
  <2>1. bids \in Seq(AnyBid) /\ Priced(A, Int) = Priced(bids, Int)
    BY <1>1, FallingFacts DEF AnyCurve
  <2>2. bk.asks.total = SumTo(f, Len(bids))
    BY DEF TotalsOf, CurveTotals, Quantity
  <2>3. \A k \in 1 .. Len(bids) : f[k] = IF bids[k].price \in Int THEN bids[k].quantity ELSE 0
    BY <2>1, BidFacts
  <2> HIDE DEF f, bids, A
  <2>4. SumTo(f, Len(bids)) = Priced(bids, Int)
    BY <2>1, <2>3, PricedIs
  <2>5. \A k \in 1 .. Len(A) : Amount(A)[k] = IF A[k].price \in Int THEN A[k].quantity ELSE 0
    BY <1>2, BidFacts
  <2>6. SumTo(Amount(A), Len(A)) = Priced(A, Int)
    BY <1>2, <2>5, PricedIs
  <2> QED BY <2>1, <2>2, <2>4, <2>6 DEF Upto
<1>6. \A x \in Int : Demand(bk, x) = Priced(A, AtLeast(x)) /\ Supply(bk, x) = Priced(O, AtMost(x))
  BY <1>1, HeardSorted
<1> HIDE DEF A, O
<1>7. GoodResult(A, O, r, p)
  <2>1. CASE mode.special = "sellers"
    BY <1>2, <1>3, <2>1, SellersGood DEF A, O
  <2>2. CASE mode.special = "buyers"
    BY <1>2, <1>3, <2>2, BuyersGood DEF A, O
  <2>3. CASE mode.special \notin {"sellers", "buyers"}
    <3>1. r = IF A # <<>> /\ O # <<>> THEN DoubleAuction(A, O, stale) ELSE NoAuction(A, O)
      BY <2>3 DEF Result, A, O
    <3>2. NoAuction(A, O).type = "null"
      BY DEF NoAuction
    <3>3. r = DoubleAuction(A, O, stale)
      BY <3>1, <3>2
    <3>4. ~AllAsked(A, O, r, Limited(r.price))
      <4>1. r.type = c.type /\ r.quantity = c.quantity /\ Limited(r.price) = p
        OBVIOUS
      <4>2. p \in Int /\ c.quantity \in Int
        BY <1>2, <1>3, <3>3, DoubleRange
      <4>3. Supply(bk, p - 1) = Priced(O, AtMost(p - 1)) /\ Priced(O, AtMost(p - 1)) \in Nat
        BY <1>1, <1>6, <4>2, HeardSorted
      <4> HIDE DEF p
      <4> QED BY <1>5, <4>1, <4>2, <4>3 DEF AllAsked, AsksExhausted
    <3> QED BY <1>2, <1>3, <3>3, <3>4, DoubleGood
  <2> QED BY <2>1, <2>2, <2>3
<1>8. p \in Int /\ c.quantity \in Int /\ p + 1 \in Int /\ p - 1 \in Int
  BY <1>7 DEF GoodResult
<1>9. /\ mode.special # "sellers" => /\ Demand(bk, p + 1) <= c.quantity
                                     /\ c.quantity <= Demand(bk, p)
      /\ mode.special # "buyers" => /\ Supply(bk, p - 1) <= c.quantity
                                    /\ c.quantity <= Supply(bk, p)
  BY <1>6, <1>7, <1>8 DEF GoodResult, FairAsks, FairOffers
<1>10. ASSUME c.type # "exact"
       PROVE  /\ NoneEmpty(bk) => 0 < c.marginal.quantity
              /\ c.marginal.quantity <= c.marginal.total
  <2>1. r.price = p /\ r.price \in Int /\ r.quantity \in Int /\ r.type \in {"buyer", "seller"}
    BY <1>7, <1>10 DEF GoodResult
  <2>2. c.marginal = Marginal(A, O, r)
    BY DEF A, O
  <2>3. CASE r.type = "buyer"
    <3>1. FairAsks(A, r.quantity, r.price) /\ (NoneEmpty(bk) => Priced(A, AtLeast(p + 1)) < r.quantity)
      BY <1>4, <1>7, <2>1, <2>3 DEF GoodResult, Shares
    <3>2. /\ c.marginal.quantity = r.quantity - Priced(A, AtLeast(p + 1))
          /\ c.marginal.quantity <= c.marginal.total
      <4>1. /\ Marginal(A, O, r).quantity = r.quantity - Priced(A, AtLeast(r.price + 1))
            /\ Marginal(A, O, r).quantity <= Marginal(A, O, r).total
        BY <1>2, <2>1, <2>3, <3>1, MarginalFacts
      <4> HIDE DEF p
      <4> QED BY <2>1, <2>2, <4>1
    <3>3. Priced(A, AtLeast(p + 1)) \in Nat
      BY <1>1, <1>6, <1>8, HeardSorted
    <3> QED BY <2>1, <3>1, <3>2, <3>3
  <2>4. CASE r.type = "seller"
    <3>1. FairOffers(O, r.quantity, r.price) /\ (NoneEmpty(bk) => Priced(O, AtMost(p - 1)) < r.quantity)
      BY <1>4, <1>7, <2>1, <2>4 DEF GoodResult, Shares
    <3>2. /\ c.marginal.quantity = r.quantity - Priced(O, AtMost(p - 1))
          /\ c.marginal.quantity <= c.marginal.total
      <4>1. /\ Marginal(A, O, r).quantity = r.quantity - Priced(O, AtMost(r.price - 1))
            /\ Marginal(A, O, r).quantity <= Marginal(A, O, r).total
        BY <1>2, <2>1, <2>4, <3>1, MarginalFacts
      <4> HIDE DEF p
      <4> QED BY <2>1, <2>2, <4>1
    <3>3. Priced(O, AtMost(p - 1)) \in Nat
      BY <1>1, <1>6, <1>8, HeardSorted
    <3> QED BY <2>1, <3>1, <3>2, <3>3
  <2> QED BY <2>1, <2>3, <2>4
<1> QED BY <1>9, <1>10

\* The price serves the bids that it should, and the marginal ones in part.
THEOREM PriceIsRight == Spec => PriceServes
<1>1. Init => BidsInv
  BY KeyInvInit, TotalsEmpty DEF Init, EmptyBook, BidsInv, TotalsInv, Side
<1>2. BidsInv /\ [Next]_vars => BidsInv'
  BY BidsInvStep
<1>3. BidsInv /\ [Next]_vars => [EachClearing(Serves)]_vars
  <2> SUFFICES ASSUME BidsInv, [Next]_vars, market' # market
               PROVE  Serves(Heard, cleared')
    BY DEF EachClearing
  <2>1. ClearMarket
    BY ClearsOnly
  <2> DEFINE A == Falling(Heard.asks)
             O == Rising(Heard.offers)
  <2>2. PICK stale \in StalePrices :
          LET r == Result(A, O, stale)
          IN /\ cleared'.price = Limited(r.price) /\ cleared'.quantity = r.quantity
             /\ cleared'.type = r.type /\ cleared'.marginal = Marginal(A, O, r)
    BY <2>1 DEF ClearMarket
  <2>3. Heard \in Books /\ TotalsOf(Heard) /\ mode \in Modes
    BY HeardBooks DEF BidsInv
  <2> QED BY <2>2, <2>3, ResultServes
<1> QED BY <1>1, <1>2, <1>3, PTL DEF Spec, PriceServes

---------------------------------------------------------------------------
(* The price of a market that splits *)

(* Prices that leave room for one in between.                              *)
RoomBetween(P) ==
  /\ P \subseteq Int
  /\ \A p, q \in P : p < q => p + Offset < q /\ (p + q) \div 2 \notin P

\* Bids that do not get on at the same price are not of those matched.
LEMMA RoomNext ==
  ASSUME NEW A \in Seq(AnyBid), NEW O \in Seq(AnyBid), Descending(A), Ascending(O),
         NEW P, RoomBetween(P),
         \A k \in 1 .. Len(A) : A[k].price \in P, \A k \in 1 .. Len(O) : O[k].price \in P,
         NEW m, Matching(A, O, m), MatchEnds(A, O, m), MetBoth(A, O, m),
         ~LeftAt(A, m.i, m.a), ~LeftAt(O, m.j, m.b)
  PROVE  /\ m.i - 1 \in 1 .. Len(A) /\ m.j - 1 \in 1 .. Len(O) /\ m.a \in P /\ m.b \in P /\ m.b <= m.a
         /\ m.i <= Len(A) => A[m.i].price \in P /\ A[m.i].price < m.a
         /\ m.j <= Len(O) => O[m.j].price \in P /\ O[m.j].price > m.b
         /\ m.i <= Len(A) /\ m.j <= Len(O) => A[m.i].price < O[m.j].price
<1> DEFINE i == m.i
           j == m.j
<1>1. /\ Len(A) \in Nat /\ Len(O) \in Nat /\ i \in 1 .. Len(A) + 1 /\ j \in 1 .. Len(O) + 1
      /\ DOMAIN A = 1 .. Len(A) /\ DOMAIN O = 1 .. Len(O)
  BY BidFacts DEF Matching
<1>2. i > 1 /\ j > 1 /\ m.a = A[i - 1].price /\ m.b = O[j - 1].price /\ m.b <= m.a
  BY DEF MetBoth
<1>3. i <= Len(A) => A[i].price # m.a
  BY <1>1 DEF LeftAt
<1>4. j <= Len(O) => O[j].price # m.b
  BY <1>1 DEF LeftAt
<1>5. i <= Len(A) /\ j <= Len(O) => A[i].price < O[j].price
  BY <1>1 DEF MatchEnds
<1> HIDE DEF i, j
<1>6. i - 1 \in 1 .. Len(A) /\ j - 1 \in 1 .. Len(O)
  BY <1>1, <1>2
<1>7. i <= Len(A) => A[i].price \in P /\ A[i - 1].price \in P /\ A[i - 1].price >= A[i].price
  BY <1>1, <1>6 DEF Descending
<1>8. j <= Len(O) => O[j].price \in P /\ O[j - 1].price \in P /\ O[j - 1].price <= O[j].price
  BY <1>1, <1>6 DEF Ascending
<1>9. P \subseteq Int /\ m.a \in P /\ m.b \in P
  BY <1>2, <1>6 DEF RoomBetween
<1>10. i <= Len(A) => A[i].price < m.a
  <2> SUFFICES ASSUME i <= Len(A) PROVE A[i].price < m.a
    OBVIOUS
  <2>1. A[i].price \in Int /\ m.a \in Int
    BY <1>7, <1>9
  <2>2. m.a >= A[i].price /\ A[i].price # m.a
    BY <1>2, <1>3, <1>7
  <2> QED BY <2>1, <2>2
<1>11. j <= Len(O) => O[j].price > m.b
  <2> SUFFICES ASSUME j <= Len(O) PROVE O[j].price > m.b
    OBVIOUS
  <2>1. O[j].price \in Int /\ m.b \in Int
    BY <1>8, <1>9
  <2>2. m.b <= O[j].price /\ O[j].price # m.b
    BY <1>2, <1>4, <1>8
  <2> QED BY <2>1, <2>2
<1> QED BY <1>2, <1>5, <1>6, <1>7, <1>8, <1>9, <1>10, <1>11 DEF i, j

\* What the numbers come to when there is room.
LEMMA RoomPrice ==
  ASSUME NEW P, RoomBetween(P), Offset > 0, NEW a \in P, NEW b \in P, b < a,
         NEW buy, NEW sell, NEW noBuyer \in BOOLEAN, NEW noSeller \in BOOLEAN,
         ~noBuyer => buy \in P /\ buy < a, ~noSeller => sell \in P /\ sell > b,
         ~noBuyer /\ ~noSeller => buy < sell,
         NEW avg, avg = (a + b) \div 2, NEW p,
         ~noBuyer /\ avg < buy => p = buy + Offset,
         ~noSeller /\ (noBuyer \/ avg >= buy) /\ avg > sell => p = sell - Offset,
         (noBuyer \/ avg >= buy) /\ (noSeller \/ avg <= sell) => p = avg
  PROVE  p \in b .. a /\ (~noBuyer => buy < p) /\ (~noSeller => sell > p)
<1>1. a \in Int /\ b \in Int /\ Offset \in Nat /\ b + Offset < a
  BY PriceAssumption DEF RoomBetween
<1>2. avg \in Int /\ b <= avg /\ avg <= a /\ avg \notin P
  <2>1. avg \in Int /\ b <= avg /\ avg <= a
    BY <1>1, Z3
  <2>2. (b + a) \div 2 \notin P /\ b + a = a + b
    BY <1>1 DEF RoomBetween
  <2> QED BY <2>1, <2>2
<1>3. ~noBuyer => buy \in Int /\ buy # avg /\ buy + Offset < a
  <2>1. ~noBuyer => buy \in Int /\ buy + Offset < a
    BY DEF RoomBetween
  <2> QED BY <1>2, <2>1
<1>4. ~noSeller => sell \in Int /\ sell # avg /\ b + Offset < sell
  <2>1. ~noSeller => sell \in Int /\ b + Offset < sell
    BY DEF RoomBetween
  <2> QED BY <1>2, <2>1
<1>5. ~noBuyer /\ ~noSeller => buy + Offset < sell
  BY DEF RoomBetween
<1>6. /\ ~noBuyer => (avg >= buy <=> ~(avg < buy))
      /\ ~noSeller => (avg <= sell <=> ~(avg > sell))
  BY <1>2, <1>3, <1>4
<1>7. CASE ~noBuyer /\ avg < buy
  BY <1>1, <1>2, <1>3, <1>4, <1>5, <1>7
<1>8. CASE ~(~noBuyer /\ avg < buy) /\ ~noSeller /\ avg > sell
  <2>1. p = sell - Offset
    BY <1>6, <1>8
  <2> QED BY <1>1, <1>2, <1>3, <1>4, <1>5, <1>6, <1>8, <2>1
<1>9. CASE ~(~noBuyer /\ avg < buy) /\ ~(~noSeller /\ avg > sell)
  <2>1. p = avg
    BY <1>6, <1>9
  <2> QED BY <1>1, <1>2, <1>3, <1>4, <1>6, <1>9, <2>1
<1> QED BY <1>7, <1>8, <1>9

\* When one side does not respond, the price is off its next bid or at the
\* last one of the other side.
LEMMA EdgePrice ==
  ASSUME NEW P, RoomBetween(P), Offset > 0, NEW a \in P, NEW b \in P, b < a,
         NEW buy, NEW sell, NEW noBuyer \in BOOLEAN, NEW noSeller \in BOOLEAN,
         ~noBuyer => buy \in P /\ buy < a, ~noSeller => sell \in P /\ sell > b,
         ~noBuyer /\ ~noSeller => buy < sell
  PROVE  /\ ~noBuyer /\ buy # b =>
              LET p == JustAbove(buy, b)
              IN p \in b .. a /\ buy < p /\ (~noSeller => sell > p)
         /\ ~noSeller /\ sell # a =>
              LET p == JustBelow(sell, a)
              IN p \in b .. a /\ sell > p /\ (~noBuyer => buy < p)
<1>1. a \in Int /\ b \in Int /\ Offset \in Nat /\ P \subseteq Int
  BY PriceAssumption DEF RoomBetween
<1>2. ASSUME ~noBuyer, buy # b
      PROVE  LET p == JustAbove(buy, b)
             IN p \in b .. a /\ buy < p /\ (~noSeller => sell > p)
  <2>1. buy \in Int /\ buy + Offset < a /\ (~noSeller => sell \in Int /\ buy + Offset < sell)
    BY <1>1, <1>2 DEF RoomBetween
  <2>2. CASE buy > b
    BY <1>1, <2>1, <2>2 DEF JustAbove
  <2>3. CASE buy < b
    BY <1>1, <2>1, <2>3 DEF JustAbove
  <2> QED BY <1>1, <1>2, <2>1, <2>2, <2>3
<1>3. ASSUME ~noSeller, sell # a
      PROVE  LET p == JustBelow(sell, a)
             IN p \in b .. a /\ sell > p /\ (~noBuyer => buy < p)
  <2>1. sell \in Int /\ b + Offset < sell /\ (~noBuyer => buy \in Int /\ buy + Offset < sell)
    BY <1>1, <1>3 DEF RoomBetween
  <2>2. CASE sell < a
    BY <1>1, <2>1, <2>2 DEF JustBelow
  <2>3. CASE sell > a
    BY <1>1, <2>1, <2>3 DEF JustBelow
  <2> QED BY <1>1, <1>3, <2>1, <2>2, <2>3
<1> QED BY <1>2, <1>3

(* Where only one side responds, it has a next bid, away from the last one *)
(* of the other side.                                                      *)
EndsApart(A, O, m) ==
  /\ ~(m.a = Cap /\ m.b = -Cap)
  /\ m.a = Cap => m.i <= Len(A) /\ A[m.i].price # m.b
  /\ m.b = -Cap => m.j <= Len(O) /\ O[m.j].price # m.a

\* Where the price of a split market is.
LEMMA SplitRange ==
  ASSUME NEW A \in Seq(AnyBid), NEW O \in Seq(AnyBid), Descending(A), Ascending(O), Offset > 0,
         NEW P, RoomBetween(P), NEW stale,
         \A k \in 1 .. Len(A) : A[k].price \in P, \A k \in 1 .. Len(O) : O[k].price \in P,
         NEW m, Matching(A, O, m), MatchEnds(A, O, m), MetBoth(A, O, m), EndsApart(A, O, m),
         ~LeftAt(A, m.i, m.a), ~LeftAt(O, m.j, m.b), m.a # m.b
  PROVE  LET p == SplitPrice(A, O, m, stale)
         IN /\ p \in m.b .. m.a
            /\ m.i <= Len(A) => A[m.i].price < p
            /\ m.j <= Len(O) => O[m.j].price > p
<1> DEFINE i == m.i
           j == m.j
           a == m.a
           b == m.b
           noBuyer == i > Len(A)
           noSeller == j > Len(O)
           buy == Price(A, i, stale)
           sell == Price(O, j, stale)
           high == IF noBuyer THEN a ELSE buy
           low == IF noSeller THEN b ELSE sell
           avg == (a + b) \div 2
           p == SplitPrice(A, O, m, stale)
<1>1. /\ Len(A) \in Nat /\ Len(O) \in Nat /\ i \in 1 .. Len(A) + 1 /\ j \in 1 .. Len(O) + 1
      /\ DOMAIN A = 1 .. Len(A) /\ DOMAIN O = 1 .. Len(O)
  BY BidFacts DEF Matching
<1>2. /\ a \in P /\ b \in P /\ b <= a /\ a # b
      /\ i <= Len(A) => A[i].price \in P /\ A[i].price < a
      /\ j <= Len(O) => O[j].price \in P /\ O[j].price > b
      /\ i <= Len(A) /\ j <= Len(O) => A[i].price < O[j].price
  BY RoomNext
<1>3. /\ a = Cap /\ b # -Cap => p = JustAbove(buy, b)
      /\ a # Cap /\ b = -Cap => p = JustBelow(sell, a)
  BY DEF SplitPrice
<1> DEFINE between == CASE ~noBuyer /\ buy = a -> a
                        [] ~noSeller /\ sell = b -> b
                        [] ~noBuyer /\ buy # a /\ avg < buy -> high + Offset
                        [] ~noSeller /\ sell # b /\ (noBuyer \/ avg >= buy) /\ avg > sell -> low - Offset
                        [] OTHER -> avg
<1>4. a # Cap /\ b # -Cap => p = between
  BY DEF SplitPrice
<1>5. (~noBuyer => buy = A[i].price) /\ (~noSeller => sell = O[j].price)
  BY <1>1 DEF Price
<1>6. (~noBuyer => i <= Len(A)) /\ (~noSeller => j <= Len(O))
  BY <1>1
<1>7. a \in Int /\ b \in Int /\ b < a /\ P \subseteq Int
  <2>1. P \subseteq Int
    BY DEF RoomBetween
  <2> HIDE DEF a, b
  <2> QED BY <1>2, <2>1
<1>8. (~noBuyer => high = buy) /\ (~noSeller => low = sell)
  OBVIOUS
<1> HIDE DEF buy, sell, high, low, i, j, a, b, p
<1>9. (~noBuyer => buy \in P /\ buy < a) /\ (~noSeller => sell \in P /\ sell > b)
      /\ (~noBuyer /\ ~noSeller => buy < sell)
  BY <1>2, <1>5, <1>6
<1>10. (~noBuyer => buy # a) /\ (~noSeller => sell # b)
  BY <1>7, <1>9
<1> HIDE DEF avg, noBuyer, noSeller
<1>11. /\ ~noBuyer /\ avg < buy => between = buy + Offset
       /\ ~noSeller /\ (noBuyer \/ avg >= buy) /\ avg > sell => between = sell - Offset
       /\ (noBuyer \/ avg >= buy) /\ (noSeller \/ avg <= sell) => between = avg
  <2>1. /\ avg \in Int /\ P \subseteq Int
        /\ ~noBuyer => buy \in Int
        /\ ~noSeller => sell \in Int
    <3>1. avg \in Int
      BY <1>7, Z3 DEF avg
    <3> QED BY <1>7, <1>9, <3>1
  <2>2. /\ ~noBuyer => (avg >= buy <=> ~(avg < buy))
        /\ ~noSeller => (avg <= sell <=> ~(avg > sell))
    BY <2>1
  <2>3. CASE ~noBuyer /\ avg < buy
    BY <1>8, <1>10, <2>2, <2>3
  <2>4. CASE ~(~noBuyer /\ avg < buy)
    BY <1>8, <1>10, <2>2, <2>4
  <2> QED BY <2>3, <2>4
<1>12. noBuyer \in BOOLEAN /\ noSeller \in BOOLEAN
  BY DEF noBuyer, noSeller
<1> HIDE DEF between
<1>13. p \in b .. a /\ (~noBuyer => buy < p) /\ (~noSeller => sell > p)
  <2>1. CASE a # Cap /\ b # -Cap
    <3>1. p = between
      BY <1>4, <2>1
    <3>2. between \in b .. a /\ (~noBuyer => buy < between) /\ (~noSeller => sell > between)
      BY <1>2, <1>7, <1>9, <1>11, <1>12, RoomPrice DEF avg
    <3> QED BY <3>1, <3>2
  <2>2. CASE a = Cap
    <3>1. i <= Len(A) /\ A[i].price # b /\ b # -Cap
      BY <2>2 DEF EndsApart, a, b, i
    <3>2. ~noBuyer /\ buy # b
      BY <1>1, <1>5, <3>1 DEF noBuyer
    <3>3. p = JustAbove(buy, b)
      BY <1>3, <2>2, <3>1
    <3> QED BY <1>2, <1>7, <1>9, <1>12, <3>2, <3>3, EdgePrice
  <2>3. CASE b = -Cap
    <3>1. j <= Len(O) /\ O[j].price # a /\ a # Cap
      BY <2>3 DEF EndsApart, a, b, j
    <3>2. ~noSeller /\ sell # a
      BY <1>1, <1>5, <3>1 DEF noSeller
    <3>3. p = JustBelow(sell, a)
      BY <1>3, <2>3, <3>1
    <3> QED BY <1>2, <1>7, <1>9, <1>12, <3>2, <3>3, EdgePrice
  <2> QED BY <2>1, <2>2, <2>3
<1>14. (i <= Len(A) => ~noBuyer) /\ (j <= Len(O) => ~noSeller)
  BY <1>1 DEF noBuyer, noSeller
<1> QED BY <1>5, <1>13, <1>14 DEF i, j, a, b, p

\* What does not respond, in the two ways that it is counted.
LEMMA UnresponsiveIs ==
  ASSUME NEW A \in Seq(AnyBid), NEW O \in Seq(AnyBid), NotBelow(O)
  PROVE  /\ Unresponsive(A, Cap) = Priced(A, AtLeast(Cap))
         /\ Unresponsive(O, -Cap) = Priced(O, AtMost(-Cap))
         /\ Priced(A, AtLeast(Cap)) \in Nat /\ Priced(O, AtMost(-Cap)) \in Nat
<1> DEFINE f == [k \in 1 .. Len(A) |-> IF A[k].price = Cap THEN A[k].quantity ELSE 0]
           g == [k \in 1 .. Len(O) |-> IF O[k].price = -Cap THEN O[k].quantity ELSE 0]
<1>1. Unresponsive(A, Cap) = SumTo(f, Len(A)) /\ Unresponsive(O, -Cap) = SumTo(g, Len(O))
  BY DEF Unresponsive, Quantity
<1>2. \A k \in 1 .. Len(A) : f[k] = IF A[k].price \in AtLeast(Cap) THEN A[k].quantity ELSE 0
  <2>1. \A k \in 1 .. Len(A) : A[k].price \in AtLeast(Cap) <=> A[k].price = Cap
    BY BidFacts, PriceAssumption DEF AtLeast
  <2> QED BY <2>1
<1>3. \A k \in 1 .. Len(O) : g[k] = IF O[k].price \in AtMost(-Cap) THEN O[k].quantity ELSE 0
  <2>1. \A k \in 1 .. Len(O) : O[k].price \in AtMost(-Cap) <=> O[k].price = -Cap
    <3>1. -Cap \in Int /\ \A k \in 1 .. Len(O) : O[k].price \in Int /\ O[k].price >= -Cap
      BY BidFacts, PriceAssumption DEF NotBelow
    <3> QED BY <3>1 DEF AtMost
  <2> QED BY <2>1
<1> HIDE DEF f, g
<1>4. 0 \in 0 .. Len(A) /\ 0 \in 0 .. Len(O)
  BY BidFacts
<1> QED BY <1>1, <1>2, <1>3, <1>4, PricedIs, PricedBounds

\* Unless all that is matched is loads and sources that do not respond, a
\* price type comes from the ends of the matching.
LEMMA PriceType ==
  ASSUME NEW A \in Seq(AnyBid), NEW O \in Seq(AnyBid), Descending(A), Ascending(O), NEW stale,
         NotBelow(O), NEW m, m = Match(A, O), NEW r, r = DoubleAuction(A, O, stale), r.type = "price",
         ~(Priced(A, AtLeast(Cap)) = m.quantity /\ Priced(O, AtMost(-Cap)) = m.quantity)
  PROVE  /\ MetBoth(A, O, m) /\ ~LeftAt(A, m.i, m.a) /\ ~LeftAt(O, m.j, m.b) /\ m.a # m.b
         /\ r.quantity = m.quantity /\ r.price = SplitPrice(A, O, m, stale)
<1> DEFINE q == m.quantity
           buy == Unresponsive(A, Cap)
           sell == Unresponsive(O, -Cap)
           M == Matched(A, O, m, stale)
           nothing == CASE O[1].price = Cap -> A[1].price + Offset
                        [] O[1].price # Cap /\ A[1].price = -Cap -> O[1].price - Offset
                        [] OTHER -> (O[1].price + A[1].price) \div 2
<1>1. Matching(A, O, m)
  BY MatchFacts
<1>2. r = CASE q = 0 -> [type |-> "null", quantity |-> 0, price |-> nothing]
            [] q # 0 /\ q < buy -> [type |-> "failure", quantity |-> q, price |-> Cap]
            [] q # 0 /\ q >= buy /\ q < sell -> [type |-> "failure", quantity |-> q, price |-> -Cap]
            [] q # 0 /\ q = buy /\ q = sell -> [type |-> "price", quantity |-> q, price |-> 0]
            [] OTHER -> M
  BY DEF DoubleAuction
<1>3. buy \in Nat /\ sell \in Nat /\ ~(q = buy /\ q = sell)
  BY UnresponsiveIs
<1> HIDE DEF M, nothing, buy, sell
<1>4. q \in Int /\ q # 0
  <2>1. q \in Int
    BY <1>1 DEF Matching, AnyMatch
  <2>2. q # 0
    BY <1>2
  <2> QED BY <2>1, <2>2
<1>5. (q < buy => r.type = "failure") /\ (q >= buy /\ q < sell => r.type = "failure")
  <2>1. ASSUME q < buy PROVE r.type = "failure"
    <3>1. ~(q >= buy)
      BY <1>3, <1>4, <2>1
    <3> QED BY <1>2, <1>3, <1>4, <2>1, <3>1
  <2>2. ASSUME q >= buy, q < sell PROVE r.type = "failure"
    <3>1. ~(q < buy)
      BY <1>3, <1>4, <2>2
    <3> QED BY <1>2, <1>3, <1>4, <2>2, <3>1
  <2> QED BY <2>1, <2>2
<1>6. r = M
  <2>1. ~(q < buy) /\ ~(q >= buy /\ q < sell)
    BY <1>5
  <2> QED BY <1>2, <1>3, <1>4, <2>1
<1> DEFINE type == IF m.check THEN SplitType(A, O, m) ELSE m.type
<1>7. /\ M.type = type /\ M.quantity = q
      /\ type = "price" /\ m.check => M.price = SplitPrice(A, O, m, stale)
  <2> DEFINE price == CASE type = "price" /\ m.check -> SplitPrice(A, O, m, stale)
                        [] type = "seller" /\ m.check /\ m.i <= Len(A) -> m.b
                        [] OTHER -> IF m.check \/ m.a = m.b THEN m.a ELSE 0
  <2>1. M = [type |-> type, quantity |-> q, price |-> price]
    BY DEF M, Matched
  <2>2. type = "price" /\ m.check => price = SplitPrice(A, O, m, stale)
    <3> HIDE DEF type
    <3> QED OBVIOUS
  <2> HIDE DEF type, price
  <2> QED BY <2>1, <2>2
<1>8. type = "price"
  BY <1>6, <1>7
<1>9. m # Start
  BY <1>4 DEF Start
<1>10. ~BuyerLeft(A, O, m) /\ ~SellerLeft(A, O, m)
  BY <1>8 DEF BuyerLeft, SellerLeft
<1>11. MetBoth(A, O, m)
  BY <1>1, <1>9, <1>10 DEF Matching
<1>12. m.check
  BY <1>11 DEF MetBoth
<1>13. SplitType(A, O, m) = "price"
  BY <1>8, <1>12
<1>14. ~LeftAt(A, m.i, m.a) /\ ~LeftAt(O, m.j, m.b) /\ m.a # m.b
  <2> DEFINE buyersLeft == LeftAt(A, m.i, m.a)
             sellersLeft == LeftAt(O, m.j, m.b)
  <2>1. SplitType(A, O, m) =
          CASE sellersLeft /\ ~buyersLeft -> "seller"
            [] buyersLeft /\ ~sellersLeft -> "buyer"
            [] buyersLeft /\ sellersLeft -> m.type
            [] OTHER -> IF m.a = m.b THEN "exact" ELSE "price"
    BY DEF SplitType
  <2>2. ~(buyersLeft /\ sellersLeft)
    <3> SUFFICES ASSUME buyersLeft, sellersLeft PROVE FALSE
      OBVIOUS
    <3>1. /\ m.i \in DOMAIN A /\ A[m.i].price = m.a /\ m.j \in DOMAIN O /\ O[m.j].price = m.b
      BY DEF LeftAt
    <3>2. m.b <= m.a
      BY <1>11 DEF MetBoth
    <3>3. MatchEnds(A, O, m) /\ m \in AnyMatch
      BY <1>1, MatchFacts DEF Matching
    <3>4. m.i <= Len(A) /\ m.j <= Len(O) /\ m.i \in Int /\ m.j \in Int /\ Len(A) \in Nat /\ Len(O) \in Nat
      BY <3>1, <3>3, BidFacts DEF AnyMatch
    <3>5. m.a < m.b
      BY <3>1, <3>3, <3>4 DEF MatchEnds
    <3>6. m.a \in Int /\ m.b \in Int
      BY <3>3 DEF AnyMatch
    <3> QED BY <3>2, <3>5, <3>6
  <2> HIDE DEF buyersLeft, sellersLeft
  <2>3. ~buyersLeft /\ ~sellersLeft /\ m.a # m.b
    BY <1>13, <2>1, <2>2
  <2> QED BY <2>3 DEF buyersLeft, sellersLeft
<1> QED BY <1>6, <1>7, <1>8, <1>11, <1>12, <1>14

(* Where loads that do not respond are all that is matched, there is an ask *)
(* that does, and none at the price of the last offer; and so for sources. *)
LoadsApart(A, O, q) ==
  Priced(A, AtLeast(Cap)) = q =>
    /\ \E k \in 1 .. Len(A) : A[k].price < Cap
    /\ \A k \in 1 .. Len(A), l \in 1 .. Len(O) :
         A[k].price = O[l].price => Priced(O, AtMost(A[k].price)) # q
SourcesApart(A, O, q) ==
  Priced(O, AtMost(-Cap)) = q =>
    /\ \E k \in 1 .. Len(O) : O[k].price > -Cap
    /\ \A k \in 1 .. Len(A), l \in 1 .. Len(O) :
         A[k].price = O[l].price => Priced(A, AtLeast(A[k].price)) # q

\* So the ends of the matching are apart.
LEMMA EndsAreApart ==
  ASSUME NEW A \in Seq(AnyBid), NEW O \in Seq(AnyBid), Descending(A), Ascending(O), NotBelow(O),
         NEW P, RoomBetween(P),
         \A k \in 1 .. Len(A) : A[k].price \in P, \A k \in 1 .. Len(O) : O[k].price \in P,
         NEW m, Matching(A, O, m), MatchEnds(A, O, m), MetBoth(A, O, m),
         ~LeftAt(A, m.i, m.a), ~LeftAt(O, m.j, m.b),
         ~(Priced(A, AtLeast(Cap)) = m.quantity /\ Priced(O, AtMost(-Cap)) = m.quantity),
         LoadsApart(A, O, m.quantity), SourcesApart(A, O, m.quantity)
  PROVE  EndsApart(A, O, m)
<1> DEFINE i == m.i
           j == m.j
           q == m.quantity
<1>1. /\ Len(A) \in Nat /\ Len(O) \in Nat /\ i - 1 \in 1 .. Len(A) /\ j - 1 \in 1 .. Len(O)
      /\ i \in Int /\ j \in Int
  <2>1. Len(A) \in Nat /\ Len(O) \in Nat /\ i \in Int /\ j \in Int
    BY BidFacts DEF Matching
  <2>2. i - 1 \in 1 .. Len(A) /\ j - 1 \in 1 .. Len(O)
    BY RoomNext
  <2> QED BY <2>1, <2>2
<1>2. /\ m.a = A[i - 1].price /\ m.b = O[j - 1].price /\ Upto(A, i - 1) = q /\ Upto(O, j - 1) = q
  BY DEF MetBoth, Matching
<1>3. /\ m.a \in Int /\ m.b \in Int /\ m.a <= Cap /\ m.b >= -Cap /\ Cap \in Int /\ -Cap \in Int
      /\ \A k \in 1 .. Len(A) : A[k].price \in Int
      /\ \A k \in 1 .. Len(O) : O[k].price \in Int
  <2>1. /\ \A k \in 1 .. Len(A) : A[k].price \in Int /\ A[k].price <= Cap
        /\ \A k \in 1 .. Len(O) : O[k].price \in Int /\ O[k].price >= -Cap
    BY BidFacts DEF NotBelow
  <2>2. Cap \in Int /\ -Cap \in Int
    BY PriceAssumption
  <2> QED BY <1>1, <1>2, <2>1, <2>2
<1>4. /\ i - 1 = Len(A) \/ (i <= Len(A) /\ A[(i - 1) + 1].price < m.a)
      /\ j - 1 = Len(O) \/ (j <= Len(O) /\ O[(j - 1) + 1].price > m.b)
  <2>1. (i - 1) + 1 = i /\ (j - 1) + 1 = j /\ (i <= Len(A) \/ i - 1 = Len(A)) /\ (j <= Len(O) \/ j - 1 = Len(O))
    BY <1>1
  <2> QED BY <2>1, RoomNext
<1> HIDE DEF i, j, q
<1>5. Priced(A, AtLeast(m.a)) = q /\ Priced(O, AtMost(m.b)) = q
  <2>1. /\ i - 1 \in 0 .. Len(A) /\ A[i - 1].price >= m.a
        /\ j - 1 \in 0 .. Len(O) /\ O[j - 1].price <= m.b
    BY <1>1, <1>2, <1>3
  <2>2. Priced(A, AtLeast(m.a)) \in Nat /\ q \in Nat /\ q <= Priced(A, AtLeast(m.a)) /\ Priced(A, AtLeast(m.a)) <= q
    BY <1>2, <1>3, <1>4, <2>1, AskBounds
  <2>3. Priced(O, AtMost(m.b)) \in Nat /\ q <= Priced(O, AtMost(m.b)) /\ Priced(O, AtMost(m.b)) <= q
    BY <1>2, <1>3, <1>4, <2>1, OfferBounds
  <2> QED BY <2>2, <2>3
<1>6. ~(m.a = Cap /\ m.b = -Cap)
  BY <1>5 DEF q
<1>7. ASSUME m.a = Cap PROVE i <= Len(A) /\ A[i].price # m.b
  <2>1. LoadsApart(A, O, q) /\ Priced(A, AtLeast(Cap)) = q
    BY <1>5, <1>7 DEF q
  <2>2. PICK k \in 1 .. Len(A) : A[k].price < Cap
    BY <2>1 DEF LoadsApart
  <2>3. i <= Len(A)
    <3> SUFFICES ASSUME i - 1 = Len(A) PROVE FALSE
      BY <1>1
    <3>1. k <= i - 1
      BY <1>1
    <3>2. A[k].price >= m.a
      BY <1>1, <1>2, <3>1 DEF Descending
    <3> QED BY <1>3, <1>7, <2>2, <3>2
  <2>4. A[i].price # m.b
    <3>1. i \in 1 .. Len(A)
      BY <1>1, <2>3
    <3> QED BY <1>1, <1>2, <1>5, <2>1, <3>1 DEF LoadsApart
  <2> QED BY <2>3, <2>4
<1>8. ASSUME m.b = -Cap PROVE j <= Len(O) /\ O[j].price # m.a
  <2>1. SourcesApart(A, O, q) /\ Priced(O, AtMost(-Cap)) = q
    BY <1>5, <1>8 DEF q
  <2>2. PICK k \in 1 .. Len(O) : O[k].price > -Cap
    BY <2>1 DEF SourcesApart
  <2>3. j <= Len(O)
    <3> SUFFICES ASSUME j - 1 = Len(O) PROVE FALSE
      BY <1>1
    <3>1. k <= j - 1
      BY <1>1
    <3>2. O[k].price <= m.b
      BY <1>1, <1>2, <3>1 DEF Ascending
    <3> QED BY <1>3, <1>8, <2>2, <3>2
  <2>4. O[j].price # m.a
    <3>1. j \in 1 .. Len(O)
      BY <1>1, <2>3
    <3> QED BY <1>1, <1>2, <1>5, <2>1, <3>1 DEF SourcesApart
  <2> QED BY <2>3, <2>4
<1> QED BY <1>6, <1>7, <1>8 DEF EndsApart, i, j

\* No bid that was not matched is met by the price.
LEMMA PriceAlone ==
  ASSUME NEW A \in Seq(AnyBid), NEW O \in Seq(AnyBid), Descending(A), Ascending(O), Offset > 0,
         NotBelow(A), NotBelow(O), NEW stale, NEW P, RoomBetween(P),
         \A k \in 1 .. Len(A) : A[k].price \in P, \A k \in 1 .. Len(O) : O[k].price \in P,
         NEW r, r = DoubleAuction(A, O, stale), r.type = "price",
         ~(Priced(A, AtLeast(Cap)) = r.quantity /\ Priced(O, AtMost(-Cap)) = r.quantity),
         LoadsApart(A, O, r.quantity), SourcesApart(A, O, r.quantity)
  PROVE  /\ Limited(r.price) = r.price /\ r.price \in Int
         /\ Priced(A, AtLeast(r.price)) <= r.quantity /\ Priced(O, AtMost(r.price)) <= r.quantity
<1> DEFINE m == Match(A, O)
           p == r.price
<1>1. Matching(A, O, m) /\ MatchEnds(A, O, m)
  BY MatchFacts
<1>2. r.quantity = m.quantity
  <2>1. Matched(A, O, m, stale).quantity = m.quantity
    BY DEF Matched
  <2> QED BY <2>1 DEF DoubleAuction
<1>3. /\ MetBoth(A, O, m) /\ ~LeftAt(A, m.i, m.a) /\ ~LeftAt(O, m.j, m.b) /\ m.a # m.b
      /\ p = SplitPrice(A, O, m, stale)
  BY <1>2, PriceType
<1> HIDE DEF m
<1>4. /\ m.i - 1 \in 1 .. Len(A) /\ m.j - 1 \in 1 .. Len(O)
  BY <1>1, <1>3, RoomNext
<1>5. /\ p \in m.b .. m.a
      /\ m.i <= Len(A) => A[m.i].price < p
      /\ m.j <= Len(O) => O[m.j].price > p
  <2>1. EndsApart(A, O, m)
    BY <1>1, <1>2, <1>3, EndsAreApart
  <2> QED BY <1>1, <1>3, <2>1, SplitRange
<1> HIDE DEF p
<1>6. /\ Len(A) \in Nat /\ Len(O) \in Nat /\ m.i \in 1 .. Len(A) + 1 /\ m.j \in 1 .. Len(O) + 1
  BY <1>1, BidFacts DEF Matching
<1>7. m.a = A[m.i - 1].price /\ m.b = O[m.j - 1].price /\ Upto(A, m.i - 1) = m.quantity
      /\ Upto(O, m.j - 1) = m.quantity
  BY <1>1, <1>3 DEF MetBoth, Matching
<1>8. m.a \in Int /\ m.b \in Int /\ m.a <= Cap /\ m.b >= -Cap
  BY <1>4, <1>7, BidFacts DEF NotBelow
<1>9. p \in Int /\ p <= Cap /\ p >= -Cap
  <2>1. p \in Int /\ m.b <= p /\ p <= m.a
    BY <1>5, <1>8
  <2> QED BY <1>8, <2>1, PriceAssumption
<1>10. Limited(p) = p
  BY <1>9, PriceAssumption DEF Limited, Capped
<1>11. Priced(A, AtLeast(p)) <= m.quantity
  <2>1. m.i - 1 \in 0 .. Len(A) /\ (m.i - 1 = Len(A) \/ m.i <= Len(A)) /\ (m.i - 1) + 1 = m.i
    BY <1>6
  <2>2. m.i - 1 = Len(A) \/ A[(m.i - 1) + 1].price < p
    BY <1>5, <2>1
  <2> QED BY <1>7, <1>9, <2>1, <2>2, AskBounds
<1>12. Priced(O, AtMost(p)) <= m.quantity
  <2>1. m.j - 1 \in 0 .. Len(O) /\ (m.j - 1 = Len(O) \/ m.j <= Len(O)) /\ (m.j - 1) + 1 = m.j
    BY <1>6
  <2>2. m.j - 1 = Len(O) \/ O[(m.j - 1) + 1].price > p
    BY <1>5, <2>1
  <2> QED BY <1>7, <1>9, <2>1, <2>2, OfferBounds
<1> QED BY <1>2, <1>9, <1>10, <1>11, <1>12 DEF p

\* A market that splits keeps its price away from the other bids.
LEMMA ResultAlone ==
  ASSUME NEW bk \in Books, mode \in Modes, NEW stale,
         NEW r, r = Result(Falling(bk.asks), Rising(bk.offers), stale),
         NEW c, c.price = Limited(r.price), c.quantity = r.quantity, c.type = r.type
  PROVE  Responsive(bk, c)
<1> DEFINE A == Falling(bk.asks)
           O == Rising(bk.offers)
           P == BidPrices(bk)
<1> SUFFICES ASSUME Offset > 0, PricesApart(bk), NoneBelow(bk), c.type = "price",
                    ~(OnlyLoads(bk, c) /\ OnlySources(bk, c)),
                    OnlyLoads(bk, c) => NextAskApart(bk, c),
                    OnlySources(bk, c) => NextOfferApart(bk, c)
             PROVE  Demand(bk, c.price) <= c.quantity /\ Supply(bk, c.price) <= c.quantity
  BY DEF Responsive, TriggersNoOther
<1>1. /\ bk.asks \in AnyCurve /\ bk.offers \in AnyCurve
      /\ bk \in [asks : AnyCurve, offers : AnyCurve]
  BY DEF Books
<1>2. /\ A \in Seq(AnyBid) /\ O \in Seq(AnyBid) /\ Descending(A) /\ Ascending(O)
      /\ ToSet(A) = ToSet(bk.asks.bids) /\ ToSet(O) = ToSet(bk.offers.bids)
  BY <1>1, FallingFacts, RisingFacts DEF Descending, Ascending
<1>3. P = {bid.price : bid \in ToSet(A) \cup ToSet(O)}
  BY <1>2 DEF BidPrices
<1>4. \A x \in Int : Demand(bk, x) = Priced(A, AtLeast(x)) /\ Supply(bk, x) = Priced(O, AtMost(x))
  BY <1>1, HeardSorted
<1>5. r = Result(A, O, stale)
  OBVIOUS
<1>6. \A x \in P : x >= -Cap
  BY DEF NoneBelow
<1>7. \A p, q \in P : p < q => p + Offset < q /\ (p + q) \div 2 \notin P
  BY DEF PricesApart
<1> HIDE DEF A, O, P
<1>8. /\ \A k \in 1 .. Len(A) : A[k].price \in P
      /\ \A k \in 1 .. Len(O) : O[k].price \in P
  <2>1. DOMAIN A = 1 .. Len(A) /\ DOMAIN O = 1 .. Len(O)
    BY <1>2, BidFacts
  <2> QED BY <1>3, <2>1 DEF ToSet
<1>9. P \subseteq Int
  <2>1. DOMAIN A = 1 .. Len(A) /\ DOMAIN O = 1 .. Len(O)
    BY <1>2, BidFacts
  <2>2. \A bid \in ToSet(A) \cup ToSet(O) : bid.price \in Int
    BY <1>2, <2>1, BidFacts DEF ToSet
  <2> QED BY <1>3, <2>2
<1>10. RoomBetween(P)
  BY <1>7, <1>9 DEF RoomBetween
<1>11. NotBelow(A) /\ NotBelow(O)
  BY <1>6, <1>8 DEF NotBelow
<1>12. r = DoubleAuction(A, O, stale)
  <2>1. /\ \A bids, w, t, b : t # "price" => TakeQuantity(bids, w, t, b).type # "price"
        /\ NoAuction(A, O).type = "null"
    BY DEF TakeQuantity, NoAuction
  <2>2. CASE mode.special = "sellers"
    <3>1. mode.quantity \in Nat
      BY MarketAssumption
    <3>2. CASE mode.quantity > 0
      <4>1. r = TakeQuantity(O, mode.quantity, "seller", Price(O, 1, stale) - Offset)
        BY <1>5, <2>2, <3>2 DEF Result
      <4> QED BY <2>1, <4>1
    <3>3. CASE mode.quantity = 0
      <4>1. r.type \in {"exact", "null"}
        BY <1>5, <2>2, <3>3 DEF Result, TakeAt
      <4> QED BY <4>1
    <3> QED BY <3>1, <3>2, <3>3
  <2>3. CASE mode.special = "buyers"
    <3>1. mode.quantity \in Nat
      BY MarketAssumption
    <3>2. CASE mode.quantity > 0
      <4>1. r = TakeQuantity(A, mode.quantity, "buyer", Price(A, 1, stale) + Offset)
        BY <1>5, <2>3, <3>2 DEF Result
      <4> QED BY <2>1, <4>1
    <3>3. CASE mode.quantity = 0
      <4>1. r.type \in {"exact", "null"}
        BY <1>5, <2>3, <3>3 DEF Result, TakeAt
      <4> QED BY <4>1
    <3> QED BY <3>1, <3>2, <3>3
  <2>4. CASE mode.special \notin {"sellers", "buyers"}
    <3>1. r = IF A # <<>> /\ O # <<>> THEN DoubleAuction(A, O, stale) ELSE NoAuction(A, O)
      BY <1>5, <2>4 DEF Result
    <3> QED BY <2>1, <3>1
  <2> QED BY <2>2, <2>3, <2>4
<1>13. Cap \in Int /\ -Cap \in Int
  BY PriceAssumption
<1>14. /\ OnlyLoads(bk, c) <=> Priced(A, AtLeast(Cap)) = r.quantity
       /\ OnlySources(bk, c) <=> Priced(O, AtMost(-Cap)) = r.quantity
  BY <1>4, <1>13 DEF OnlyLoads, OnlySources
<1>15. /\ \A k \in 1 .. Len(A) : A[k].price \in AskPrices(bk)
       /\ \A p \in AskPrices(bk) : \E k \in 1 .. Len(A) : p = A[k].price
       /\ \A k \in 1 .. Len(O) : O[k].price \in OfferPrices(bk)
       /\ \A p \in OfferPrices(bk) : \E k \in 1 .. Len(O) : p = O[k].price
  <2>1. DOMAIN A = 1 .. Len(A) /\ DOMAIN O = 1 .. Len(O)
    BY <1>2, BidFacts
  <2>2. /\ AskPrices(bk) = {bid.price : bid \in ToSet(A)}
        /\ OfferPrices(bk) = {bid.price : bid \in ToSet(O)}
    BY <1>2 DEF AskPrices, OfferPrices
  <2> QED BY <2>1, <2>2 DEF ToSet
<1>16. LoadsApart(A, O, r.quantity)
  <2> SUFFICES ASSUME Priced(A, AtLeast(Cap)) = r.quantity
               PROVE  /\ \E k \in 1 .. Len(A) : A[k].price < Cap
                      /\ \A k \in 1 .. Len(A), l \in 1 .. Len(O) :
                           A[k].price = O[l].price => Priced(O, AtMost(A[k].price)) # r.quantity
    BY DEF LoadsApart
  <2>1. NextAskApart(bk, c)
    BY <1>14
  <2>2. \E k \in 1 .. Len(A) : A[k].price < Cap
    BY <1>15, <2>1 DEF NextAskApart
  <2>3. ASSUME NEW k \in 1 .. Len(A), NEW l \in 1 .. Len(O), A[k].price = O[l].price
        PROVE  Priced(O, AtMost(A[k].price)) # r.quantity
    <3>1. A[k].price \in AskPrices(bk) \cap OfferPrices(bk) /\ A[k].price \in Int
      BY <1>8, <1>9, <1>15, <2>3
    <3> QED BY <1>4, <2>1, <3>1 DEF NextAskApart
  <2> QED BY <2>2, <2>3
<1>17. SourcesApart(A, O, r.quantity)
  <2> SUFFICES ASSUME Priced(O, AtMost(-Cap)) = r.quantity
               PROVE  /\ \E k \in 1 .. Len(O) : O[k].price > -Cap
                      /\ \A k \in 1 .. Len(A), l \in 1 .. Len(O) :
                           A[k].price = O[l].price => Priced(A, AtLeast(A[k].price)) # r.quantity
    BY DEF SourcesApart
  <2>1. NextOfferApart(bk, c)
    BY <1>14
  <2>2. \E k \in 1 .. Len(O) : O[k].price > -Cap
    BY <1>15, <2>1 DEF NextOfferApart
  <2>3. ASSUME NEW k \in 1 .. Len(A), NEW l \in 1 .. Len(O), A[k].price = O[l].price
        PROVE  Priced(A, AtLeast(A[k].price)) # r.quantity
    <3>1. A[k].price \in AskPrices(bk) \cap OfferPrices(bk) /\ A[k].price \in Int
      BY <1>8, <1>9, <1>15, <2>3
    <3> QED BY <1>4, <2>1, <3>1 DEF NextOfferApart
  <2> QED BY <2>2, <2>3
<1>18. /\ Limited(r.price) = r.price /\ r.price \in Int
       /\ Priced(A, AtLeast(r.price)) <= r.quantity /\ Priced(O, AtMost(r.price)) <= r.quantity
  BY <1>2, <1>8, <1>10, <1>11, <1>12, <1>14, <1>16, <1>17, PriceAlone
<1> QED BY <1>4, <1>18

\* The price of a market that splits triggers no bid that was not matched.
THEOREM PriceTriggersNone == Spec => ResponsivePrice
<1>1. Init => BidsInv
  BY KeyInvInit, TotalsEmpty DEF Init, EmptyBook, BidsInv, TotalsInv, Side
<1>2. BidsInv /\ [Next]_vars => BidsInv'
  BY BidsInvStep
<1>3. BidsInv /\ [Next]_vars => [EachClearing(Responsive)]_vars
  <2> SUFFICES ASSUME BidsInv, [Next]_vars, market' # market
               PROVE  Responsive(Heard, cleared')
    BY DEF EachClearing
  <2>1. ClearMarket
    BY ClearsOnly
  <2>2. PICK stale \in StalePrices :
          LET r == Result(Falling(Heard.asks), Rising(Heard.offers), stale)
          IN cleared'.price = Limited(r.price) /\ cleared'.quantity = r.quantity /\ cleared'.type = r.type
    BY <2>1 DEF ClearMarket
  <2>3. Heard \in Books /\ mode \in Modes
    BY HeardBooks DEF BidsInv
  <2> QED BY <2>2, <2>3, ResultAlone
<1> QED BY <1>1, <1>2, <1>3, PTL DEF Spec, ResponsivePrice

=============================================================================
