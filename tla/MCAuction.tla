----------------------------- MODULE MCAuction -----------------------------
EXTENDS Auction

CONSTANTS b1, b2

NoMode == [special |-> "none", quantity |-> 0, reference |-> "none"]
AllModes ==
  LET References == {"none", "silent", "bids"}
  IN [special : {"none"}, quantity : {0}, reference : References \cup {"unusable"}]
       \cup [special : {"sellers", "buyers"}, quantity : {0, 2}, reference : References]
       \cup [special : {"fixed_seller", "fixed_buyer"}, quantity : {2}, reference : {"none"}]
MCModes == {NoMode}
MCPrices == {-20, 0, 6, 10, 20}
MCQuantities == {-4, -2, 2, 4}
MCStale == {-20, 20}
TwoTwo == [asks |-> 2, offers |-> 2]
KeyPrices == {1}
KeyQuantities == {-2, 1}
KeyBids == [asks |-> 2, offers |-> 1]
MCStats == {[need |-> 1, past |-> FALSE], [need |-> 1, past |-> TRUE]}
Bidders == Permutations({b1, b2})
=============================================================================
