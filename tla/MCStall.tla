------------------------------ MODULE MCStall ------------------------------
\* Instances of StallOrders for TLC.
EXTENDS StallOrders, TLC

CONSTANTS p1, p2, bundle, spec, title, c1, c2, c3

\* One bank SKU, one to a buyer.
LaneOne  == bundle :> "bank"
PriceOne == bundle :> 2
LimitOne == bundle :> 1
StockOne == bundle :> 2

\* A bank SKU, a RAM-resident one free of charge, and a cosmetic.
LaneThree  == bundle :> "bank" @@ spec :> "spec" @@ title :> "prefs"
PriceThree == bundle :> 2 @@ spec :> 0 @@ title :> 1
LimitThree == bundle :> 1 @@ spec :> 2 @@ title :> 1
StockThree == bundle :> 1 @@ spec :> 2 @@ title :> 2

TokensOne == p1 :> 4
TokensTwo == p1 :> 3 @@ p2 :> 2

\* Two orders of the same buyer, for the runs about who gets served.
LimitQueue  == bundle :> 2

CallSymmetry == Permutations(Calls)
=============================================================================
