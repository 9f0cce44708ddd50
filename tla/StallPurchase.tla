--------------------------- MODULE StallPurchase ---------------------------
(***************************************************************************)
(* What the Token Stall promises a buyer, with nothing of how it is kept:  *)
(* a purchase is paid for once, and then it is either completed, with the  *)
(* goods given, or returned, with the goods not given.                     *)
(***************************************************************************)
CONSTANT Ids    \* purchases

VARIABLES
    purchase,   \* [Ids -> {"none", "paid", "done", "returned"}]
    given       \* purchases whose goods are in the game

Init == purchase = [i \in Ids |-> "none"] /\ given = {}

Becomes(i, from, to) ==
    /\ purchase[i] = from
    /\ purchase' = [purchase EXCEPT ![i] = to]
    /\ UNCHANGED given

Pay(i) == Becomes(i, "none", "paid")

\* A cosmetic of the portal itself: paying for it is owning it.
Keep(i) == Becomes(i, "none", "done")

Give(i) ==
    /\ purchase[i] = "paid" /\ i \notin given
    /\ given' = given \cup {i}
    /\ UNCHANGED purchase

Complete(i) == i \in given /\ Becomes(i, "paid", "done")

Return(i) == i \notin given /\ Becomes(i, "paid", "returned")

Next == \E i \in Ids : Pay(i) \/ Keep(i) \/ Give(i) \/ Complete(i) \/ Return(i)

Spec == Init /\ [][Next]_<<purchase, given>>

=============================================================================
