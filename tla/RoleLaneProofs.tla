--------------------------- MODULE RoleLaneProofs ---------------------------
(***************************************************************************)
(* Theorems of RoleLane, for any number of buyers and orders, any price    *)
(* and limit, and any purse that only grows: whoever holds the role has    *)
(* paid for it, no order is delivered without Discord's word, and the      *)
(* tokens add up.                                                          *)
(*                                                                         *)
(* RoleOrTokens is not inductive: a run reports what it learned one call   *)
(* earlier.  The invariant adds what a report may still rely on: the role  *)
(* is not on a buyer reported unknown, and what a run holds was refunded   *)
(* by nobody but an operator.                                              *)
(***************************************************************************)
EXTENDS RoleLane, FiniteSetTheorems, WellFoundedInduction, TLAPS

-----------------------------------------------------------------------------
(* Orders and their numbers                                                *)

\* A set of numbers has a least one.
LEMMA LeastNat ==
    ASSUME NEW T \in SUBSET Nat, T # {}
    PROVE  \E x \in T : \A y \in T : x <= y
<1>1. PICK x \in T : \A y \in T : ~ (<<y, x>> \in OpToRel(<, Nat))
  BY WFMin, NatLessThanWellFounded, Zenon
<1>2. \A y \in T : ~(y < x)
  BY <1>1 DEF OpToRel
<1> QED BY <1>2

\* The run is at one of the orders it holds.
LEMMA NowType ==
    ASSUME run.todo \in SUBSET Ids, run.todo # {}
    PROVE  Now \in run.todo
<1>1. run.todo \in SUBSET Nat
  BY LaneAssumption DEF Ids
<1>2. \E x \in run.todo : \A y \in run.todo : x <= y
  BY <1>1, LeastNat
<1> QED BY <1>2 DEF Now

\* One price more or less.
LEMMA PriceSteps ==
    ASSUME NEW n \in Nat
    PROVE  /\ Price * (n + 1) = Price * n + Price
           /\ n > 0 => Price * (n - 1) = Price * n - Price
  BY LaneAssumption

\* A buyer's live orders can be counted.
LEMMA LiveFinite ==
    ASSUME LaneTypeOK, NEW p \in Profiles
    PROVE  /\ IsFiniteSet(Live(p)) /\ Cardinality(Live(p)) \in Nat
           /\ Live(p) \in SUBSET Placed
<1>1. PICK n \in 0..MaxOrders : orders \in [1..n -> Order]
  BY DEF LaneTypeOK
<1>2. Placed = 1..n
  BY <1>1 DEF Placed
<1>3. IsFiniteSet(1..n)
  BY <1>1, LaneAssumption, FS_Interval
<1>4. Live(p) \in SUBSET Placed
  BY DEF Live
<1>5. IsFiniteSet(Live(p))
  BY <1>2, <1>3, <1>4, FS_Subset
<1> QED BY <1>4, <1>5, FS_CardinalityType

-----------------------------------------------------------------------------
(* The inductive invariant                                                 *)

\* What the row of an order says of its settlement.
Settled ==
    \A i \in Placed :
        /\ i \in refunds <=> orders[i].st = "refunded"
        /\ orders[i].st = "delivered" => i \in granted
        /\ orders[i].by = "operator" => orders[i].st = "refunded"

\* What a run may rely on when it reports.
RunRelies ==
    /\ run.step # "idle" => run.todo # {}
    /\ \A i \in run.todo : orders[i].st # "refunded" \/ orders[i].by = "operator"
    /\ run.step = "acks" => IF run.ok THEN Now \in granted ELSE orders[Now].buyer \notin holders

LInv == LaneTypeOK /\ RoleOrTokens /\ Settled /\ RunRelies /\ TokensAddUp

\* The invariant holds at the start.
LEMMA InitLInv == LaneInit => LInv
<1> SUFFICES ASSUME LaneInit PROVE LInv
  OBVIOUS
<1>1. MaxOrders \in Nat /\ Price \in Nat
  BY LaneAssumption
<1>2. orders = << >> /\ Placed = {}
  BY DEF LaneInit, Placed
<1>3. orders \in [1..0 -> Order] /\ 0 \in 0..MaxOrders
  BY <1>1, <1>2
<1>4. Idle \in Run
  BY DEF Idle, Run
<1>5. LaneTypeOK
  <2>1. \E n \in 0..MaxOrders : orders \in [1..n -> Order]
    BY <1>3
  <2>2. spent \in [Profiles -> Int]
    BY DEF LaneInit
  <2> QED BY <1>2, <1>4, <2>1, <2>2 DEF LaneInit, LaneTypeOK, Idle
<1>6. RoleOrTokens /\ Settled /\ RunRelies
  BY <1>2 DEF LaneInit, RoleOrTokens, Settled, RunRelies, Idle
<1>7. TokensAddUp
  <2> SUFFICES ASSUME NEW p \in Profiles
               PROVE  spent[p] = Price * Cardinality(Live(p)) /\ Balance(p) >= 0
    BY DEF TokensAddUp
  <2>1. Live(p) = {}
    BY <1>2 DEF Live
  <2>2. Cardinality(Live(p)) = 0
    BY <2>1, FS_EmptySet
  <2>3. spent[p] = 0 /\ purse[p] \in Nat
    BY DEF LaneInit
  <2>4. Price * 0 = 0
    BY <1>1
  <2> QED BY <2>2, <2>3, <2>4 DEF Balance
<1> QED BY <1>5, <1>6, <1>7 DEF LInv

-----------------------------------------------------------------------------
(* Steps that leave the orders alone                                       *)

\* The books are as they were when the orders and the spending are, and no purse shrank.
LEMMA BooksSame ==
    ASSUME LInv, UNCHANGED <<orders, spent, refunds>>, granted \subseteq granted',
           purse' \in [Profiles -> Nat], \A p \in Profiles : purse'[p] >= purse[p]
    PROVE  Settled' /\ TokensAddUp'
<1>1. Settled'
  BY DEF LInv, Settled, Placed
<1>2. TokensAddUp'
  <2> SUFFICES ASSUME NEW p \in Profiles
               PROVE  (spent[p] = Price * Cardinality(Live(p)) /\ Balance(p) >= 0)'
    BY DEF TokensAddUp
  <2>1. Live(p)' = Live(p)
    BY DEF Live, Placed
  <2>2. spent[p] \in Int /\ purse[p] \in Nat /\ purse'[p] \in Nat /\ purse'[p] >= purse[p]
    BY DEF LInv, LaneTypeOK
  <2>3. spent[p] = Price * Cardinality(Live(p)) /\ Balance(p) >= 0
    BY DEF LInv, TokensAddUp
  <2> QED BY <2>1, <2>2, <2>3 DEF Balance
<1> QED BY <1>1, <1>2

\* What a run relies on survives while the run, the orders and the grants stay
\* and nobody new holds the role.
LEMMA ReliesSame ==
    ASSUME LInv, UNCHANGED <<orders, run, granted>>, holders' \subseteq holders
    PROVE  RunRelies'
<1>1. Now' = Now
  BY DEF Now
<1> QED BY <1>1 DEF LInv, RunRelies

\* Credit elsewhere, and members who come and go, keep the invariant.
LEMMA WorldStep ==
    ASSUME LInv, Earns \/ (\E p \in Profiles : Leaves(p) \/ Joins(p))
    PROVE  LInv'
<1>1. /\ UNCHANGED <<orders, spent, refunds, run, granted>>
      /\ holders' \subseteq holders
      /\ purse' \in [Profiles -> Nat] /\ \A p \in Profiles : purse'[p] >= purse[p]
  <2>1. purse \in [Profiles -> Nat] /\ \A p \in Profiles : purse[p] \in Nat
    BY DEF LInv, LaneTypeOK
  <2> QED BY <2>1 DEF Earns, Leaves, Joins
<1>2. guild' \subseteq Profiles /\ holders' \subseteq guild'
  BY DEF Earns, Leaves, Joins, LInv, LaneTypeOK
<1>3. LaneTypeOK'
  BY <1>1, <1>2 DEF LInv, LaneTypeOK
<1>4. RoleOrTokens'
  BY <1>1 DEF LInv, RoleOrTokens, Placed
<1> QED BY <1>1, <1>3, <1>4, BooksSame, ReliesSame DEF LInv

\* Whatever comes after an order, or nothing, is a run that holds fewer orders.
LEMMA AheadType ==
    ASSUME LInv
    PROVE  /\ Ahead \in Run /\ Ahead.todo \subseteq run.todo \ {Now}
           /\ Ahead.step # "idle" => Ahead.todo # {}
           /\ Ahead.step # "acks"
           /\ Idle \in Run /\ Idle.todo = {} /\ Idle.step = "idle"
<1>1. run.todo \in SUBSET Ids
  BY DEF LInv, LaneTypeOK, Run
<1>2. Idle \in Run /\ Idle.todo = {} /\ Idle.step = "idle"
  BY DEF Idle, Run
<1>3. CASE run.todo \ {Now} = {}
  <2>1. Ahead = Idle
    BY <1>3 DEF Ahead
  <2> QED BY <1>2, <2>1
<1>4. CASE run.todo \ {Now} # {}
  <2>1. Ahead = [step |-> "puts", todo |-> run.todo \ {Now}, ok |-> FALSE]
    BY <1>4 DEF Ahead
  <2> HIDE DEF Now
  <2>2. Ahead \in Run
    BY <1>1, <2>1 DEF Run
  <2> QED BY <1>2, <1>4, <2>1, <2>2
<1> QED BY <1>3, <1>4

\* A run that begins, or that goes on to the next order: nothing is settled.
LEMMA RunOnly ==
    ASSUME LInv, UNCHANGED <<purse, orders, spent, refunds, guild>>,
           granted \subseteq granted', granted' \subseteq Placed,
           holders' \subseteq guild, RoleOrTokens',
           run' \in Run, run'.todo \subseteq Placed,
           run'.step # "idle" => run'.todo # {},
           \A i \in run'.todo : i \in run.todo \/ orders[i].st = "queued",
           run'.step = "acks" => IF run'.ok THEN Now' \in granted' ELSE orders[Now'].buyer \notin holders'
    PROVE  LInv'
<1>1. purse' \in [Profiles -> Nat] /\ \A p \in Profiles : purse'[p] >= purse[p]
  BY DEF LInv, LaneTypeOK
<1>2. LaneTypeOK'
  BY DEF LInv, LaneTypeOK, Placed
<1>3. RunRelies'
  <2>1. \A i \in run'.todo : orders[i].st # "refunded" \/ orders[i].by = "operator"
    BY DEF LInv, RunRelies
  <2> QED BY <2>1 DEF RunRelies
<1> QED BY <1>1, <1>2, <1>3, BooksSame DEF LInv

\* So do the script's steps but its report.
LEMMA ScriptStep ==
    ASSUME LInv, ReadsQueue \/ Grants \/ Holds \/ Unknown \/ RunDies
    PROVE  LInv'
<1>1. /\ run \in Run /\ run.todo \in SUBSET Ids /\ run.todo \subseteq Placed
      /\ holders \subseteq guild /\ granted \subseteq Placed
  BY DEF LInv, LaneTypeOK, Run, Placed
<1>2. holders' \subseteq holders => RoleOrTokens' \/ orders' # orders
  BY DEF LInv, RoleOrTokens, Placed
<1>3. CASE ReadsQueue
  <2> DEFINE queue == {i \in Placed : orders[i].st = "queued" /\ orders[i].discord}
             new == [step |-> "puts", todo |-> queue, ok |-> FALSE]
  <2>1. run' = new /\ queue # {}
        /\ UNCHANGED <<purse, orders, spent, refunds, guild, holders, granted>>
    BY <1>3 DEF ReadsQueue
  <2>2. Placed \subseteq Ids
    BY LaneAssumption DEF LInv, LaneTypeOK, Placed, Ids
  <2>3. queue \in SUBSET Ids /\ queue \subseteq Placed /\ \A i \in queue : orders[i].st = "queued"
    BY <2>2
  <2> HIDE DEF queue
  <2>4. new \in Run /\ new.todo = queue /\ new.step = "puts"
    BY <2>3 DEF Run
  <2> QED BY <1>1, <1>2, <2>1, <2>3, <2>4, RunOnly
<1>4. CASE Holds \/ RunDies
  <2>1. PICK new \in {Ahead, Idle} : run' = new
    BY <1>4 DEF Holds, RunDies
  <2>2. UNCHANGED <<purse, orders, spent, refunds, guild, holders, granted>>
    BY <1>4 DEF Holds, RunDies
  <2>3. /\ new \in Run /\ new.todo \subseteq run.todo /\ new.step # "acks"
        /\ new.step # "idle" => new.todo # {}
    BY <2>1, AheadType
  <2> QED BY <1>1, <1>2, <2>1, <2>2, <2>3, RunOnly
<1>5. CASE Unknown
  <2> DEFINE new == [run EXCEPT !.step = "acks", !.ok = FALSE]
  <2>1. /\ run.step = "puts" /\ orders[Now].buyer \notin guild /\ run' = new
        /\ UNCHANGED <<purse, orders, spent, refunds, guild, holders, granted>>
    BY <1>5 DEF Unknown
  <2>2. new \in Run /\ new.todo = run.todo /\ new.step = "acks" /\ new.ok = FALSE
    BY <1>1 DEF Run
  <2>3. run.todo # {}
    BY <2>1 DEF LInv, RunRelies
  <2> HIDE DEF new
  <2>4. Now' = Now
    BY <2>1, <2>2 DEF Now
  <2> QED BY <1>1, <1>2, <2>1, <2>2, <2>3, <2>4, RunOnly
<1>6. CASE Grants
  <2> DEFINE b == orders[Now].buyer
             new == [run EXCEPT !.step = "acks", !.ok = TRUE]
  <2>1. /\ run.step = "puts" /\ b \in guild /\ holders' = holders \cup {b}
        /\ UNCHANGED <<purse, orders, spent, refunds, guild>>
        /\ \/ run' = new /\ granted' = granted \cup {Now}
           \/ run' = Ahead /\ granted' = granted
    BY <1>6 DEF Grants
  <2>2. Now \in run.todo
    BY <1>1, <2>1, NowType DEF LInv, RunRelies
  <2>3. orders[Now].st # "refunded" \/ orders[Now].by = "operator"
    BY <2>2 DEF LInv, RunRelies
  <2>4. RoleOrTokens'
    BY <1>1, <2>1, <2>2, <2>3 DEF LInv, RoleOrTokens, Placed
  <2>5. new \in Run /\ new.todo = run.todo /\ new.step = "acks" /\ new.ok = TRUE
    BY <1>1 DEF Run
  <2> HIDE DEF new
  <2>6. CASE run' = new /\ granted' = granted \cup {Now}
    <3>1. Now' = Now
      BY <2>5, <2>6 DEF Now
    <3> QED BY <1>1, <2>1, <2>2, <2>4, <2>5, <2>6, <3>1, RunOnly
  <2>7. CASE run' = Ahead /\ granted' = granted
    BY <1>1, <2>1, <2>4, <2>7, AheadType, RunOnly
  <2> QED BY <2>1, <2>6, <2>7
<1> QED BY <1>3, <1>4, <1>5, <1>6

-----------------------------------------------------------------------------
(* Steps that place or settle an order                                     *)

\* An order goes from queued to refunded, with its one refund row.
LEMMA RefundBooks ==
    ASSUME LInv, NEW i \in Placed, NEW who \in {"sync", "operator"},
           orders[i].st = "queued", Refund(i, who), UNCHANGED <<purse, granted>>
    PROVE  /\ \E n \in 0..MaxOrders : orders' \in [1..n -> Order]
           /\ spent' \in [Profiles -> Int] /\ refunds' \subseteq Placed'
           /\ Settled' /\ TokensAddUp'
           /\ Placed' = Placed
           /\ \A j \in Placed \ {i} : orders'[j] = orders[j]
           /\ orders'[i].buyer = orders[i].buyer /\ orders'[i].by = who
           /\ orders'[i].st = "refunded"
<1> DEFINE p == orders[i].buyer
           row == [orders[i] EXCEPT !.st = "refunded", !.by = who]
<1>1. PICK n \in 0..MaxOrders : orders \in [1..n -> Order]
  BY DEF LInv, LaneTypeOK
<1>2. Placed = 1..n /\ orders[i] \in Order /\ p \in Profiles
  BY <1>1 DEF Placed, Order
<1>3. /\ row \in Order /\ row.st = "refunded" /\ row.by = who /\ row.buyer = p
  <2>1. who \in {"nobody", "sync", "operator"}
    OBVIOUS
  <2> QED BY <1>2, <2>1 DEF Order
<1>4. i \notin refunds
  BY DEF LInv, Settled
<1>5. /\ orders' = [orders EXCEPT ![i] = row] /\ refunds' = refunds \cup {i}
      /\ spent' = [spent EXCEPT ![p] = @ - Price]
  BY <1>4 DEF Refund
<1> HIDE DEF row
<1>6. /\ orders' \in [1..n -> Order] /\ orders'[i] = row
      /\ \A j \in Placed \ {i} : orders'[j] = orders[j]
  BY <1>1, <1>2, <1>3, <1>5
<1>7. Placed' = Placed
  BY <1>2, <1>6 DEF Placed
<1>8. Settled'
  BY <1>3, <1>5, <1>6, <1>7 DEF LInv, Settled
<1>9. spent \in [Profiles -> Int] /\ Price \in Nat \ {0}
  BY LaneAssumption DEF LInv, LaneTypeOK
<1>10. /\ spent' \in [Profiles -> Int] /\ spent'[p] = spent[p] - Price
       /\ \A q \in Profiles \ {p} : spent'[q] = spent[q]
  <2> HIDE DEF p
  <2> QED BY <1>2, <1>5, <1>9
<1>11. TokensAddUp'
  <2> SUFFICES ASSUME NEW q \in Profiles
               PROVE  spent'[q] = Price * Cardinality(Live(q)') /\ purse[q] - spent'[q] >= 0
    BY DEF TokensAddUp, Balance
  <2>1. spent[q] = Price * Cardinality(Live(q)) /\ purse[q] - spent[q] >= 0
        /\ purse[q] \in Nat /\ spent[q] \in Int
    BY <1>9 DEF LInv, LaneTypeOK, TokensAddUp, Balance
  <2>2. CASE q = p
    <3>1. i \in Live(q) /\ Live(q)' = Live(q) \ {i}
      BY <1>3, <1>6, <1>7, <2>2 DEF Live
    <3>2. IsFiniteSet(Live(q)) /\ Cardinality(Live(q)) \in Nat
      BY LiveFinite DEF LInv
    <3>3. Cardinality(Live(q)') = Cardinality(Live(q)) - 1
      BY <3>1, <3>2, FS_RemoveElement
    <3>4. Cardinality(Live(q)) > 0
      <4>1. Cardinality(Live(q)) # 0
        BY <3>1, <3>2, FS_EmptySet
      <4> QED BY <3>2, <4>1
    <3>5. Price * (Cardinality(Live(q)) - 1) = Price * Cardinality(Live(q)) - Price
      BY <3>2, <3>4, PriceSteps
    <3>6. spent'[q] = spent[q] - Price
      BY <1>10, <2>2
    <3> QED BY <1>9, <2>1, <3>3, <3>5, <3>6
  <2>3. CASE q # p
    <3>1. Live(q)' = Live(q)
      BY <1>3, <1>6, <1>7, <2>3 DEF Live
    <3>2. spent'[q] = spent[q]
      BY <1>10, <2>3
    <3> QED BY <2>1, <3>1, <3>2
  <2> QED BY <2>2, <2>3
<1>12. refunds' \subseteq Placed'
  BY <1>5, <1>7 DEF LInv, LaneTypeOK, Placed
<1> QED BY <1>3, <1>6, <1>7, <1>8, <1>10, <1>11, <1>12

\* So does an order: it is paid for, and its number is new.
LEMMA PlaceOrderStep ==
    ASSUME LInv, NEW p \in Profiles, NEW discord \in BOOLEAN, PlaceOrder(p, discord)
    PROVE  LInv'
<1> DEFINE i == Cardinality(Placed) + 1
           row == [buyer |-> p, discord |-> discord, st |-> "queued", by |-> "nobody"]
<1>1. PICK n \in 0..MaxOrders : orders \in [1..n -> Order]
  BY DEF LInv, LaneTypeOK
<1>2. Placed = 1..n /\ n \in Nat
  BY <1>1, LaneAssumption DEF Placed
<1>3. i = n + 1
  <2>1. Cardinality(1..n) = n
    BY <1>2, FS_Interval
  <2> QED BY <1>2, <2>1
<1>4. i \in Ids /\ Balance(p) >= Price /\ spent' = [spent EXCEPT ![p] = @ + Price]
      /\ UNCHANGED <<purse, refunds, guild, holders, run, granted>>
      /\ orders' = [j \in Placed \cup {i} |-> IF j = i THEN row ELSE orders[j]]
  BY DEF PlaceOrder
<1>5. row \in Order /\ row.st = "queued" /\ row.by = "nobody" /\ row.buyer = p
  BY DEF Order
<1> HIDE DEF i, row
<1>6. n + 1 \in 0..MaxOrders /\ Placed \cup {i} = 1..(n + 1) /\ i \notin Placed
  BY <1>2, <1>3, <1>4, LaneAssumption DEF Ids
<1>7. /\ orders' \in [1..(n + 1) -> Order] /\ orders'[i] = row
      /\ \A j \in Placed : orders'[j] = orders[j]
  BY <1>1, <1>2, <1>4, <1>5, <1>6
<1>8. Placed' = Placed \cup {i}
  BY <1>6, <1>7 DEF Placed
<1>9. i \notin refunds /\ i \notin run.todo
  BY <1>6 DEF LInv, LaneTypeOK, Placed
<1>10. spent \in [Profiles -> Int] /\ Price \in Nat \ {0}
  BY LaneAssumption DEF LInv, LaneTypeOK
<1>11. LaneTypeOK'
  <2>1. \E m \in 0..MaxOrders : orders' \in [1..m -> Order]
    BY <1>6, <1>7
  <2>2. spent' \in [Profiles -> Int]
    BY <1>4, <1>10
  <2>3. refunds' \subseteq Placed' /\ run'.todo \subseteq Placed' /\ granted' \subseteq Placed'
    BY <1>4, <1>8 DEF LInv, LaneTypeOK, Placed
  <2> QED BY <1>4, <2>1, <2>2, <2>3 DEF LInv, LaneTypeOK, Placed
<1>12. RoleOrTokens'
  BY <1>4, <1>7, <1>8 DEF LInv, RoleOrTokens
<1>13. Settled'
  BY <1>4, <1>5, <1>7, <1>8, <1>9 DEF LInv, Settled
<1>14. RunRelies'
  <2>1. Now' = Now
    BY <1>4 DEF Now
  <2>2. run.todo \subseteq Placed
    BY DEF LInv, LaneTypeOK, Placed
  <2>3. run.step = "acks" => Now \in Placed
    <3>1. run.todo \in SUBSET Ids
      BY DEF LInv, LaneTypeOK, Run
    <3> QED BY <2>2, <3>1, NowType DEF LInv, RunRelies
  <2> QED BY <1>4, <1>7, <2>1, <2>2, <2>3 DEF LInv, RunRelies
<1>15. TokensAddUp'
  <2> SUFFICES ASSUME NEW q \in Profiles
               PROVE  spent'[q] = Price * Cardinality(Live(q)') /\ purse[q] - spent'[q] >= 0
    BY <1>4 DEF TokensAddUp, Balance
  <2>1. spent[q] = Price * Cardinality(Live(q)) /\ purse[q] - spent[q] >= 0
        /\ purse[q] \in Nat /\ spent[q] \in Int
    BY <1>10 DEF LInv, LaneTypeOK, TokensAddUp, Balance
  <2>2. CASE q = p
    <3>1. i \notin Live(q) /\ Live(q)' = Live(q) \cup {i}
      BY <1>5, <1>6, <1>7, <1>8, <2>2 DEF Live
    <3>2. IsFiniteSet(Live(q)) /\ Cardinality(Live(q)) \in Nat
      BY LiveFinite DEF LInv
    <3>3. Cardinality(Live(q)') = Cardinality(Live(q)) + 1
      BY <3>1, <3>2, FS_AddElement
    <3>4. Price * (Cardinality(Live(q)) + 1) = Price * Cardinality(Live(q)) + Price
      BY <3>2, PriceSteps
    <3>5. spent'[q] = spent[q] + Price /\ purse[q] - spent[q] >= Price
      BY <1>4, <1>10, <2>2 DEF Balance
    <3> QED BY <1>10, <2>1, <3>3, <3>4, <3>5
  <2>3. CASE q # p
    <3>1. Live(q)' = Live(q)
      BY <1>5, <1>6, <1>7, <1>8, <2>3 DEF Live
    <3>2. spent'[q] = spent[q]
      BY <1>4, <1>10, <2>3
    <3> QED BY <2>1, <3>1, <3>2
  <2> QED BY <2>2, <2>3
<1> QED BY <1>11, <1>12, <1>13, <1>14, <1>15 DEF LInv

\* So does an operator's refund.
LEMMA OperatorStep ==
    ASSUME LInv, NEW i \in Placed, OperatorRefunds(i)
    PROVE  LInv'
<1>1. orders[i].st = "queued" /\ Refund(i, "operator")
      /\ UNCHANGED <<purse, guild, holders, run, granted>>
  BY DEF OperatorRefunds
<1>2. /\ \E n \in 0..MaxOrders : orders' \in [1..n -> Order]
      /\ spent' \in [Profiles -> Int] /\ refunds' \subseteq Placed'
      /\ Settled' /\ TokensAddUp' /\ Placed' = Placed
      /\ \A j \in Placed \ {i} : orders'[j] = orders[j]
      /\ orders'[i].buyer = orders[i].buyer /\ orders'[i].by = "operator"
      /\ orders'[i].st = "refunded"
  BY <1>1, RefundBooks
<1>3. \A j \in Placed : orders'[j].buyer = orders[j].buyer
  BY <1>2
<1>4. LaneTypeOK'
  BY <1>1, <1>2 DEF LInv, LaneTypeOK, Placed
<1>5. RoleOrTokens'
  BY <1>1, <1>2 DEF LInv, RoleOrTokens
<1>6. RunRelies'
  <2>1. Now' = Now
    BY <1>1 DEF Now
  <2>2. run.todo \in SUBSET Ids /\ run.todo \subseteq Placed
    BY DEF LInv, LaneTypeOK, Run, Placed
  <2>3. run.step = "acks" => Now \in Placed
    BY <2>2, NowType DEF LInv, RunRelies
  <2>4. \A j \in run.todo : orders'[j].st # "refunded" \/ orders'[j].by = "operator"
    BY <1>2, <2>2 DEF LInv, RunRelies
  <2> QED BY <1>1, <1>3, <2>1, <2>3, <2>4 DEF LInv, RunRelies
<1> QED BY <1>2, <1>4, <1>5, <1>6 DEF LInv

\* So does the script's report.
LEMMA ReportsStep ==
    ASSUME LInv, Reports
    PROVE  LInv'
<1>1. /\ run.step = "acks" /\ UNCHANGED <<purse, guild, holders, granted>>
      /\ AckRole(Now, run.ok)
  BY DEF Reports
<1>2. PICK next \in {Ahead, Idle} : run' = next
  BY DEF Reports
<1>3. /\ next \in Run /\ next.todo \subseteq run.todo \ {Now} /\ next.step # "acks"
      /\ next.step # "idle" => next.todo # {}
  BY <1>2, AheadType
<1>4. run.todo \in SUBSET Ids /\ run.todo \subseteq Placed /\ run.todo # {}
  BY <1>1 DEF LInv, LaneTypeOK, Run, Placed, RunRelies
<1>5. Now \in run.todo /\ Now \in Placed
  BY <1>4, NowType
<1>6. IF run.ok THEN Now \in granted ELSE orders[Now].buyer \notin holders
  BY <1>1 DEF LInv, RunRelies
<1>7. CASE UNCHANGED <<orders, spent, refunds>>
  <2>1. UNCHANGED <<purse, orders, spent, refunds, guild, holders, granted>> /\ RoleOrTokens'
    BY <1>1, <1>7 DEF LInv, RoleOrTokens, Placed
  <2>2. holders' \subseteq guild /\ granted' \subseteq Placed
    BY <2>1 DEF LInv, LaneTypeOK, Placed
  <2> QED BY <1>2, <1>3, <1>4, <2>1, <2>2, RunOnly
<1>8. CASE orders[Now].st = "queued" /\ run.ok /\ UNCHANGED <<spent, refunds>>
           /\ orders' = [orders EXCEPT ![Now] = [@ EXCEPT !.st = "delivered", !.by = "sync"]]
  <2> DEFINE row == [orders[Now] EXCEPT !.st = "delivered", !.by = "sync"]
  <2>1. PICK n \in 0..MaxOrders : orders \in [1..n -> Order]
    BY DEF LInv, LaneTypeOK
  <2>2. Placed = 1..n /\ orders[Now] \in Order
    BY <1>5, <2>1 DEF Placed
  <2>3. row \in Order /\ row.st = "delivered" /\ row.by = "sync" /\ row.buyer = orders[Now].buyer
    BY <2>2 DEF Order
  <2> HIDE DEF row
  <2>4. /\ orders' \in [1..n -> Order] /\ orders'[Now] = row
        /\ \A j \in Placed \ {Now} : orders'[j] = orders[j]
    BY <1>5, <1>8, <2>1, <2>2, <2>3 DEF row
  <2>5. Placed' = Placed
    BY <2>2, <2>4 DEF Placed
  <2>6. LaneTypeOK'
    <3>1. refunds' \subseteq Placed' /\ run'.todo \subseteq Placed' /\ granted' \subseteq Placed'
      BY <1>1, <1>2, <1>3, <1>4, <1>8, <2>5 DEF LInv, LaneTypeOK, Placed
    <3>2. \E m \in 0..MaxOrders : orders' \in [1..m -> Order]
      BY <2>4
    <3> QED BY <1>1, <1>2, <1>3, <1>8, <3>1, <3>2 DEF LInv, LaneTypeOK, Placed
  <2>7. RoleOrTokens'
    BY <1>1, <2>3, <2>4, <2>5 DEF LInv, RoleOrTokens
  <2>8. Settled'
    BY <1>1, <1>6, <1>8, <2>3, <2>4, <2>5 DEF LInv, Settled
  <2>9. RunRelies'
    BY <1>2, <1>3, <1>4, <2>4 DEF LInv, RunRelies
  <2>10. TokensAddUp'
    <3>1. \A q \in Profiles : Live(q)' = Live(q)
      BY <1>8, <2>3, <2>4, <2>5 DEF Live
    <3> QED BY <1>1, <1>8, <3>1 DEF LInv, TokensAddUp, Balance
  <2> QED BY <2>6, <2>7, <2>8, <2>9, <2>10 DEF LInv
<1>9. CASE orders[Now].st = "queued" /\ ~run.ok /\ Refund(Now, "sync")
  <2>1. /\ \E n \in 0..MaxOrders : orders' \in [1..n -> Order]
        /\ spent' \in [Profiles -> Int] /\ refunds' \subseteq Placed'
        /\ Settled' /\ TokensAddUp' /\ Placed' = Placed
        /\ \A j \in Placed \ {Now} : orders'[j] = orders[j]
        /\ orders'[Now].buyer = orders[Now].buyer
    BY <1>1, <1>5, <1>9, RefundBooks
  <2>2. LaneTypeOK'
    <3>1. run'.todo \subseteq Placed' /\ granted' \subseteq Placed'
      BY <1>1, <1>2, <1>3, <1>4, <2>1 DEF LInv, LaneTypeOK, Placed
    <3> QED BY <1>1, <1>2, <1>3, <2>1, <3>1 DEF LInv, LaneTypeOK, Placed
  <2>3. RoleOrTokens'
    BY <1>1, <1>6, <1>9, <2>1 DEF LInv, RoleOrTokens
  <2>4. RunRelies'
    BY <1>2, <1>3, <1>4, <2>1 DEF LInv, RunRelies
  <2> QED BY <2>1, <2>2, <2>3, <2>4 DEF LInv
<1>10. \/ UNCHANGED <<orders, spent, refunds>>
       \/ orders[Now].st = "queued" /\ run.ok /\ UNCHANGED <<spent, refunds>>
           /\ orders' = [orders EXCEPT ![Now] = [@ EXCEPT !.st = "delivered", !.by = "sync"]]
       \/ orders[Now].st = "queued" /\ ~run.ok /\ Refund(Now, "sync")
  BY <1>1 DEF AckRole
<1> QED BY <1>7, <1>8, <1>9, <1>10

-----------------------------------------------------------------------------
(* The theorems                                                            *)

\* The invariant always holds.
LEMMA LaneKeepsLInv == LaneSpec => []LInv
<1>1. LInv /\ [LaneNext]_laneVars => LInv'
  <2> SUFFICES ASSUME LInv, [LaneNext]_laneVars PROVE LInv'
    OBVIOUS
  <2>1. CASE Earns \/ (\E p \in Profiles : Leaves(p) \/ Joins(p))
    BY <2>1, WorldStep
  <2>2. CASE \E p \in Profiles, discord \in BOOLEAN : PlaceOrder(p, discord)
    BY <2>2, PlaceOrderStep
  <2>3. CASE \E i \in Placed : OperatorRefunds(i)
    BY <2>3, OperatorStep
  <2>4. CASE Script
    BY <2>4, ScriptStep, ReportsStep DEF Script
  <2>5. CASE UNCHANGED laneVars
    <3>1. UNCHANGED <<purse, orders, spent, refunds, guild, holders, run, granted>>
      BY <2>5 DEF laneVars
    <3>2. /\ purse' \in [Profiles -> Nat] /\ \A p \in Profiles : purse'[p] >= purse[p]
          /\ LaneTypeOK' /\ RoleOrTokens'
      BY <3>1 DEF LInv, LaneTypeOK, RoleOrTokens, Placed
    <3> QED BY <3>1, <3>2, BooksSame, ReliesSame DEF LInv
  <2> QED BY <2>1, <2>2, <2>3, <2>4, <2>5 DEF LaneNext, People
<1> QED BY <1>1, InitLInv, PTL DEF LaneSpec

\* A buyer who holds the role has an order that stands, or one that an operator
\* chose to refund: no report of sietch_role_sync.py ever gives the tokens of a
\* role back while the role is on.
THEOREM HoldersPaid == LaneSpec => []RoleOrTokens
<1>1. LInv => RoleOrTokens
  BY DEF LInv
<1> QED BY <1>1, LaneKeepsLInv, PTL

\* ack_role marks an order delivered only on a 204 of Discord's, and what an
\* operator refunded stays refunded.
THEOREM DeliveredOnDiscordsWord == LaneSpec => []DeliveredIsGranted
<1>1. LInv => DeliveredIsGranted
  BY DEF LInv, Settled, DeliveredIsGranted
<1> QED BY <1>1, LaneKeepsLInv, PTL

\* place_order, refund and ack_role keep the books: every live order has cost its
\* price once, a refunded one nothing, and no balance falls below zero.
THEOREM LaneTokensAddUp == LaneSpec => []TokensAddUp
<1>1. LInv => TokensAddUp
  BY DEF LInv
<1> QED BY <1>1, LaneKeepsLInv, PTL
=============================================================================
