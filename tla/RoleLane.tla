------------------------------ MODULE RoleLane ------------------------------
(***************************************************************************)
(* The role lane of the Token Stall: an order for a Discord role is paid   *)
(* from the buyer's tokens, and a script beside the bot puts the role on   *)
(* the buyer and reports back, one order after the other.                  *)
(*                                                                         *)
(* Nothing claims an order for the script, so a buyer may leave the guild, *)
(* an operator may refund, and a call may be lost, between the script's    *)
(* read of the queue, its call to Discord and its report.  What a buyer    *)
(* has earned is `purse', which belongs to somebody else and only grows.   *)
(***************************************************************************)
EXTENDS SietchProfiles, Integers, FiniteSets

CONSTANTS
    Price,      \* tokens the role costs
    Limit,      \* per_profile_limit
    MaxOrders   \* orders ever placed (bound)

ASSUME LaneAssumption ==
    /\ Price \in Nat \ {0} /\ Limit \in Nat \ {0}
    /\ MaxOrders \in Nat

Ids == 1..MaxOrders

VARIABLES
    purse,    \* tokens earned: [Profiles -> Nat]
    orders,   \* portal_sn_orders, the rows of the lane, in the order of their ids
    spent,    \* debits less refunds in portal_sn_ledger: [Profiles -> Int]
    refunds,  \* orders with a refund row
    guild,    \* profiles whose Discord account is in the guild
    holders,  \* those that hold the role
    run,      \* the script's run: its step, the orders ahead, what it will report
    granted   \* orders for which Discord answered that the role is on (history)

laneVars == <<purse, orders, spent, refunds, guild, holders, run, granted>>

\* An order: the buyer, whether the session had a Discord id, and who settled it.
Order == [buyer : Profiles, discord : BOOLEAN,
          st : {"queued", "delivered", "refunded"}, by : {"nobody", "sync", "operator"}]
Run   == [step : {"idle", "puts", "acks"}, todo : SUBSET Ids, ok : BOOLEAN]
Idle  == [step |-> "idle", todo |-> {}, ok |-> FALSE]

LaneTypeOK ==
    /\ purse \in [Profiles -> Nat]
    /\ \E n \in 0..MaxOrders : orders \in [1..n -> Order]
    /\ spent \in [Profiles -> Int]
    /\ refunds \subseteq DOMAIN orders
    /\ guild \subseteq Profiles /\ holders \subseteq guild
    /\ run \in Run /\ run.todo \subseteq DOMAIN orders
    /\ granted \subseteq DOMAIN orders

-----------------------------------------------------------------------------
(* The portal: place_order and refund                                      *)

Placed     == DOMAIN orders
Balance(p) == purse[p] - spent[p]
Live(p)    == {i \in Placed : orders[i].buyer = p /\ orders[i].st # "refunded"}

\* The role is charged for whether or not the session carries a Discord id.
PlaceOrder(p, discord) ==
    LET i == Cardinality(Placed) + 1 IN
    /\ i \in Ids
    /\ Cardinality(Live(p)) < Limit
    /\ Balance(p) >= Price
    /\ orders' = [j \in Placed \cup {i} |->
                    IF j = i THEN [buyer |-> p, discord |-> discord, st |-> "queued", by |-> "nobody"]
                    ELSE orders[j]]
    /\ spent' = [spent EXCEPT ![p] = @ + Price]
    /\ UNCHANGED <<purse, refunds, guild, holders, run, granted>>

\* The one refund row of an order, and its new status.
Refund(i, who) ==
    LET p == orders[i].buyer IN
    /\ orders' = [orders EXCEPT ![i] = [@ EXCEPT !.st = "refunded", !.by = who]]
    /\ spent' = [spent EXCEPT ![p] = @ - IF i \in refunds THEN 0 ELSE Price]
    /\ refunds' = refunds \cup {i}

\* An operator refunds an order that is not settled, having confirmed, rightly or
\* not, that the role was not granted; the script is not asked.
OperatorRefunds(i) ==
    /\ orders[i].st = "queued"
    /\ Refund(i, "operator")
    /\ UNCHANGED <<purse, guild, holders, run, granted>>

-----------------------------------------------------------------------------
(* sietch_role_sync.py                                                     *)

Now == CHOOSE i \in run.todo : \A j \in run.todo : i <= j   \* the order it is at

\* The run goes on to the orders after this one.
Ahead == LET rest == run.todo \ {Now} IN
         IF rest = {} THEN Idle ELSE [step |-> "puts", todo |-> rest, ok |-> FALSE]

\* Orders without a Discord id are never on the queue.
ReadsQueue ==
    LET queue == {i \in Placed : orders[i].st = "queued" /\ orders[i].discord} IN
    /\ run.step = "idle" /\ queue # {}
    /\ run' = [step |-> "puts", todo |-> queue, ok |-> FALSE]
    /\ UNCHANGED <<purse, orders, spent, refunds, guild, holders, granted>>

\* Discord puts the role on and says so, or the answer is lost and the order held.
Grants ==
    LET b == orders[Now].buyer IN
    /\ run.step = "puts" /\ b \in guild
    /\ holders' = holders \cup {b}
    /\ \/ /\ run' = [run EXCEPT !.step = "acks", !.ok = TRUE]
          /\ granted' = granted \cup {Now}
       \/ /\ run' = Ahead
          /\ UNCHANGED granted
    /\ UNCHANGED <<purse, orders, spent, refunds, guild>>

\* Mutant: any answer but a 204 is reported as a refusal.
M_Holds ==
    /\ run.step = "puts"
    /\ run' = [run EXCEPT !.step = "acks", !.ok = FALSE]
    /\ UNCHANGED <<purse, orders, spent, refunds, guild, holders, granted>>

\* A missing permission, a server error or no answer: the order stays queued.
Holds ==
    /\ run.step = "puts"
    /\ run' = Ahead
    /\ UNCHANGED <<purse, orders, spent, refunds, guild, holders, granted>>

\* Mutant: an answer is an answer.
M_Unknown ==
    /\ run.step = "puts" /\ orders[Now].buyer \notin guild
    /\ run' = [run EXCEPT !.step = "acks", !.ok = TRUE]
    /\ UNCHANGED <<purse, orders, spent, refunds, guild, holders, granted>>

\* Unknown Member: the one definite failure.
Unknown ==
    /\ run.step = "puts" /\ orders[Now].buyer \notin guild
    /\ run' = [run EXCEPT !.step = "acks", !.ok = FALSE]
    /\ UNCHANGED <<purse, orders, spent, refunds, guild, holders, granted>>

\* Mutant: a report for an order settled meanwhile is applied all the same.
M_AckRole(i, ok) ==
    IF ok THEN /\ orders' = [orders EXCEPT ![i] = [@ EXCEPT !.st = "delivered", !.by = "sync"]]
               /\ UNCHANGED <<spent, refunds>>
          ELSE Refund(i, "sync")

\* ack_role: a report counts only while the order is queued.
AckRole(i, ok) ==
    CASE orders[i].st # "queued" -> UNCHANGED <<orders, spent, refunds>>
      [] orders[i].st = "queued" /\ ok ->
            /\ orders' = [orders EXCEPT ![i] = [@ EXCEPT !.st = "delivered", !.by = "sync"]]
            /\ UNCHANGED <<spent, refunds>>
      [] OTHER -> Refund(i, "sync")

\* The report arrives; if its answer does not, the exception ends the run.
Reports ==
    /\ run.step = "acks"
    /\ AckRole(Now, run.ok)
    /\ run' = Ahead \/ run' = Idle
    /\ UNCHANGED <<purse, guild, holders, granted>>

\* The report is lost, or the script is killed.
RunDies ==
    /\ run.step # "idle"
    /\ run' = Idle
    /\ UNCHANGED <<purse, orders, spent, refunds, guild, holders, granted>>

-----------------------------------------------------------------------------
(* The guild, and what is earned elsewhere                                 *)

\* A member who leaves loses the role.
Leaves(p) ==
    /\ p \in guild
    /\ guild' = guild \ {p} /\ holders' = holders \ {p}
    /\ UNCHANGED <<purse, orders, spent, refunds, run, granted>>

Joins(p) ==
    /\ p \notin guild
    /\ guild' = guild \cup {p}
    /\ UNCHANGED <<purse, orders, spent, refunds, holders, run, granted>>

\* The purse is somebody else's: whatever happens there, it does not shrink.
Earns ==
    /\ UNCHANGED <<orders, spent, refunds, guild, holders, run, granted>>
    /\ purse' \in [Profiles -> Nat]
    /\ \A p \in Profiles : purse'[p] >= purse[p]

LaneInit ==
    /\ purse \in [Profiles -> Nat]
    /\ orders = << >>
    /\ spent = [p \in Profiles |-> 0]
    /\ refunds = {} /\ granted = {}
    /\ guild = Profiles /\ holders = {}
    /\ run = Idle

People ==
    \/ \E p \in Profiles, discord \in BOOLEAN : PlaceOrder(p, discord)
    \/ \E i \in Placed : OperatorRefunds(i)
    \/ \E p \in Profiles : Leaves(p) \/ Joins(p)

Script == ReadsQueue \/ Grants \/ Holds \/ Unknown \/ Reports \/ RunDies

LaneNext == Earns \/ People \/ Script

LaneSpec == LaneInit /\ [][LaneNext]_laneVars

-----------------------------------------------------------------------------
(* Properties                                                              *)

\* A buyer who holds the role has paid for it: one of the orders stands, unless an
\* operator gave the tokens back on the strength of a check made too early.  The
\* script never refunds a buyer whom it, or an earlier run whose report was lost,
\* gave the role that is still on.
RoleOrTokens ==
    \A p \in holders : \E i \in Placed :
        /\ orders[i].buyer = p
        /\ orders[i].st # "refunded" \/ orders[i].by = "operator"

\* An order is delivered only on Discord's own word, and a refund is the script's
\* word or an operator's, never both.
DeliveredIsGranted ==
    \A i \in Placed : /\ orders[i].st = "delivered" => i \in granted
                      /\ orders[i].by = "operator" => orders[i].st = "refunded"

\* However a report and an operator race, every order costs its price once and
\* gives it back once, and nobody spends what was not earned.
TokensAddUp ==
    \A p \in Profiles : spent[p] = Price * Cardinality(Live(p)) /\ Balance(p) >= 0
=============================================================================
