---------------------------- MODULE StallOrders ----------------------------
(***************************************************************************)
(* The Token Stall of Seven Nights of the Sietch: a purchase in two legs.  *)
(*                                                                         *)
(* Leg 1, place_order, is one SQLite transaction in the portal: the order  *)
(* row and its Token debit are written together.  Leg 2 is a call to the   *)
(* game writer (relay, SSH, dune-reward-op.sh, Postgres), keyed by the     *)
(* order's delivery key.  apply_outcome folds the writer's answer back.    *)
(* Three senders may start leg 2 for an order: the background task of the  *)
(* order request, an operator's redrive, and the delivery sweep.  A sender *)
(* may give up on a call, or die, while the call still runs on the game    *)
(* host.                                                                   *)
(*                                                                         *)
(* The delivery key is uuid5(profile, sku, order id), so an order id       *)
(* stands for its key.  The role lane is another module's business.        *)
(*                                                                         *)
(* The portal's shop flags only keep actions from being taken, which a     *)
(* behaviour is free to do, so they are not state.                         *)
(***************************************************************************)
EXTENDS Integers, FiniteSets, FiniteSetsExt

CONSTANTS
    Profiles,       \* portal profiles (the buyers)
    Skus,           \* rows of the catalog
    Lane,           \* [Skus -> lane]
    Price,          \* [Skus -> Nat], in Tokens
    Limit,          \* [Skus -> Nat], per-profile limit, portal and writer
    Stock,          \* [Skus -> Nat], event-wide stock
    Tokens,         \* [Profiles -> Nat], earned before the Stall is used
    Calls,          \* slots for writer calls that exist at the same time (bound)
    MaxOrders,      \* orders ever placed (bound)
    SweepLimit,     \* DELIVER_PER_TICK
    FailsToStop,    \* DELIVER_FAILS_TO_STOP
    LateCalls,      \* may a writer call outlive its sender?
    ConfirmRefunds, \* do operators refund with confirm_not_delivered?
    Deploys,        \* may a call find a writer without its SKU?
    Reachable,      \* orders whose delivery can succeed or be refused for good
    NONE            \* no profile, no sku

OrderIds == 1..MaxOrders

Lanes     == {"prefs", "wallet", "bank", "spec", "charxp"}
GameLanes == Lanes \ {"prefs"}

ASSUME CatalogAssumption ==
    /\ Lane \in [Skus -> Lanes]
    /\ Price \in [Skus -> Nat]
    /\ Limit \in [Skus -> Nat]
    /\ Stock \in [Skus -> Nat]
    /\ Tokens \in [Profiles -> Nat]
    /\ NONE \notin Profiles /\ NONE \notin Skus

ASSUME BoundsAssumption ==
    /\ MaxOrders \in Nat
    /\ SweepLimit \in Nat \ {0}
    /\ FailsToStop \in Nat \ {0}
    /\ Reachable \subseteq OrderIds
    /\ {LateCalls, ConfirmRefunds, Deploys} \subseteq BOOLEAN

VARIABLES
    orders,     \* portal_sn_orders: [OrderIds -> row]
    balance,    \* SUM(delta) of portal_sn_ledger, per profile
    refunds,    \* orders with a 'refund' ledger row (ux_sn_refund)
    bg,         \* orders with a background delivery task not yet begun
    batch,      \* orders the running sweep has still to send
    streak,     \* sends in a row the sweep got no answer to
    calls,      \* writer calls: [Calls -> call]
    claims,     \* orders with an 'applied' row in dune.ls_reward_claims
    goods,      \* times the SKU was put into the game for an order
    lateGrants  \* history: orders granted by a call whose sender was gone

portal == <<orders, balance, refunds>>
sweep  == <<batch, streak>>
writer == <<claims, goods, lateGrants>>
vars   == <<orders, balance, refunds, bg, batch, streak, calls, claims,
            goods, lateGrants>>

-----------------------------------------------------------------------------
(* Rows.                                                                   *)

\* 'failed' is written and overwritten within one transaction; no row keeps it.
Statuses == {"queued", "delivering", "delivered", "reconciling", "refunded"}

\* error: "refused" stands for the definite codes raised inside the writer's
\* transaction (not_owner, cap, already_owned, capacity, bank_unopened, and the
\* character lane's own rejected); "rejected" is the one given before the claims
\* table is read; "nocode" is a failure that names none.
Errors == {"none", "deferred", "no_response", "nocode", "rejected", "refused", "admin"}

\* Mutant: a failure without a code is taken for a definite one.
M_DefiniteFailures == {"rejected", "refused", "nocode"}

DefiniteFailures == {"rejected", "refused"}

\* by: who wrote the refund. "unchecked" is an operator's refund that needed no
\* confirmation, "confirmed" one made with confirm_not_delivered.
Refunders == {"nobody", "writer", "unchecked", "confirmed"}

\* attempts is kept as 0 or 1: the code only asks whether it is 0.
\* stale: attempt_at is older than DELIVERING_STALE_S.
OrderRow == [profile : Profiles, sku : Skus, status : Statuses, attempts : {0, 1},
             stale : BOOLEAN, error : Errors, by : Refunders]

NoOrder == [profile |-> NONE, sku |-> NONE, status |-> "none", attempts |-> 0,
            stale |-> FALSE, error |-> "none", by |-> "nobody"]

Answers == {"applied", "replay", "deferred", "nocode"} \cup DefiniteFailures

\* A call's sender is "gone" once it stopped waiting; the writer side of the call
\* is "sent" (not yet in the database), "open" (inside its transaction) or done.
Call == [order : OrderIds, sender : {"portal", "sweep", "gone"},
         writer : {"sent", "open"} \cup Answers]
Idle == [order |-> 0, sender |-> "gone", writer |-> "idle"]

Placed       == {o \in OrderIds : orders[o].status # "none"}
Settled(o)   == orders[o].status \in {"delivered", "refunded"}
Refunded(o)  == orders[o].status = "refunded"
InGame(o)    == orders[o].sku \in Skus /\ Lane[orders[o].sku] \in GameLanes
Live(c)      == calls[c].sender # "gone"
Running(c)   == calls[c].writer \in {"sent", "open"}
\* Mutant: no unique index on the delivery key, so no transaction waits.
M_NoneOpen(o) == TRUE
NoneOpen(o)  == \A c \in Calls : calls[c].order = o => calls[c].writer # "open"

\* A call that nobody waits for and that is no longer running leaves its slot.
Free(call) == IF call.sender = "gone" /\ call.writer \in Answers THEN Idle ELSE call

Init ==
    /\ orders = [o \in OrderIds |-> NoOrder]
    /\ balance = Tokens
    /\ refunds = {}
    /\ bg = {}
    /\ batch = {}
    /\ streak = 0
    /\ calls = [c \in Calls |-> Idle]
    /\ claims = {}
    /\ goods = [o \in OrderIds |-> 0]
    /\ lateGrants = {}

-----------------------------------------------------------------------------
(* Leg 1.                                                                  *)

LiveOrders(p, s) == {o \in Placed : /\ orders[o].sku = s
                                    /\ orders[o].profile = p
                                    /\ ~Refunded(o)}

SoldOf(s) == UNION {LiveOrders(p, s) : p \in Profiles}

\* Mutant: the per-profile limit is not looked at.
M_AcceptsNoLimit(p, s) ==
    /\ Cardinality(SoldOf(s)) < Stock[s]
    /\ balance[p] >= Price[s]

\* Mutant: the balance is not looked at.
M_AcceptsBroke(p, s) ==
    /\ Cardinality(LiveOrders(p, s)) < Limit[s]
    /\ Cardinality(SoldOf(s)) < Stock[s]

Accepts(p, s) ==
    /\ Cardinality(LiveOrders(p, s)) < Limit[s]
    /\ Cardinality(SoldOf(s)) < Stock[s]
    /\ balance[p] >= Price[s]

\* A first POST of an idem_key: a prefs row is owned at once, a game row is
\* queued and gets one background try.
PlaceOrder(p, s) ==
    \E o \in OrderIds \ Placed :
        /\ \A n \in OrderIds \ Placed : o <= n
        /\ Accepts(p, s)
        /\ orders' = [orders EXCEPT ![o] =
               [profile |-> p, sku |-> s,
                status |-> IF Lane[s] = "prefs" THEN "delivered" ELSE "queued",
                attempts |-> 0, stale |-> FALSE, error |-> "none", by |-> "nobody"]]
        /\ balance' = [balance EXCEPT ![p] = @ - Price[s]]
        /\ bg' = IF Lane[s] = "prefs" THEN bg ELSE bg \cup {o}
        /\ UNCHANGED <<refunds, sweep, calls, writer>>

\* The same idem_key again: the order comes back unchanged, and one that was
\* never tried is handed to the background once more.
ReplayOrder(o) ==
    /\ o \in Placed /\ InGame(o)
    /\ orders[o].status = "queued" /\ orders[o].attempts = 0
    /\ bg' = bg \cup {o}
    /\ UNCHANGED <<portal, sweep, calls, writer>>

-----------------------------------------------------------------------------
(* Leg 2, the portal's side: the claim, the answer, the refund.            *)

\* Mutant: a claim another sender has just made is taken over.
M_ClaimableAlways(o) ==
    InGame(o) /\ orders[o].status \in {"queued", "reconciling", "delivering"}

\* Mutant: a claim whose sender died is never taken over.
M_ClaimableNoStale(o) ==
    InGame(o) /\ orders[o].status \in {"queued", "reconciling"}

Claimable(o) ==
    /\ InGame(o)
    /\ \/ orders[o].status \in {"queued", "reconciling"}
       \/ orders[o].status = "delivering" /\ orders[o].stale

\* begin_delivery, then the call goes out: one writer call per claim.
BeginDelivery(o, sender) ==
    /\ Claimable(o)
    /\ orders' = [orders EXCEPT ![o].status = "delivering",
                                ![o].attempts = 1, ![o].stale = FALSE]
    /\ \E c \in Calls :
          /\ calls[c] = Idle
          /\ calls' = [calls EXCEPT ![c] =
                 [order |-> o, sender |-> sender, writer |-> "sent"]]

\* Mutant: the order keeps the interim 'failed' apply_outcome gives it.
M_RefundRowFailed(row, why, by) == [row EXCEPT !.status = "failed", !.by = by]

\* Mutant: the Tokens go back and the order stays open.
M_RefundRowOpen(row, why, by) == [row EXCEPT !.by = by]

RefundRow(row, why, by) ==
    [row EXCEPT !.status = "refunded", !.by = by,
                !.error = IF @ = "none" THEN why ELSE @]

\* refund(): the ledger row is INSERT OR IGNOREd, then the order is closed.
Refund(o, row, why, by) ==
    LET price == Price[row.sku]
        fresh == price > 0 /\ o \notin refunds
    IN  /\ orders' = [orders EXCEPT ![o] = RefundRow(row, why, by)]
        /\ refunds' = IF fresh THEN refunds \cup {o} ELSE refunds
        /\ balance' = IF fresh THEN [balance EXCEPT ![row.profile] = @ + price]
                      ELSE balance

SetStatus(o, status, error) ==
    /\ orders' = [orders EXCEPT ![o].status = status, ![o].error = error]
    /\ UNCHANGED <<balance, refunds>>

\* Mutant: an answer that does not echo the key is believed.
M_ApplyNoEcho(o, answer) ==
    IF ~Settled(o) /\ answer = "nocode" THEN SetStatus(o, "delivered", "none")
    ELSE IF answer = "deferred" /\ ~Settled(o) THEN SetStatus(o, "queued", "deferred")
    ELSE UNCHANGED portal

\* Mutant: a settled order is not left alone.
M_ApplyAgain(o, answer) ==
    \/ answer \in {"applied", "replay"} /\ SetStatus(o, "delivered", "none")
    \/ answer = "none" /\ SetStatus(o, "reconciling", "no_response")

\* Mutant: no answer is taken for a refusal.
M_ApplyTimeoutRefunds(o, answer) ==
    \/ Settled(o) /\ UNCHANGED portal
    \/ /\ ~Settled(o)
       /\ \/ answer \in {"applied", "replay"} /\ SetStatus(o, "delivered", "none")
          \/ answer = "none" /\ Refund(o, orders[o], "no_response", "writer")

\* apply_outcome; answer "none" is a timeout, a 5xx or an exception.
ApplyOutcome(o, answer) ==
    \/ Settled(o) /\ UNCHANGED portal
    \/ /\ ~Settled(o)
       /\ \/ answer \in {"applied", "replay"} /\ SetStatus(o, "delivered", "none")
          \/ answer = "deferred" /\ SetStatus(o, "queued", "deferred")
          \/ /\ answer \in DefiniteFailures
             /\ Refund(o, [orders[o] EXCEPT !.error = answer], answer, "writer")
          \/ answer = "nocode" /\ SetStatus(o, "reconciling", "nocode")
          \/ answer = "none" /\ SetStatus(o, "reconciling", "no_response")

Leave(c) == calls' = [calls EXCEPT ![c] = Free([@ EXCEPT !.sender = "gone"])]

\* The sweep stops after FailsToStop sends in a row that got no answer.
CountSend(c, answered) ==
    IF calls[c].sender # "sweep" THEN UNCHANGED sweep
    ELSE LET n == IF answered THEN 0 ELSE streak + 1
         IN  IF n >= FailsToStop THEN batch' = {} /\ streak' = 0
             ELSE streak' = n /\ UNCHANGED batch

\* The writer's answer reaches the sender, which folds it in.
Answered(c) ==
    /\ Live(c) /\ calls[c].writer \in Answers
    /\ ApplyOutcome(calls[c].order, calls[c].writer)
    /\ Leave(c)
    /\ CountSend(c, TRUE)
    /\ UNCHANGED <<bg, writer>>

\* The sender stops waiting (20 s and 25 s in the portal, 45 s in the relay, 50 s
\* in the sweep) or the answer is lost on the way.
GiveUp(c) ==
    /\ Live(c)
    /\ LateCalls \/ ~Running(c)
    /\ ApplyOutcome(calls[c].order, "none")
    /\ Leave(c)
    /\ CountSend(c, FALSE)
    /\ UNCHANGED <<bg, writer>>

\* A sender's process dies: its orders stay 'delivering', its tasks are lost.
Abandon(sender) ==
    calls' = [c \in Calls |-> IF calls[c].sender = sender
                              THEN Free([calls[c] EXCEPT !.sender = "gone"])
                              ELSE calls[c]]

NoneRuns(sender) == \A c \in Calls : calls[c].sender = sender => ~Running(c)

PortalRestart ==
    /\ LateCalls \/ NoneRuns("portal")
    /\ Abandon("portal")
    /\ bg' = {}
    /\ UNCHANGED <<portal, sweep, writer>>

SweepDies ==
    /\ LateCalls \/ NoneRuns("sweep")
    /\ Abandon("sweep")
    /\ batch' = {} /\ streak' = 0
    /\ UNCHANGED <<portal, bg, writer>>

\* 900 s pass over a claim.  No sender waits that long, so its sender is gone.
GoStale(o) ==
    /\ orders[o].status = "delivering" /\ ~orders[o].stale
    /\ \A c \in Calls : calls[c].order = o => ~Live(c)
    /\ orders' = [orders EXCEPT ![o].stale = TRUE]
    /\ UNCHANGED <<balance, refunds, bg, sweep, calls, writer>>

-----------------------------------------------------------------------------
(* The three senders.                                                      *)

\* The background task of the order request; it ends quietly when another
\* sender holds the order.
Background(o) ==
    /\ o \in bg
    /\ bg' = bg \ {o}
    /\ \/ BeginDelivery(o, "portal") /\ UNCHANGED <<balance, refunds>>
       \/ ~Claimable(o) /\ UNCHANGED <<portal, calls>>
    /\ UNCHANGED <<sweep, writer>>

Redrive(o) ==
    /\ orders[o].status \in {"queued", "reconciling"}
    /\ BeginDelivery(o, "portal")
    /\ UNCHANGED <<balance, refunds, bg, sweep, writer>>

Due == {o \in Placed : Claimable(o)}

\* The sweep's one SELECT: the oldest SweepLimit due orders.
OldestDue == {o \in Due : Cardinality({n \in Due : n < o}) < SweepLimit}

Sweeping == \E c \in Calls : calls[c].sender = "sweep"

SweepStart ==
    /\ batch = {} /\ ~Sweeping
    /\ Due # {}
    /\ batch' = OldestDue /\ streak' = 0
    /\ UNCHANGED <<portal, bg, calls, writer>>

SweepSend ==
    /\ batch # {} /\ ~Sweeping
    /\ \E o \in batch :
          /\ \A n \in batch : o <= n
          /\ batch' = batch \ {o}
          /\ \/ BeginDelivery(o, "sweep") /\ UNCHANGED <<balance, refunds>>
             \/ ~Claimable(o) /\ UNCHANGED <<portal, calls>>
    /\ UNCHANGED <<streak, bg, writer>>

-----------------------------------------------------------------------------
(* Leg 2, the game writer: do_sn_shop.                                     *)

\* The writer side of call c ends with an answer, or moves on.
Writes(c, state) == calls' = [calls EXCEPT ![c] = Free([@ EXCEPT !.writer = state])]

OnlyWriter == UNCHANGED <<portal, bg, sweep>>

GrantedOf(p, s) == {o \in claims : orders[o].profile = p /\ orders[o].sku = s}

\* The gate file and the embedded allowlist, each as the call finds it, answer
\* before anything is looked up: neither knows whether this key was applied.
WriterGate(c) ==
    /\ calls[c].writer = "sent"
    /\ Writes(c, "deferred") \/ (Deploys /\ Writes(c, "rejected"))
    /\ OnlyWriter /\ UNCHANGED writer

\* INSERT ... ON CONFLICT DO NOTHING finds the key's committed row.
WriterReplay(c) ==
    /\ calls[c].writer = "sent"
    /\ calls[c].order \in claims
    /\ Writes(c, "replay")
    /\ OnlyWriter /\ UNCHANGED writer

\* The row is inserted, and the per-profile cap counted over the rows committed
\* so far.  An open transaction on the same key makes this one wait; when that one
\* commits, this statement does not see its row and ends without a code
\* (WriterFails), or had not begun and replays.
WriterOpen(c) ==
    LET o == calls[c].order
        used == Cardinality(GrantedOf(orders[o].profile, orders[o].sku))
    IN  /\ calls[c].writer = "sent"
        /\ o \notin claims
        /\ NoneOpen(o)
        /\ IF used >= Limit[orders[o].sku] THEN Writes(c, "refused")
                                            ELSE Writes(c, "open")
        /\ OnlyWriter /\ UNCHANGED writer

\* A refusal raised inside the transaction rolls the row back.  Only the RAM-
\* resident lanes defer.
WriterRefuse(c) ==
    /\ calls[c].writer = "open"
    /\ \/ Writes(c, "refused")
       \/ /\ Lane[orders[calls[c].order].sku] \in {"spec", "charxp"}
          /\ Writes(c, "deferred")
    /\ OnlyWriter /\ UNCHANGED writer

\* The commit: row and grant together.  Its RESULT line may be lost on the way
\* out of the database, which reads as a failure without a code.
WriterCommit(c) ==
    LET o == calls[c].order
    IN  /\ calls[c].writer = "open"
        /\ claims' = claims \cup {o}
        /\ goods' = [goods EXCEPT ![o] = @ + 1]
        /\ lateGrants' = IF Live(c) THEN lateGrants ELSE lateGrants \cup {o}
        /\ Writes(c, "applied") \/ Writes(c, "nocode")
        /\ OnlyWriter

\* Any other failure before the commit: nothing applied, no error code.
WriterFails(c) ==
    /\ Running(c)
    /\ Writes(c, "nocode")
    /\ OnlyWriter /\ UNCHANGED writer

-----------------------------------------------------------------------------
(* Operators.                                                              *)

\* Mutant: a deferred order is refunded as if it had never been sent.
M_NeedsConfirm(row) == row.status \in {"delivering", "reconciling"}

NeedsConfirm(row) ==
    \/ row.status \in {"delivering", "reconciling"}
    \/ row.status = "queued" /\ row.attempts > 0

\* With confirm_not_delivered the operator has looked the key up in the claims
\* table and found no row.
OperatorRefund(o) ==
    /\ o \in Placed /\ ~Settled(o)
    /\ \/ ~NeedsConfirm(orders[o]) /\ Refund(o, orders[o], "admin", "unchecked")
       \/ /\ ConfirmRefunds /\ NeedsConfirm(orders[o]) /\ o \notin claims
          /\ Refund(o, orders[o], "admin", "confirmed")
    /\ UNCHANGED <<bg, sweep, calls, writer>>

-----------------------------------------------------------------------------

Next ==
    \/ \E p \in Profiles, s \in Skus : PlaceOrder(p, s)
    \/ \E o \in OrderIds : \/ ReplayOrder(o) \/ Background(o) \/ Redrive(o)
                           \/ GoStale(o) \/ OperatorRefund(o)
    \/ \E c \in Calls : \/ Answered(c) \/ GiveUp(c)
                        \/ WriterGate(c) \/ WriterReplay(c) \/ WriterOpen(c)
                        \/ WriterRefuse(c) \/ WriterCommit(c) \/ WriterFails(c)
    \/ SweepStart \/ SweepSend \/ SweepDies \/ PortalRestart

Spec == Init /\ [][Next]_vars

(***************************************************************************)
(* Fairness.  The sweep's timer fires, the sweep takes its next order and, *)
(* from some time on, is not killed half way; every call ends and every    *)
(* sender has a timeout; time passes over a stale claim.  Of the game host *)
(* only this: an order in Reachable, sent again and again, is not forever  *)
(* met by a closed gate, a character in game, a failure without a code or  *)
(* a lost answer before its sender gives up.  The portal may restart for   *)
(* ever; operators do not redrive for ever.                                *)
(***************************************************************************)
CallEnds(c) == \/ WriterGate(c) \/ WriterReplay(c) \/ WriterOpen(c)
               \/ WriterRefuse(c) \/ WriterCommit(c) \/ WriterFails(c)

Looked(o)  == \E c \in Calls : /\ calls[c].order = o /\ Live(c)
                               /\ WriterOpen(c) \/ WriterReplay(c)
Granted(o) == \E c \in Calls : calls[c].order = o /\ Live(c) /\ WriterCommit(c)
Heard(o)   == \E c \in Calls : /\ calls[c].order = o
                               /\ calls[c].writer \in {"applied", "replay"} \cup DefiniteFailures
                               /\ Answered(c)

Fairness ==
    /\ WF_vars(SweepStart) /\ SF_vars(SweepSend)
    /\ <>[][~SweepDies /\ \A o \in OrderIds : ~Redrive(o)]_vars
    /\ \A c \in Calls : WF_vars(CallEnds(c)) /\ WF_vars(Answered(c) \/ GiveUp(c))
    /\ \A o \in OrderIds : WF_vars(GoStale(o))
    /\ \A o \in Reachable : SF_vars(Looked(o)) /\ SF_vars(Granted(o)) /\ SF_vars(Heard(o))

FairSpec == Spec /\ Fairness

-----------------------------------------------------------------------------
(* Safety.                                                                 *)

\* Every table holds rows of its schema; a placed order has a buyer and a SKU.
TypeOK ==
    /\ orders \in [OrderIds -> OrderRow \cup {NoOrder}]
    /\ balance \in [Profiles -> Int]
    /\ refunds \subseteq OrderIds
    /\ bg \subseteq OrderIds
    /\ batch \subseteq OrderIds
    /\ streak \in 0..FailsToStop
    /\ calls \in [Calls -> Call \cup {Idle}]
    /\ claims \subseteq OrderIds
    /\ goods \in [OrderIds -> Nat]
    /\ lateGrants \subseteq claims

\* Tokens are neither made nor lost: a profile holds what it earned less the
\* price of every order not refunded, never less than nothing, however place_order,
\* apply_outcome and the operator's refund interleave (sietch_nights.refund).
TokensConserved ==
    \A p \in Profiles :
        /\ balance[p] = Tokens[p] - MapThenSumSet(LAMBDA o : Price[orders[o].sku],
              {o \in Placed : orders[o].profile = p /\ ~Refunded(o)})
        /\ balance[p] >= 0

\* A profile never holds more live orders of a SKU than its limit, and the Stall
\* never sells more of one than its stock, refunds and retries included
\* (_order_refusal under BEGIN IMMEDIATE).
LimitsHold ==
    \A s \in Skus : /\ \A p \in Profiles : Cardinality(LiveOrders(p, s)) <= Limit[s]
                    /\ Cardinality(SoldOf(s)) <= Stock[s]

\* At most one sender waits on an order at a time, although three kinds of sender
\* and the reclaim of a stale claim compete for it; while one waits, the order
\* says 'delivering' unless an operator confirmed a refund (begin_delivery).
OneSender ==
    \A c \in Calls : Live(c) =>
        /\ \A d \in Calls : Live(d) /\ calls[d].order = calls[c].order => d = c
        /\ LET row == orders[calls[c].order]
           IN  \/ row.status = "delivering" /\ ~row.stale
               \/ row.status = "refunded" /\ row.by = "confirmed"

\* A game-lane order reads 'delivered' only once its grant is committed in the
\* game database, whatever was lost, repeated or timed out on the way
\* (apply_outcome believes only an answer that echoes the order's key).
DeliveredIsGranted ==
    \A o \in Placed : InGame(o) /\ orders[o].status = "delivered" => o \in claims

\* An operator may refund an untried order without checking the game side, and is
\* right to: its grant never lands, not even from a background task or a sweep
\* that had already picked the order up (refund_needs_confirm, begin_delivery).
UncheckedRefundIsSafe ==
    \A o \in Placed : orders[o].by = "unchecked" => o \notin claims

\* When a buyer ends up with both the item and the Tokens, one of three things
\* happened: an operator confirmed a refund while a call was still under way; the
\* grant came from a call its sender had given up on; or the refund answered a
\* 'rejected', which the writer says without looking the key up (apply_outcome).
DoubleGrantExplained ==
    \A o \in claims : Refunded(o) =>
        \/ orders[o].by = "confirmed"
        \/ orders[o].by = "writer" /\ (o \in lateGrants \/ orders[o].error = "rejected")

\* A buyer never gets both the item and the Tokens (the ALERT branch of
\* apply_outcome is never right to fire).  The runs say under which conditions.
NoBlindRefund == \A o \in claims : ~Refunded(o)

\* A settled order stays as it is: no late answer, retry, replayed request or
\* second operator changes it or moves its Tokens again (apply_outcome's early
\* return, begin_delivery's and the refund route's guards).
SettledIsFinal ==
    [][\A o \in OrderIds : Settled(o) => orders'[o] = orders[o]]_orders

\* However often an order is sent, its goods enter the game at most once, and
\* exactly when its claims row is committed (INSERT ... ON CONFLICT DO NOTHING,
\* and the unique index a second transaction on the key waits on).
GrantedOnce ==
    \A o \in OrderIds : goods[o] = IF o \in claims THEN 1 ELSE 0

-----------------------------------------------------------------------------
(* Liveness.                                                               *)

\* Every order that can be delivered or refused is, in the end, although its
\* background try is lost with a restart, answers are lost, the sweep dies between
\* claim and answer, and other orders are stuck (deliver_sweep, due_deliveries).
EveryOrderSettles == \A o \in Reachable : o \in Placed ~> Settled(o)

\* Every due order is re-sent, or refunded (the tick's --deliver: "re-send every
\* queued or reconciling order"; due_deliveries takes the oldest few only).
EveryDueOrderIsSent == \A o \in OrderIds : o \in Due ~> o \notin Due

-----------------------------------------------------------------------------
(* What the Stall promises, with every call ending before its sender leaves, *)
(* no operator overriding and every SKU known to the writer.                *)

Bought(row) == CASE row.status = "none"      -> "none"
                 [] row.status = "delivered" -> "done"
                 [] row.status = "refunded"  -> "returned"
                 [] OTHER                    -> "paid"

PurchaseState == [o \in OrderIds |-> Bought(orders[o])]
Given         == {o \in OrderIds : goods[o] > 0}

Purchase == INSTANCE StallPurchase WITH
    Ids <- OrderIds, purchase <- PurchaseState, given <- Given

\* The two legs together implement the purchase: paid once, then completed with
\* the goods or returned without them, every step of the code a step of it.
KeepsPromise == Purchase!Spec

=============================================================================
