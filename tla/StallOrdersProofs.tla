------------------------- MODULE StallOrdersProofs -------------------------
(***************************************************************************)
(* Proofs about StallOrders, for any catalog, buyers, number of orders and *)
(* number of calls under way.                                              *)
(*                                                                         *)
(* IInv is the inductive invariant.  Besides the properties themselves it  *)
(* says what they lean on: an order that was never sent has left no trace  *)
(* outside the portal (Untried), open transactions exclude each other and  *)
(* a committed row (OpenAlone), and what an answer still under way tells   *)
(* about the claims table (AnswersTrue).                                   *)
(***************************************************************************)
EXTENDS StallOrders, FoldProofs

-----------------------------------------------------------------------------
(* The inductive invariant.                                                *)

\* begin_delivery counts the attempt before the call leaves.
Untried ==
    \A o \in OrderIds : orders[o].attempts = 0 =>
        /\ o \notin claims
        /\ \A c \in Calls : calls[c].order # o

\* One open transaction to a key, and none to a key that is committed.
OpenAlone ==
    \A c \in Calls : calls[c].writer = "open" =>
        /\ calls[c].order \notin claims
        /\ \A d \in Calls : calls[d].writer = "open" /\ calls[d].order = calls[c].order
                                => d = c

\* A sender that is told "applied" can rely on it; one that is told "refused" can
\* rely on no call but one given up before having applied the order.
AnswersTrue ==
    \A c \in Calls : Live(c) =>
        /\ calls[c].writer \in {"applied", "replay"} => calls[c].order \in claims
        /\ calls[c].writer = "refused" /\ calls[c].order \in claims
               => calls[c].order \in lateGrants

\* Every refund has an author, and one made without a check was of an untried order.
RefundsSigned ==
    \A o \in OrderIds :
        /\ Refunded(o) => orders[o].by # "nobody"
        /\ orders[o].by = "unchecked" => Refunded(o) /\ orders[o].attempts = 0

IInv == /\ TypeOK /\ Untried /\ OneSender /\ OpenAlone /\ AnswersTrue
        /\ RefundsSigned /\ GrantedOnce /\ DeliveredIsGranted /\ DoubleGrantExplained

-----------------------------------------------------------------------------
(* The initial states.                                                     *)

\* The portal starts with no order, no call and no claim.
LEMMA InitIInv == Init => IInv
<1> SUFFICES ASSUME Init PROVE IInv
  OBVIOUS
<1>1. TypeOK
  BY CatalogAssumption, BoundsAssumption DEF Init, TypeOK, OrderIds
<1>2. Untried
  BY DEF Init, Untried, OrderIds, Idle
<1>3. OneSender
  BY DEF Init, OneSender, Live, Idle
<1>4. OpenAlone
  BY DEF Init, OpenAlone, Idle
<1>5. AnswersTrue
  BY DEF Init, AnswersTrue, Live, Idle
<1>6. RefundsSigned
  BY DEF Init, RefundsSigned, Refunded, NoOrder
<1>7. GrantedOnce
  BY DEF Init, GrantedOnce
<1>8. DeliveredIsGranted /\ DoubleGrantExplained
  BY DEF Init, DeliveredIsGranted, DoubleGrantExplained, Placed, NoOrder
<1> QED
  BY <1>1, <1>2, <1>3, <1>4, <1>5, <1>6, <1>7, <1>8 DEF IInv

-----------------------------------------------------------------------------
(* Steps that only touch a sender's own memory.                            *)

\* A sender's list of work may change as it likes.
LEMMA MemoryStep ==
    ASSUME IInv,
           UNCHANGED <<portal, calls, writer>>,
           bg' \subseteq OrderIds, batch' \subseteq OrderIds, streak' \in 0..FailsToStop
    PROVE  IInv'
<1> USE DEF portal, writer
<1>1. TypeOK'
  BY DEF IInv, TypeOK
<1>2. Untried'
  BY DEF IInv, Untried
<1>3. OneSender' /\ OpenAlone' /\ AnswersTrue'
  BY DEF IInv, OneSender, OpenAlone, AnswersTrue, Live
<1>4. RefundsSigned' /\ GrantedOnce'
  BY DEF IInv, RefundsSigned, Refunded, GrantedOnce
<1>5. DeliveredIsGranted' /\ DoubleGrantExplained'
  BY DEF IInv, DeliveredIsGranted, DoubleGrantExplained, Placed, InGame, Refunded
<1> QED
  BY <1>1, <1>2, <1>3, <1>4, <1>5 DEF IInv

-----------------------------------------------------------------------------
(* Steps of the writer.                                                    *)

\* What Writes does to the calls, slot by slot.
LEMMA WritesEffect ==
    ASSUME TypeOK, NEW c \in Calls, NEW st \in {"open"} \cup Answers,
           Running(c), Writes(c, st)
    PROVE  /\ calls' \in [Calls -> Call \cup {Idle}]
           /\ calls[c] \in Call
           /\ \A d \in Calls \ {c} : calls'[d] = calls[d]
           /\ \/ calls'[c] = [calls[c] EXCEPT !.writer = st]
              \/ ~Live(c) /\ calls'[c] = Idle
<1>1. calls[c] \in Call
  BY DEF TypeOK, Running, Idle
<1>2. calls'[c] = Free([calls[c] EXCEPT !.writer = st])
  BY <1>1 DEF Writes, TypeOK
<1>3. [calls[c] EXCEPT !.writer = st] \in Call
  BY <1>1 DEF Call
<1>4. \/ calls'[c] = [calls[c] EXCEPT !.writer = st]
      \/ ~Live(c) /\ calls'[c] = Idle
  BY <1>1, <1>2 DEF Free, Live, Call
<1>5. \A d \in Calls \ {c} : calls'[d] = calls[d]
  BY DEF Writes, TypeOK
<1>6. calls' \in [Calls -> Call \cup {Idle}]
  BY <1>2, <1>3, <1>4 DEF Writes, TypeOK
<1> QED
  BY <1>1, <1>4, <1>5, <1>6

\* A call that moves on without committing, as long as it only opens alone and
\* only says what is so.
LEMMA WriterStep ==
    ASSUME IInv, NEW c \in Calls, NEW st \in {"open"} \cup Answers,
           Running(c), Writes(c, st), OnlyWriter, UNCHANGED writer,
           st = "open" => calls[c].order \notin claims /\ NoneOpen(calls[c].order),
           st \in {"applied", "replay"} => calls[c].order \in claims,
           st = "refused" => calls[c].order \notin claims
    PROVE  IInv'
<1> DEFINE o == calls[c].order
<1>1. /\ calls' \in [Calls -> Call \cup {Idle}]
      /\ calls[c] \in Call
      /\ \A d \in Calls \ {c} : calls'[d] = calls[d]
      /\ \/ calls'[c] = [calls[c] EXCEPT !.writer = st]
         \/ ~Live(c) /\ calls'[c] = Idle
  BY WritesEffect DEF IInv
<1>2. UNCHANGED <<orders, balance, refunds, bg, batch, streak, claims, goods, lateGrants>>
  BY DEF OnlyWriter, portal, sweep, writer
<1>3. \/ calls'[c].order = o /\ calls'[c].sender = calls[c].sender /\ calls'[c].writer = st
      \/ ~Live(c) /\ calls'[c] = Idle
  BY <1>1 DEF Call
<1>4. TypeOK'
  BY <1>1, <1>2 DEF IInv, TypeOK
<1>5. Untried'
  BY <1>1, <1>2, <1>3 DEF IInv, Untried, Idle, OrderIds
<1>6. OneSender'
  BY <1>1, <1>2, <1>3 DEF IInv, OneSender, Live, Idle
<1>7. OpenAlone'
  BY <1>1, <1>2, <1>3 DEF IInv, OpenAlone, NoneOpen, Idle
<1>8. AnswersTrue'
  BY <1>1, <1>2, <1>3 DEF IInv, AnswersTrue, Live, Idle
<1>9. RefundsSigned' /\ GrantedOnce'
  BY <1>2 DEF IInv, RefundsSigned, Refunded, GrantedOnce
<1>10. DeliveredIsGranted' /\ DoubleGrantExplained'
  BY <1>2 DEF IInv, DeliveredIsGranted, DoubleGrantExplained, Placed, InGame, Refunded
<1> QED
  BY <1>4, <1>5, <1>6, <1>7, <1>8, <1>9, <1>10 DEF IInv

\* The commit.  The open call is alone on its key, so the goods enter once; and if
\* the order was refunded meanwhile, the call's sender is gone or an operator
\* signed for it.
LEMMA CommitStep ==
    ASSUME IInv, NEW c \in Calls, WriterCommit(c)
    PROVE  IInv'
<1> DEFINE o == calls[c].order
<1>1. PICK st \in {"applied", "nocode"} : Writes(c, st)
  BY DEF WriterCommit
<1>2. /\ calls[c].writer = "open" /\ Running(c)
      /\ claims' = claims \cup {o}
      /\ goods' = [goods EXCEPT ![o] = @ + 1]
      /\ lateGrants' = IF Live(c) THEN lateGrants ELSE lateGrants \cup {o}
      /\ UNCHANGED <<orders, balance, refunds, bg, batch, streak>>
  BY DEF WriterCommit, Running, OnlyWriter, portal, sweep
<1>3. /\ calls' \in [Calls -> Call \cup {Idle}]
      /\ calls[c] \in Call
      /\ \A d \in Calls \ {c} : calls'[d] = calls[d]
      /\ \/ calls'[c] = [calls[c] EXCEPT !.writer = st]
         \/ ~Live(c) /\ calls'[c] = Idle
  BY <1>1, <1>2, WritesEffect DEF IInv, Answers
<1>4. \/ calls'[c].order = o /\ calls'[c].sender = calls[c].sender /\ calls'[c].writer = st
      \/ ~Live(c) /\ calls'[c] = Idle
  BY <1>3 DEF Call
<1>5. o \in OrderIds /\ o \notin claims /\ orders[o].attempts # 0
  BY <1>2, <1>3 DEF IInv, OpenAlone, Untried, Call
<1>6. TypeOK'
  BY <1>2, <1>3, <1>5 DEF IInv, TypeOK
<1>7. Untried'
  BY <1>2, <1>3, <1>4, <1>5 DEF IInv, Untried, Idle, OrderIds
<1>8. OneSender'
  BY <1>2, <1>3, <1>4 DEF IInv, OneSender, Live, Idle
<1>9. OpenAlone'
  BY <1>2, <1>3, <1>4 DEF IInv, OpenAlone, Idle
<1>10. AnswersTrue'
  <2> SUFFICES ASSUME NEW d \in Calls, Live(d)'
               PROVE  /\ calls'[d].writer \in {"applied", "replay"} => calls'[d].order \in claims'
                      /\ calls'[d].writer = "refused" /\ calls'[d].order \in claims'
                             => calls'[d].order \in lateGrants'
    BY DEF AnswersTrue
  <2>1. CASE d = c
    BY <2>1, <1>2, <1>4 DEF Live, Idle
  <2>2. CASE d # c
    <3>1. calls'[d] = calls[d] /\ Live(d)
      BY <2>2, <1>3 DEF Live
    <3>2. calls[d].order = o => ~Live(c)
      BY <2>2, <3>1 DEF IInv, OneSender
    <3> QED
      BY <3>1, <3>2, <1>2 DEF IInv, AnswersTrue
  <2> QED
    BY <2>1, <2>2
<1>11. RefundsSigned'
  BY <1>2 DEF IInv, RefundsSigned, Refunded
<1>12. GrantedOnce'
  BY <1>2, <1>5 DEF IInv, GrantedOnce, TypeOK
<1>13. DeliveredIsGranted'
  BY <1>2 DEF IInv, DeliveredIsGranted, Placed, InGame
<1>14. DoubleGrantExplained'
  <2>1. ASSUME Refunded(o), Live(c) PROVE orders[o].by = "confirmed"
    BY <2>1 DEF IInv, OneSender, Refunded
  <2>2. ASSUME Refunded(o), ~Live(c) PROVE o \in lateGrants'
    BY <2>2, <1>2
  <2>3. Refunded(o) => orders[o].by \in {"writer", "confirmed"}
    <3>1. orders[o] \in OrderRow \cup {NoOrder}
      BY <1>5 DEF IInv, TypeOK
    <3>2. orders[o].by \in Refunders
      BY <3>1 DEF OrderRow, NoOrder, Refunders
    <3> QED
      BY <3>2, <1>5 DEF IInv, RefundsSigned, Refunders
  <2> QED
    BY <2>1, <2>2, <2>3, <1>2 DEF IInv, DoubleGrantExplained, Refunded
<1> QED
  BY <1>6, <1>7, <1>8, <1>9, <1>10, <1>11, <1>12, <1>13, <1>14 DEF IInv

-----------------------------------------------------------------------------
(* Steps of the senders.                                                   *)

\* Calls whose sender goes leave the rest as it is; all calls keep their order and
\* their writer's side, or their slot is freed.
LEMMA SendersGone ==
    ASSUME IInv, calls' \in [Calls -> Call \cup {Idle}],
           \A d \in Calls : \/ calls'[d] = calls[d]
                            \/ calls'[d] = [calls[d] EXCEPT !.sender = "gone"]
                            \/ calls'[d] = Idle,
           UNCHANGED writer
    PROVE  /\ \A d \in Calls : calls'[d].order \in {calls[d].order, 0}
           /\ \A d \in Calls : Live(d)' => calls'[d] = calls[d]
           /\ OpenAlone' /\ AnswersTrue'
<1>1. \A d \in Calls : calls[d] \in Call \cup {Idle}
  BY DEF IInv, TypeOK
<1>2. \A d \in Calls : \/ /\ calls'[d].order = calls[d].order
                          /\ calls'[d].writer = calls[d].writer
                          /\ Live(d)' => calls'[d] = calls[d]
                       \/ calls'[d] = Idle
  BY <1>1 DEF Call, Idle, Live
<1>3. \A d \in Calls : calls'[d].order \in {calls[d].order, 0}
  BY <1>2 DEF Idle
<1>4. \A d \in Calls : Live(d)' => calls'[d] = calls[d]
  BY <1>2 DEF Idle, Live
<1>5. OpenAlone'
  BY <1>2 DEF IInv, OpenAlone, Idle, writer
<1>6. AnswersTrue'
  BY <1>4 DEF IInv, AnswersTrue, writer, Live
<1> QED
  BY <1>3, <1>4, <1>5, <1>6

\* A sender's process dies: nothing of the portal or the writer changes with it.
LEMMA AbandonStep ==
    ASSUME IInv, NEW sender \in {"portal", "sweep"}, Abandon(sender),
           UNCHANGED <<portal, writer>>,
           bg' \subseteq OrderIds, batch' \subseteq OrderIds, streak' \in 0..FailsToStop
    PROVE  IInv'
<1>1. /\ calls' \in [Calls -> Call \cup {Idle}]
      /\ \A d \in Calls : \/ calls'[d] = calls[d]
                          \/ calls'[d] = [calls[d] EXCEPT !.sender = "gone"]
                          \/ calls'[d] = Idle
  <2>1. \A d \in Calls : calls[d] \in Call \cup {Idle}
    BY DEF IInv, TypeOK
  <2>2. \A d \in Calls : calls[d].sender = sender =>
            /\ [calls[d] EXCEPT !.sender = "gone"] \in Call
            /\ calls[d] \in Call
    BY <2>1 DEF Call, Idle
  <2> QED
    BY <2>1, <2>2 DEF Abandon, Free
<1>2. /\ \A d \in Calls : calls'[d].order \in {calls[d].order, 0}
      /\ \A d \in Calls : Live(d)' => calls'[d] = calls[d]
      /\ OpenAlone' /\ AnswersTrue'
  BY <1>1, SendersGone
<1>3. UNCHANGED <<orders, balance, refunds, claims, goods, lateGrants>>
  BY DEF portal, writer
<1>4. TypeOK'
  BY <1>1, <1>3 DEF IInv, TypeOK
<1>5. Untried'
  BY <1>2, <1>3 DEF IInv, Untried, OrderIds
<1>6. OneSender'
  BY <1>2, <1>3 DEF IInv, OneSender, Live
<1>7. RefundsSigned' /\ GrantedOnce'
  BY <1>3 DEF IInv, RefundsSigned, Refunded, GrantedOnce
<1>8. DeliveredIsGranted' /\ DoubleGrantExplained'
  BY <1>3 DEF IInv, DeliveredIsGranted, DoubleGrantExplained, Placed, InGame, Refunded
<1> QED
  BY <1>2, <1>4, <1>5, <1>6, <1>7, <1>8 DEF IInv

\* A row that was sent is a placed row, and a buyer's price is a number.
LEMMA RowTyped ==
    ASSUME TypeOK, NEW o \in OrderIds, orders[o] # NoOrder
    PROVE  orders[o] \in OrderRow /\ Price[orders[o].sku] \in Nat
BY CatalogAssumption DEF TypeOK, OrderRow

\* refund() on an open row, whatever reason and refunder.
LEMMA RefundEffect ==
    ASSUME TypeOK, NEW o \in OrderIds, NEW row \in OrderRow, row.profile = orders[o].profile,
           NEW why \in Errors \ {"none"}, NEW by \in Refunders,
           Refund(o, row, why, by)
    PROVE  /\ orders' = [orders EXCEPT ![o] = RefundRow(row, why, by)]
           /\ RefundRow(row, why, by) \in OrderRow
           /\ RefundRow(row, why, by).status = "refunded"
           /\ RefundRow(row, why, by).by = by
           /\ RefundRow(row, why, by).attempts = row.attempts
           /\ RefundRow(row, why, by).error = IF row.error = "none" THEN why ELSE row.error
           /\ RefundRow(row, why, by).sku = row.sku
           /\ balance' \in [Profiles -> Int] /\ refunds' \subseteq OrderIds
<1>1. Price[row.sku] \in Nat /\ row.profile \in Profiles
  BY CatalogAssumption DEF OrderRow
<1>2. balance' \in [Profiles -> Int] /\ refunds' \subseteq OrderIds
  BY <1>1 DEF Refund, TypeOK
<1>3. /\ RefundRow(row, why, by) \in OrderRow
      /\ RefundRow(row, why, by).status = "refunded"
      /\ RefundRow(row, why, by).by = by
      /\ RefundRow(row, why, by).attempts = row.attempts
      /\ RefundRow(row, why, by).error = IF row.error = "none" THEN why ELSE row.error
      /\ RefundRow(row, why, by).sku = row.sku
  BY DEF RefundRow, OrderRow, Statuses
<1> QED
  BY <1>2, <1>3 DEF Refund

\* What one answer makes of a row: an open one, one delivered because its claim is
\* there, or one refunded by the writer's word.
LEMMA OutcomeEffect ==
    ASSUME IInv, NEW o \in OrderIds, orders[o].attempts # 0, ~Settled(o),
           NEW answer \in Answers \cup {"none"},
           answer \in {"applied", "replay"} => o \in claims,
           answer = "refused" /\ o \in claims => o \in lateGrants,
           ApplyOutcome(o, answer)
    PROVE  \E r \in OrderRow :
             /\ orders' = [orders EXCEPT ![o] = r]
             /\ balance' \in [Profiles -> Int] /\ refunds' \subseteq OrderIds
             /\ r.attempts = orders[o].attempts /\ r.sku = orders[o].sku
             /\ \/ r.status \in {"queued", "reconciling"} /\ r.by = orders[o].by
                \/ r.status = "delivered" /\ r.by = orders[o].by /\ o \in claims
                \/ /\ r.status = "refunded" /\ r.by = "writer" /\ answer \in DefiniteFailures
                   /\ o \in claims => o \in lateGrants \/ r.error = "rejected"
<1>1. orders[o] \in OrderRow
  BY RowTyped DEF IInv, NoOrder
<1>2. TypeOK
  BY DEF IInv
<1>3. ASSUME NEW status \in Statuses, NEW error \in Errors, SetStatus(o, status, error)
      PROVE  \E r \in OrderRow :
               /\ orders' = [orders EXCEPT ![o] = r]
               /\ balance' \in [Profiles -> Int] /\ refunds' \subseteq OrderIds
               /\ r.attempts = orders[o].attempts /\ r.sku = orders[o].sku
               /\ r.status = status /\ r.by = orders[o].by
  <2> DEFINE r == [orders[o] EXCEPT !.status = status, !.error = error]
  <2>1. /\ r \in OrderRow /\ r.attempts = orders[o].attempts
        /\ r.sku = orders[o].sku /\ r.status = status /\ r.by = orders[o].by
    BY <1>1, <1>3 DEF OrderRow
  <2>2. orders' = [orders EXCEPT ![o] = r]
    BY <1>1, <1>2, <1>3 DEF SetStatus, TypeOK, OrderRow
  <2>3. balance' \in [Profiles -> Int] /\ refunds' \subseteq OrderIds
    BY <1>2, <1>3 DEF SetStatus, TypeOK
  <2> HIDE DEF r
  <2> QED
    BY <2>1, <2>2, <2>3
<1>4. CASE answer \in {"applied", "replay"}
  <2>1. SetStatus(o, "delivered", "none")
    BY <1>4 DEF ApplyOutcome, DefiniteFailures
  <2>2. "delivered" \in Statuses /\ "none" \in Errors
    BY DEF Statuses, Errors
  <2> QED
    BY <2>1, <2>2, <1>3, <1>4
<1>5. CASE answer \in {"deferred", "nocode", "none"}
  <2>1. PICK status \in {"queued", "reconciling"}, error \in Errors : SetStatus(o, status, error)
    BY <1>5 DEF ApplyOutcome, DefiniteFailures, Errors
  <2>2. status \in Statuses
    BY DEF Statuses
  <2> QED
    BY <2>1, <2>2, <1>3
<1>6. CASE answer \in DefiniteFailures
  <2> DEFINE row == [orders[o] EXCEPT !.error = answer]
             r == RefundRow(row, answer, "writer")
  <2>1. row \in OrderRow /\ row.profile = orders[o].profile /\ row.attempts = orders[o].attempts
        /\ row.sku = orders[o].sku /\ row.error = answer
    BY <1>1, <1>6 DEF OrderRow, Errors, DefiniteFailures
  <2>2. Refund(o, row, answer, "writer")
    BY <1>6 DEF ApplyOutcome, DefiniteFailures
  <2>3. /\ orders' = [orders EXCEPT ![o] = r] /\ r \in OrderRow
        /\ r.status = "refunded" /\ r.by = "writer"
        /\ r.attempts = orders[o].attempts /\ r.sku = orders[o].sku
        /\ r.error = answer
        /\ balance' \in [Profiles -> Int] /\ refunds' \subseteq OrderIds
    <3>1. answer \in Errors \ {"none"} /\ "writer" \in Refunders
      BY <1>6 DEF DefiniteFailures, Errors, Refunders
    <3> HIDE DEF row
    <3> QED
      BY <2>1, <2>2, <3>1, <1>2, RefundEffect
  <2>4. o \in claims => o \in lateGrants \/ r.error = "rejected"
    BY <2>3, <1>6 DEF DefiniteFailures
  <2> HIDE DEF r
  <2> QED
    BY <1>6, <2>3, <2>4
<1> QED
  BY <1>4, <1>5, <1>6 DEF Answers

\* A sender folds an answer in, or the lack of one, and leaves.
LEMMA OutcomeStep ==
    ASSUME IInv, NEW c \in Calls, Live(c),
           NEW answer \in Answers \cup {"none"},
           answer # "none" => answer = calls[c].writer,
           ApplyOutcome(calls[c].order, answer), Leave(c),
           CountSend(c, answer # "none"), UNCHANGED <<bg, writer>>
    PROVE  IInv'
<1> DEFINE o == calls[c].order
<1>1. calls[c] \in Call
  BY DEF IInv, TypeOK, Live, Idle
<1>2. o \in OrderIds /\ orders[o].attempts # 0
  BY <1>1 DEF IInv, Untried, Call
<1>3. /\ answer \in {"applied", "replay"} => o \in claims
      /\ answer = "refused" /\ o \in claims => o \in lateGrants
  BY DEF IInv, AnswersTrue
<1>4. /\ calls' \in [Calls -> Call \cup {Idle}]
      /\ \A d \in Calls \ {c} : calls'[d] = calls[d]
      /\ calls'[c] \in {[calls[c] EXCEPT !.sender = "gone"], Idle}
  <2>1. [calls[c] EXCEPT !.sender = "gone"] \in Call
    BY <1>1 DEF Call
  <2> QED
    BY <2>1 DEF Leave, Free, IInv, TypeOK
<1>5. /\ \A d \in Calls : calls'[d].order \in {calls[d].order, 0}
      /\ \A d \in Calls : Live(d)' => calls'[d] = calls[d]
      /\ OpenAlone' /\ AnswersTrue'
  BY <1>4, SendersGone
<1>6. ~Live(c)'
  BY <1>1, <1>4 DEF Live, Call, Idle
<1>7. \A d \in Calls : Live(d)' => calls[d].order # o
  BY <1>5, <1>6 DEF IInv, OneSender, Live
<1>8. streak' \in 0..FailsToStop /\ batch' \subseteq OrderIds
  BY BoundsAssumption DEF CountSend, sweep, IInv, TypeOK
<1>9. UNCHANGED <<bg, claims, goods, lateGrants>>
  BY DEF writer
<1>10. GrantedOnce'
  BY <1>9 DEF IInv, GrantedOnce
<1>11. CASE Settled(o)
  <2>1. UNCHANGED <<orders, balance, refunds>>
    BY <1>11 DEF ApplyOutcome, portal
  <2>2. TypeOK'
    BY <2>1, <1>4, <1>8, <1>9 DEF IInv, TypeOK
  <2>3. Untried'
    BY <2>1, <1>5, <1>9 DEF IInv, Untried, OrderIds
  <2>4. OneSender'
    BY <2>1, <1>5, <1>9 DEF IInv, OneSender, Live
  <2>5. RefundsSigned'
    BY <2>1 DEF IInv, RefundsSigned, Refunded
  <2>6. DeliveredIsGranted' /\ DoubleGrantExplained'
    BY <2>1, <1>9 DEF IInv, DeliveredIsGranted, DoubleGrantExplained, Placed, InGame, Refunded
  <2> QED
    BY <1>5, <1>10, <2>2, <2>3, <2>4, <2>5, <2>6 DEF IInv
<1>12. CASE ~Settled(o)
  <2>1. PICK r \in OrderRow :
             /\ orders' = [orders EXCEPT ![o] = r]
             /\ balance' \in [Profiles -> Int] /\ refunds' \subseteq OrderIds
             /\ r.attempts = orders[o].attempts /\ r.sku = orders[o].sku
             /\ \/ r.status \in {"queued", "reconciling"} /\ r.by = orders[o].by
                \/ r.status = "delivered" /\ r.by = orders[o].by /\ o \in claims
                \/ /\ r.status = "refunded" /\ r.by = "writer"
                   /\ o \in claims => o \in lateGrants \/ r.error = "rejected"
    BY <1>2, <1>3, <1>12, OutcomeEffect
  <2>2. orders'[o] = r /\ \A n \in OrderIds \ {o} : orders'[n] = orders[n]
    BY <2>1, <1>2 DEF IInv, TypeOK
  <2>3. TypeOK'
    BY <2>1, <1>2, <1>4, <1>8, <1>9 DEF IInv, TypeOK
  <2>4. Untried'
    BY <2>1, <2>2, <1>2, <1>5, <1>9 DEF IInv, Untried, OrderIds
  <2>5. OneSender'
    <3>1. \A d \in Calls : Live(d)' => Live(d) /\ calls[d].order \in OrderIds
      BY <1>5 DEF Live, IInv, TypeOK, Call, Idle
    <3> QED
      BY <2>2, <1>5, <1>7, <3>1 DEF IInv, OneSender, Live
  <2>6. RefundsSigned'
    BY <2>1, <2>2, <1>2 DEF IInv, RefundsSigned, Refunded
  <2>7. DeliveredIsGranted'
    BY <2>1, <2>2, <1>2, <1>9 DEF IInv, DeliveredIsGranted, Placed, InGame
  <2>8. DoubleGrantExplained'
    <3>1. claims \subseteq OrderIds
      BY DEF IInv, TypeOK
    <3> QED
      BY <2>1, <2>2, <1>9, <3>1 DEF IInv, DoubleGrantExplained, Refunded
  <2> QED
    BY <1>5, <1>10, <2>3, <2>4, <2>5, <2>6, <2>7, <2>8 DEF IInv
<1> QED
  BY <1>11, <1>12

\* A sender claims an order and calls: nobody was waiting on a claimable order, so
\* the new sender is the only one.
LEMMA BeginStep ==
    ASSUME IInv, NEW o \in OrderIds, NEW sender \in {"portal", "sweep"},
           Claimable(o), BeginDelivery(o, sender),
           UNCHANGED <<balance, refunds, streak, writer>>,
           bg' \subseteq OrderIds, batch' \subseteq OrderIds
    PROVE  IInv'
<1> DEFINE r == [orders[o] EXCEPT !.status = "delivering", !.attempts = 1, !.stale = FALSE]
           call == [order |-> o, sender |-> sender, writer |-> "sent"]
<1>1. PICK c \in Calls : calls[c] = Idle /\ calls' = [calls EXCEPT ![c] = call]
  BY DEF BeginDelivery
<1>2. orders[o] \in OrderRow
  BY RowTyped, CatalogAssumption DEF IInv, Claimable, InGame, NoOrder
<1>3. /\ r \in OrderRow /\ r.status = "delivering" /\ r.attempts = 1 /\ r.stale = FALSE
      /\ r.by = orders[o].by /\ r.sku = orders[o].sku
  BY <1>2 DEF OrderRow, Statuses
<1>4. orders' = [orders EXCEPT ![o] = r]
  BY <1>2 DEF BeginDelivery, IInv, TypeOK, OrderRow
<1> HIDE DEF r
<1>5. orders'[o] = r /\ \A n \in OrderIds \ {o} : orders'[n] = orders[n]
  BY <1>4 DEF IInv, TypeOK
<1>6. call \in Call
  BY DEF Call
<1>7. calls'[c] = call /\ \A d \in Calls \ {c} : calls'[d] = calls[d]
  BY <1>1 DEF IInv, TypeOK
<1>8. UNCHANGED <<balance, refunds, streak, claims, goods, lateGrants>>
  BY DEF writer
<1>9. \A d \in Calls : Live(d) => calls[d].order # o
  BY DEF IInv, OneSender, Claimable
<1>10. TypeOK'
  BY <1>1, <1>3, <1>4, <1>6, <1>8 DEF IInv, TypeOK
<1>11. Untried'
  BY <1>3, <1>5, <1>7, <1>8 DEF IInv, Untried
<1>12. OneSender'
  <2> SUFFICES ASSUME NEW d \in Calls, Live(d)'
               PROVE  /\ \A e \in Calls : Live(e)' /\ calls'[e].order = calls'[d].order => e = d
                      /\ LET row == orders'[calls'[d].order]
                         IN  \/ row.status = "delivering" /\ ~row.stale
                             \/ row.status = "refunded" /\ row.by = "confirmed"
    BY DEF OneSender
  <2>1. CASE d = c
    BY <2>1, <1>3, <1>5, <1>7, <1>9 DEF Live
  <2>2. CASE d # c
    <3>1. calls'[d] = calls[d] /\ Live(d) /\ calls[d].order \in OrderIds \ {o}
      BY <2>2, <1>7, <1>9 DEF Live, IInv, TypeOK, Call, Idle
    <3> QED
      BY <2>2, <3>1, <1>5, <1>7 DEF IInv, OneSender, Live
  <2> QED
    BY <2>1, <2>2
<1>13. OpenAlone' /\ AnswersTrue'
  BY <1>7, <1>8 DEF IInv, OpenAlone, AnswersTrue, Live
<1>14. RefundsSigned'
  <2>1. orders[o].by # "unchecked"
    BY DEF IInv, RefundsSigned, Refunded, Claimable
  <2> QED
    BY <2>1, <1>3, <1>5 DEF IInv, RefundsSigned, Refunded
<1>15. GrantedOnce' /\ DeliveredIsGranted'
  BY <1>3, <1>5, <1>8 DEF IInv, GrantedOnce, DeliveredIsGranted, Placed, InGame
<1>16. DoubleGrantExplained'
  BY <1>3, <1>5, <1>8 DEF IInv, DoubleGrantExplained, Refunded, TypeOK
<1> QED
  BY <1>10, <1>11, <1>12, <1>13, <1>14, <1>15, <1>16 DEF IInv

-----------------------------------------------------------------------------
(* Steps on one order row: placing it, its claim growing stale, and an     *)
(* operator's refund.                                                      *)

\* What is left of the invariant when one row changes and no call or claim does.
LEMMA RowStep ==
    ASSUME IInv, NEW o \in OrderIds, NEW r \in OrderRow,
           orders' = [orders EXCEPT ![o] = r],
           balance' \in [Profiles -> Int], refunds' \subseteq OrderIds, bg' \subseteq OrderIds,
           UNCHANGED <<sweep, calls, writer>>,
           r.attempts = orders[o].attempts,
           \A c \in Calls : Live(c) /\ calls[c].order = o =>
               r.status = "refunded" /\ r.by = "confirmed",
           r.status = "refunded" => r.by # "nobody",
           r.by = "unchecked" => r.status = "refunded" /\ r.attempts = 0,
           r.status = "delivered" => Lane[r.sku] \notin GameLanes,
           r.status = "refunded" => o \notin claims \/ r.by = "confirmed"
    PROVE  IInv'
<1>1. orders'[o] = r /\ \A n \in OrderIds \ {o} : orders'[n] = orders[n]
  BY DEF IInv, TypeOK
<1>2. UNCHANGED <<batch, streak, calls, claims, goods, lateGrants>>
  BY DEF sweep, writer
<1>3. TypeOK'
  BY <1>2 DEF IInv, TypeOK
<1>4. Untried'
  BY <1>1, <1>2 DEF IInv, Untried
<1>5. OneSender'
  <2>1. \A d \in Calls : Live(d) => calls[d].order \in OrderIds
    BY DEF Live, IInv, TypeOK, Call, Idle
  <2> QED
    BY <1>1, <1>2, <2>1 DEF IInv, OneSender, Live
<1>6. OpenAlone' /\ AnswersTrue' /\ GrantedOnce'
  BY <1>2 DEF IInv, OpenAlone, AnswersTrue, Live, GrantedOnce
<1>7. RefundsSigned'
  BY <1>1 DEF IInv, RefundsSigned, Refunded
<1>8. DeliveredIsGranted'
  BY <1>1, <1>2 DEF IInv, DeliveredIsGranted, Placed, InGame
<1>9. DoubleGrantExplained'
  <2>1. claims \subseteq OrderIds
    BY DEF IInv, TypeOK
  <2> QED
    BY <1>1, <1>2, <2>1 DEF IInv, DoubleGrantExplained, Refunded
<1> QED
  BY <1>3, <1>4, <1>5, <1>6, <1>7, <1>8, <1>9 DEF IInv

\* A new row of a placed order has no attempt, no call and no claim.
LEMMA PlaceOrderStep ==
    ASSUME IInv, NEW p \in Profiles, NEW s \in Skus, PlaceOrder(p, s)
    PROVE  IInv'
<1> DEFINE row == [profile |-> p, sku |-> s,
                   status |-> IF Lane[s] = "prefs" THEN "delivered" ELSE "queued",
                   attempts |-> 0, stale |-> FALSE, error |-> "none", by |-> "nobody"]
<1>1. PICK o \in OrderIds \ Placed :
         /\ orders' = [orders EXCEPT ![o] = row]
         /\ balance' = [balance EXCEPT ![p] = @ - Price[s]]
         /\ bg' = IF Lane[s] = "prefs" THEN bg ELSE bg \cup {o}
         /\ UNCHANGED <<refunds, sweep, calls, writer>>
  BY DEF PlaceOrder
<1>2. row \in OrderRow
  BY DEF OrderRow, Statuses, Errors, Refunders
<1>3. orders[o] = NoOrder
  BY DEF Placed, IInv, TypeOK, OrderRow, Statuses
<1>4. \A c \in Calls : calls[c].order # o
  BY <1>3 DEF IInv, Untried, NoOrder
<1>5. Price[s] \in Nat
  BY CatalogAssumption
<1>6. /\ balance' \in [Profiles -> Int] /\ refunds' \subseteq OrderIds /\ bg' \subseteq OrderIds
  BY <1>1, <1>5 DEF IInv, TypeOK
<1>7. /\ row.attempts = orders[o].attempts /\ row.by = "nobody" /\ row.status # "refunded"
      /\ row.status = "delivered" => Lane[row.sku] \notin GameLanes
  BY <1>3 DEF NoOrder, GameLanes
<1> HIDE DEF row
<1> QED
  BY <1>1, <1>2, <1>4, <1>6, <1>7, RowStep

\* Only a claim nobody waits on goes stale.
LEMMA GoStaleStep ==
    ASSUME IInv, NEW o \in OrderIds, GoStale(o)
    PROVE  IInv'
<1> DEFINE row == [orders[o] EXCEPT !.stale = TRUE]
<1>1. orders[o] \in OrderRow
  BY RowTyped DEF IInv, GoStale, NoOrder
<1>2. /\ row \in OrderRow /\ row.attempts = orders[o].attempts /\ row.status = "delivering"
      /\ row.by = orders[o].by
  BY <1>1 DEF OrderRow, GoStale
<1>3. row.by # "unchecked"
  BY <1>2 DEF IInv, RefundsSigned, Refunded, GoStale
<1>4. orders' = [orders EXCEPT ![o] = row]
  BY DEF GoStale
<1>5. /\ balance' \in [Profiles -> Int] /\ refunds' \subseteq OrderIds /\ bg' \subseteq OrderIds
      /\ UNCHANGED <<sweep, calls, writer>>
  BY DEF GoStale, IInv, TypeOK
<1>6. \A c \in Calls : calls[c].order = o => ~Live(c)
  BY DEF GoStale
<1> HIDE DEF row
<1> QED
  BY <1>2, <1>3, <1>4, <1>5, <1>6, RowStep

\* An operator refunds an untried order, or one it found no claims row for.
LEMMA OperatorRefundStep ==
    ASSUME IInv, NEW o \in OrderIds, OperatorRefund(o)
    PROVE  IInv'
<1> DEFINE r(by) == RefundRow(orders[o], "admin", by)
<1>1. orders[o] \in OrderRow /\ orders[o].status \in {"queued", "delivering", "reconciling"}
  <2>1. orders[o] # NoOrder
    BY DEF OperatorRefund, Placed, NoOrder
  <2> QED
    BY <2>1, RowTyped DEF IInv, OperatorRefund, Settled, OrderRow, Statuses
<1>2. ASSUME NEW by \in Refunders, Refund(o, orders[o], "admin", by)
      PROVE  /\ orders' = [orders EXCEPT ![o] = r(by)] /\ r(by) \in OrderRow
             /\ r(by).status = "refunded" /\ r(by).by = by
             /\ r(by).attempts = orders[o].attempts
             /\ balance' \in [Profiles -> Int] /\ refunds' \subseteq OrderIds
  <2>1. "admin" \in Errors \ {"none"}
    BY DEF Errors
  <2> QED
    BY <2>1, <1>1, <1>2, RefundEffect DEF IInv
<1>3. UNCHANGED <<sweep, calls, writer>> /\ bg' \subseteq OrderIds
  BY DEF OperatorRefund, IInv, TypeOK
<1>4. CASE ~NeedsConfirm(orders[o]) /\ Refund(o, orders[o], "admin", "unchecked")
  <2>1. orders[o].attempts = 0
    BY <1>1, <1>4 DEF NeedsConfirm, OrderRow
  <2>2. o \notin claims /\ \A c \in Calls : calls[c].order # o
    BY <2>1 DEF IInv, Untried
  <2>3. "unchecked" \in Refunders
    BY DEF Refunders
  <2> HIDE DEF r
  <2> QED
    BY <1>2, <1>3, <1>4, <2>1, <2>2, <2>3, RowStep
<1>5. CASE o \notin claims /\ Refund(o, orders[o], "admin", "confirmed")
  <2>1. "confirmed" \in Refunders
    BY DEF Refunders
  <2> HIDE DEF r
  <2> QED
    BY <1>2, <1>3, <1>5, <2>1, RowStep
<1> QED
  BY <1>4, <1>5 DEF OperatorRefund

-----------------------------------------------------------------------------
(* Every step.                                                             *)

\* Each operation, sender and writer step keeps the invariant.
LEMMA NextIInv == IInv /\ [Next]_vars => IInv'
<1> SUFFICES ASSUME IInv, [Next]_vars PROVE IInv'
  OBVIOUS
<1>0. /\ bg \subseteq OrderIds /\ batch \subseteq OrderIds /\ streak \in 0..FailsToStop
      /\ Placed \subseteq OrderIds
  BY DEF IInv, TypeOK, Placed
<1>00. 0 \in 0..FailsToStop
  BY BoundsAssumption
<1>1. CASE UNCHANGED vars
  BY <1>0, <1>1, MemoryStep DEF vars, portal, writer
<1>2. ASSUME NEW p \in Profiles, NEW s \in Skus, PlaceOrder(p, s) PROVE IInv'
  BY <1>2, PlaceOrderStep
<1>3. ASSUME NEW o \in OrderIds, ReplayOrder(o) PROVE IInv'
  BY <1>0, <1>3, MemoryStep DEF ReplayOrder, sweep
<1>4. ASSUME NEW o \in OrderIds, Background(o) PROVE IInv'
  <2>1. CASE BeginDelivery(o, "portal") /\ UNCHANGED <<balance, refunds>>
    <3>1. Claimable(o)
      BY <2>1 DEF BeginDelivery
    <3> QED
      BY <1>0, <1>4, <2>1, <3>1, BeginStep DEF Background, sweep
  <2>2. CASE UNCHANGED <<portal, calls>>
    BY <1>0, <1>4, <2>2, MemoryStep DEF Background, sweep
  <2> QED
    BY <1>4, <2>1, <2>2 DEF Background
<1>5. ASSUME NEW o \in OrderIds, Redrive(o) PROVE IInv'
  <2>1. Claimable(o)
    BY <1>5 DEF Redrive, BeginDelivery
  <2> QED
    BY <1>0, <1>5, <2>1, BeginStep DEF Redrive, sweep
<1>6. ASSUME NEW o \in OrderIds, GoStale(o) PROVE IInv'
  BY <1>6, GoStaleStep
<1>7. ASSUME NEW o \in OrderIds, OperatorRefund(o) PROVE IInv'
  BY <1>7, OperatorRefundStep
<1>8. ASSUME NEW c \in Calls, Answered(c) PROVE IInv'
  <2>1. calls[c].writer \in Answers /\ calls[c].writer # "none"
    BY <1>8 DEF Answered, Answers, DefiniteFailures
  <2> QED
    BY <1>8, <2>1, OutcomeStep DEF Answered
<1>9. ASSUME NEW c \in Calls, GiveUp(c) PROVE IInv'
  <2>1. CountSend(c, "none" # "none")
    BY <1>9 DEF GiveUp
  <2> QED
    BY <1>9, <2>1, OutcomeStep DEF GiveUp
<1>10. ASSUME NEW c \in Calls, WriterGate(c) PROVE IInv'
  <2>1. Running(c)
    BY <1>10 DEF WriterGate, Running
  <2>2. PICK st \in {"deferred", "rejected"} : Writes(c, st)
    BY <1>10 DEF WriterGate
  <2> QED
    BY <1>10, <2>1, <2>2, WriterStep DEF WriterGate, Answers, DefiniteFailures
<1>11. ASSUME NEW c \in Calls, WriterReplay(c) PROVE IInv'
  BY <1>11, WriterStep DEF WriterReplay, Running, Answers
<1>12. ASSUME NEW c \in Calls, WriterOpen(c) PROVE IInv'
  <2>1. Running(c) /\ calls[c].order \notin claims /\ NoneOpen(calls[c].order)
    BY <1>12 DEF WriterOpen, Running
  <2>2. PICK st \in {"refused", "open"} : Writes(c, st)
    BY <1>12 DEF WriterOpen
  <2> QED
    BY <1>12, <2>1, <2>2, WriterStep DEF WriterOpen, Answers, DefiniteFailures
<1>13. ASSUME NEW c \in Calls, WriterRefuse(c) PROVE IInv'
  <2>1. Running(c) /\ calls[c].order \notin claims
    BY <1>13 DEF WriterRefuse, Running, IInv, OpenAlone
  <2>2. PICK st \in {"refused", "deferred"} : Writes(c, st)
    BY <1>13 DEF WriterRefuse
  <2> QED
    BY <1>13, <2>1, <2>2, WriterStep DEF WriterRefuse, Answers, DefiniteFailures
<1>14. ASSUME NEW c \in Calls, WriterCommit(c) PROVE IInv'
  BY <1>14, CommitStep
<1>15. ASSUME NEW c \in Calls, WriterFails(c) PROVE IInv'
  BY <1>15, WriterStep DEF WriterFails, Answers
<1>16. CASE SweepStart
  <2>1. batch' \subseteq OrderIds /\ streak' \in 0..FailsToStop
    BY <1>0, <1>00, <1>16 DEF SweepStart, OldestDue, Due
  <2> QED
    BY <1>0, <1>16, <2>1, MemoryStep DEF SweepStart
<1>17. CASE SweepSend
  <2>1. PICK o \in batch :
           /\ batch' = batch \ {o}
           /\ \/ BeginDelivery(o, "sweep") /\ UNCHANGED <<balance, refunds>>
              \/ ~Claimable(o) /\ UNCHANGED <<portal, calls>>
    BY <1>17 DEF SweepSend
  <2>2. o \in OrderIds /\ batch' \subseteq OrderIds /\ UNCHANGED <<streak, bg, writer>>
    BY <1>0, <1>17, <2>1 DEF SweepSend
  <2>3. CASE BeginDelivery(o, "sweep") /\ UNCHANGED <<balance, refunds>>
    <3>1. Claimable(o)
      BY <2>3 DEF BeginDelivery
    <3> QED
      BY <1>0, <2>2, <2>3, <3>1, BeginStep
  <2>4. CASE UNCHANGED <<portal, calls>>
    BY <1>0, <2>2, <2>4, MemoryStep
  <2> QED
    BY <2>1, <2>3, <2>4
<1>18. CASE SweepDies
  BY <1>0, <1>00, <1>18, AbandonStep DEF SweepDies
<1>19. CASE PortalRestart
  BY <1>0, <1>19, AbandonStep DEF PortalRestart, sweep
<1> QED
  BY <1>1, <1>2, <1>3, <1>4, <1>5, <1>6, <1>7, <1>8, <1>9, <1>10, <1>11, <1>12, <1>13,
     <1>14, <1>15, <1>16, <1>17, <1>18, <1>19 DEF Next

\* What every reachable state of the Stall satisfies.
THEOREM Invariance == Spec => []IInv
BY InitIInv, NextIInv, PTL DEF Spec

-----------------------------------------------------------------------------
(* The theorems.                                                           *)

\* Every table keeps its schema, whoever writes it and in whatever order.
THEOREM TypeCorrect == Spec => []TypeOK
<1>1. IInv => TypeOK
  BY DEF IInv
<1> QED
  BY <1>1, Invariance, PTL

\* Two senders never wait on one order (begin_delivery).
THEOREM NoSecondSender == Spec => []OneSender
<1>1. IInv => OneSender
  BY DEF IInv
<1> QED
  BY <1>1, Invariance, PTL

\* The goods of an order enter the game at most once (the key's unique index).
THEOREM NoSecondGrant == Spec => []GrantedOnce
<1>1. IInv => GrantedOnce
  BY DEF IInv
<1> QED
  BY <1>1, Invariance, PTL

\* 'delivered' is never said of an order without its claims row (apply_outcome).
THEOREM DeliveredIsTrue == Spec => []DeliveredIsGranted
<1>1. IInv => DeliveredIsGranted
  BY DEF IInv
<1> QED
  BY <1>1, Invariance, PTL

\* An operator may refund an untried order unseen (refund_needs_confirm).
THEOREM UntriedRefundSafe == Spec => []UncheckedRefundIsSafe
<1>1. IInv => UncheckedRefundIsSafe
  BY DEF IInv, RefundsSigned, Untried, UncheckedRefundIsSafe, Placed
<1> QED
  BY <1>1, Invariance, PTL

\* The item and the Tokens both: only by a confirmed refund over a running call, a
\* call given up on, or a 'rejected' (apply_outcome, the refund route).
THEOREM DoubleGrantCauses == Spec => []DoubleGrantExplained
<1>1. IInv => DoubleGrantExplained
  BY DEF IInv
<1> QED
  BY <1>1, Invariance, PTL

-----------------------------------------------------------------------------
(* What a step may do to a row.                                            *)

\* Only an open row changes once it is placed; it stays placed, with its buyer and
\* SKU.  Only PlaceOrder makes a row.
Keeps(o) ==
    /\ orders'[o].profile = orders[o].profile
    /\ orders'[o].sku = orders[o].sku
    /\ orders'[o].status # "none"
    /\ Settled(o) => orders'[o] = orders[o]

\* Every sender, answer and refund keeps the rows in that sense.
LEMMA RowsKept ==
    ASSUME IInv, [Next]_vars,
           \A p \in Profiles, s \in Skus : ~PlaceOrder(p, s)
    PROVE  \A o \in OrderIds : IF o \in Placed THEN Keeps(o) ELSE orders'[o] = orders[o]
<1>1. ASSUME UNCHANGED orders
      PROVE  \A o \in OrderIds : IF o \in Placed THEN Keeps(o) ELSE orders'[o] = orders[o]
  BY <1>1 DEF Keeps, Placed
<1>2. ASSUME NEW n \in OrderIds, n \in Placed, ~Settled(n), NEW r,
             orders' = [orders EXCEPT ![n] = r], r.status # "none",
             r.profile = orders[n].profile, r.sku = orders[n].sku
      PROVE  \A o \in OrderIds : IF o \in Placed THEN Keeps(o) ELSE orders'[o] = orders[o]
  BY <1>2 DEF Keeps, Placed, IInv, TypeOK
<1>3. \A o \in OrderIds : o \in Placed => orders[o] \in OrderRow
  BY RowTyped DEF Placed, NoOrder, IInv
<1>4. ASSUME NEW n \in OrderIds, NEW sender, BeginDelivery(n, sender)
      PROVE  \A o \in OrderIds : IF o \in Placed THEN Keeps(o) ELSE orders'[o] = orders[o]
  <2> DEFINE r == [orders[n] EXCEPT !.status = "delivering", !.attempts = 1, !.stale = FALSE]
  <2>1. n \in Placed /\ ~Settled(n)
    BY <1>4 DEF BeginDelivery, Claimable, Placed, Settled
  <2>2. orders' = [orders EXCEPT ![n] = r]
    BY <1>3, <1>4, <2>1 DEF BeginDelivery, IInv, TypeOK, OrderRow
  <2>3. r.status = "delivering" /\ r.profile = orders[n].profile /\ r.sku = orders[n].sku
    BY <1>3, <2>1 DEF OrderRow
  <2> HIDE DEF r
  <2> QED
    BY <1>2, <2>1, <2>2, <2>3
<1>5. ASSUME NEW n \in OrderIds, n \in Placed, ~Settled(n), NEW row \in OrderRow,
             row.profile = orders[n].profile, row.sku = orders[n].sku,
             NEW why, NEW by, Refund(n, row, why, by)
      PROVE  \A o \in OrderIds : IF o \in Placed THEN Keeps(o) ELSE orders'[o] = orders[o]
  <2> DEFINE r == RefundRow(row, why, by)
  <2>1. r.status = "refunded" /\ r.profile = row.profile /\ r.sku = row.sku
    BY DEF RefundRow, OrderRow
  <2>2. orders' = [orders EXCEPT ![n] = r]
    BY <1>5 DEF Refund
  <2> HIDE DEF r
  <2> QED
    BY <1>2, <1>5, <2>1, <2>2
<1>6. ASSUME NEW c \in Calls, Live(c), NEW answer, ApplyOutcome(calls[c].order, answer)
      PROVE  \A o \in OrderIds : IF o \in Placed THEN Keeps(o) ELSE orders'[o] = orders[o]
  <2> DEFINE n == calls[c].order
  <2>1. n \in OrderIds /\ n \in Placed
    <3>1. calls[c] \in Call
      BY <1>6 DEF IInv, TypeOK, Idle, Live
    <3>2. n \in OrderIds /\ orders[n].attempts # 0
      BY <3>1 DEF IInv, Untried, Call
    <3>3. orders[n] \in OrderRow
      BY <3>2, RowTyped DEF IInv, NoOrder
    <3> QED
      BY <3>2, <3>3 DEF Placed, OrderRow, Statuses
  <2>2. CASE UNCHANGED portal
    BY <1>1, <2>2 DEF portal
  <2>3. ASSUME ~Settled(n), NEW status \in Statuses, NEW error, SetStatus(n, status, error)
        PROVE  \A o \in OrderIds : IF o \in Placed THEN Keeps(o) ELSE orders'[o] = orders[o]
    <3> DEFINE r == [orders[n] EXCEPT !.status = status, !.error = error]
    <3>1. orders[n] \in OrderRow
      BY <1>3, <2>1
    <3>2. orders' = [orders EXCEPT ![n] = r]
      BY <2>1, <2>3, <3>1 DEF SetStatus, IInv, TypeOK, OrderRow
    <3>3. r.status # "none" /\ r.profile = orders[n].profile /\ r.sku = orders[n].sku
      BY <3>1 DEF OrderRow, Statuses
    <3> HIDE DEF r
    <3> QED
      BY <1>2, <2>1, <2>3, <3>2, <3>3
  <2>4. ASSUME ~Settled(n), Refund(n, [orders[n] EXCEPT !.error = answer], answer, "writer"),
               answer \in DefiniteFailures
        PROVE  \A o \in OrderIds : IF o \in Placed THEN Keeps(o) ELSE orders'[o] = orders[o]
    <3> DEFINE row == [orders[n] EXCEPT !.error = answer]
    <3>1. row \in OrderRow /\ row.profile = orders[n].profile /\ row.sku = orders[n].sku
      BY <1>3, <2>1, <2>4 DEF OrderRow, Errors, DefiniteFailures
    <3>2. ~Settled(n) /\ Refund(n, row, answer, "writer")
      BY <2>4
    <3> HIDE DEF row
    <3> QED
      BY <1>5, <2>1, <3>1, <3>2
  <2> QED
    BY <1>6, <2>2, <2>3, <2>4 DEF ApplyOutcome, Statuses
<1>7. ASSUME NEW n \in OrderIds, GoStale(n)
      PROVE  \A o \in OrderIds : IF o \in Placed THEN Keeps(o) ELSE orders'[o] = orders[o]
  <2> DEFINE r == [orders[n] EXCEPT !.stale = TRUE]
  <2>1. n \in Placed /\ ~Settled(n)
    BY <1>7 DEF GoStale, Placed, Settled
  <2>2. /\ r.status = orders[n].status /\ r.profile = orders[n].profile /\ r.sku = orders[n].sku
    BY <1>3, <2>1 DEF OrderRow
  <2>3. orders' = [orders EXCEPT ![n] = r] /\ orders[n].status # "none"
    BY <1>7 DEF GoStale
  <2> HIDE DEF r
  <2> QED
    BY <1>2, <2>1, <2>2, <2>3
<1>8. ASSUME NEW n \in OrderIds, OperatorRefund(n)
      PROVE  \A o \in OrderIds : IF o \in Placed THEN Keeps(o) ELSE orders'[o] = orders[o]
  BY <1>3, <1>5, <1>8 DEF OperatorRefund
<1>9. ASSUME NEW c \in Calls, Answered(c) \/ GiveUp(c)
      PROVE  \A o \in OrderIds : IF o \in Placed THEN Keeps(o) ELSE orders'[o] = orders[o]
  BY <1>6, <1>9 DEF Answered, GiveUp
<1>10. CASE \E n \in OrderIds : Background(n) \/ Redrive(n)
  BY <1>1, <1>4, <1>10 DEF Background, Redrive, portal
<1>11. CASE SweepSend
  BY <1>1, <1>4, <1>11 DEF SweepSend, portal, IInv, TypeOK
<1>12. ASSUME NEW c \in Calls,
              WriterGate(c) \/ WriterReplay(c) \/ WriterOpen(c) \/ WriterRefuse(c)
                            \/ WriterCommit(c) \/ WriterFails(c)
       PROVE  UNCHANGED orders
  BY <1>12 DEF WriterGate, WriterReplay, WriterOpen, WriterRefuse, WriterCommit, WriterFails,
              OnlyWriter, portal
<1>13. ASSUME \/ \E o \in OrderIds : ReplayOrder(o)
              \/ SweepStart \/ SweepDies \/ PortalRestart \/ UNCHANGED vars
       PROVE  UNCHANGED orders
  BY <1>13 DEF ReplayOrder, SweepStart, SweepDies, PortalRestart, portal, vars
<1> QED
  BY <1>1, <1>7, <1>8, <1>9, <1>10, <1>11, <1>12, <1>13 DEF Next

\* PlaceOrder writes one row that was not there.
LEMMA PlaceOrderRow ==
    ASSUME IInv, NEW p \in Profiles, NEW s \in Skus, PlaceOrder(p, s)
    PROVE  /\ Accepts(p, s)
           /\ \E o \in OrderIds \ Placed :
                /\ orders'[o].profile = p /\ orders'[o].sku = s /\ o \in Placed'
                /\ \A n \in OrderIds \ {o} : orders'[n] = orders[n]
BY DEF PlaceOrder, Accepts, Placed, IInv, TypeOK

\* No step changes a settled order (apply_outcome's early return, begin_delivery's
\* and the refund route's guards).
THEOREM SettledStays == Spec => SettledIsFinal
<1>1. IInv /\ [Next]_vars => [\A o \in OrderIds : Settled(o) => orders'[o] = orders[o]]_orders
  <2> SUFFICES ASSUME IInv, [Next]_vars, NEW o \in OrderIds, Settled(o)
               PROVE  orders'[o] = orders[o]
    OBVIOUS
  <2>1. o \in Placed
    BY DEF Placed, Settled
  <2>2. CASE \A p \in Profiles, s \in Skus : ~PlaceOrder(p, s)
    BY <2>1, <2>2, RowsKept DEF Keeps
  <2>3. CASE \E p \in Profiles, s \in Skus : PlaceOrder(p, s)
    BY <2>1, <2>3, PlaceOrderRow
  <2> QED
    BY <2>2, <2>3
<1> QED
  BY <1>1, Invariance, PTL DEF Spec, SettledIsFinal

-----------------------------------------------------------------------------
(* Limits.                                                                 *)

\* A set of orders that gains at most one order o gains at most one in size.
LEMMA OneMore ==
    ASSUME NEW S \in SUBSET OrderIds, NEW T \in SUBSET OrderIds, NEW o, T \subseteq S \cup {o}
    PROVE  /\ Cardinality(S) \in Nat /\ Cardinality(T) \in Nat
           /\ Cardinality(T) <= Cardinality(S) + 1
           /\ T \subseteq S => Cardinality(T) <= Cardinality(S)
<1>1. IsFiniteSet(OrderIds)
  BY BoundsAssumption, FS_Interval DEF OrderIds
<1>2. IsFiniteSet(S) /\ IsFiniteSet(T)
  BY <1>1, FS_Subset
<1>3. Cardinality(S) \in Nat /\ Cardinality(T) \in Nat
  BY <1>2, FS_CardinalityType
<1>4. /\ IsFiniteSet(S \cup {o})
      /\ Cardinality(S \cup {o}) = IF o \in S THEN Cardinality(S) ELSE Cardinality(S) + 1
  BY <1>2, FS_AddElement
<1>5. Cardinality(T) <= Cardinality(S \cup {o})
  BY <1>4, FS_Subset
<1>6. T \subseteq S => Cardinality(T) <= Cardinality(S)
  BY <1>2, FS_Subset
<1> QED
  BY <1>3, <1>4, <1>5, <1>6

\* SoldOf, without the detour over the buyers.
LEMMA SoldOfRows ==
    ASSUME TypeOK, NEW s \in Skus
    PROVE  SoldOf(s) = {o \in Placed : orders[o].sku = s /\ ~Refunded(o)}
BY CatalogAssumption DEF SoldOf, LiveOrders, Placed, TypeOK, OrderRow, NoOrder

\* Limits and stock hold for every catalog and any interleaving of buyers, refunds
\* and retries (_order_refusal).
THEOREM LimitsAlwaysHold == Spec => []LimitsHold
<1>1. Init => LimitsHold
  <2> SUFFICES ASSUME Init PROVE LimitsHold
    OBVIOUS
  <2>1. Placed = {}
    BY DEF Init, Placed, NoOrder
  <2>2. /\ \A p \in Profiles, s \in Skus : LiveOrders(p, s) = {}
        /\ \A s \in Skus : SoldOf(s) = {}
    BY <2>1 DEF LiveOrders, SoldOf
  <2>3. Cardinality({}) = 0
    BY FS_EmptySet
  <2>4. \A s \in Skus : 0 <= Limit[s] /\ 0 <= Stock[s]
    BY CatalogAssumption
  <2> QED
    BY <2>2, <2>3, <2>4 DEF LimitsHold
<1>2. IInv /\ IInv' /\ LimitsHold /\ [Next]_vars => LimitsHold'
  <2> SUFFICES ASSUME IInv, IInv', LimitsHold, [Next]_vars PROVE LimitsHold'
    OBVIOUS
  <2>0. \A s \in Skus : /\ SoldOf(s) = {o \in Placed : orders[o].sku = s /\ ~Refunded(o)}
                        /\ SoldOf(s)' = {o \in Placed : orders[o].sku = s /\ ~Refunded(o)}'
    BY CatalogAssumption DEF SoldOf, LiveOrders, Placed, IInv, TypeOK, OrderRow, NoOrder
  <2>1. /\ \A p \in Profiles, s \in Skus : /\ LiveOrders(p, s) \in SUBSET OrderIds
                                          /\ LiveOrders(p, s)' \in SUBSET OrderIds
        /\ \A s \in Skus : SoldOf(s) \in SUBSET OrderIds /\ SoldOf(s)' \in SUBSET OrderIds
    BY <2>0 DEF LiveOrders, Placed
  <2>2. CASE \A p \in Profiles, s \in Skus : ~PlaceOrder(p, s)
    <3>1. \A o \in Placed' : /\ o \in Placed /\ orders'[o].sku = orders[o].sku
                             /\ orders'[o].profile = orders[o].profile
                             /\ Refunded(o) => Refunded(o)'
      BY <2>2, RowsKept DEF Keeps, Placed, Refunded, Settled
    <3>2. /\ \A p \in Profiles, s \in Skus : LiveOrders(p, s)' \subseteq LiveOrders(p, s)
          /\ \A s \in Skus : SoldOf(s)' \subseteq SoldOf(s)
      BY <2>0, <3>1 DEF LiveOrders
    <3>3. ASSUME NEW S \in SUBSET OrderIds, NEW T \in SUBSET S, NEW n \in Nat, Cardinality(S) <= n
          PROVE  Cardinality(T) <= n
      BY <3>3, OneMore
    <3>4. ASSUME NEW p \in Profiles, NEW s \in Skus
          PROVE  Cardinality(LiveOrders(p, s)') <= Limit[s]
      BY <2>1, <3>2, <3>3, CatalogAssumption DEF LimitsHold
    <3>5. ASSUME NEW s \in Skus
          PROVE  Cardinality(SoldOf(s)') <= Stock[s]
      BY <2>1, <3>2, <3>3, CatalogAssumption DEF LimitsHold
    <3> QED
      BY <3>4, <3>5 DEF LimitsHold
  <2>3. ASSUME NEW p0 \in Profiles, NEW s0 \in Skus, PlaceOrder(p0, s0)
        PROVE  LimitsHold'
    <3>1. PICK o \in OrderIds \ Placed :
             /\ orders'[o].profile = p0 /\ orders'[o].sku = s0 /\ o \in Placed'
             /\ \A n \in OrderIds \ {o} : orders'[n] = orders[n]
      BY <2>3, PlaceOrderRow
    <3>2. \A n \in OrderIds \ {o} : /\ n \in Placed' <=> n \in Placed
                                   /\ Refunded(n)' <=> Refunded(n)
      BY <3>1 DEF Placed, Refunded
    <3>3. Cardinality(LiveOrders(p0, s0)) < Limit[s0] /\ Cardinality(SoldOf(s0)) < Stock[s0]
      BY <2>3, PlaceOrderRow DEF Accepts
    <3>4. ASSUME NEW p \in Profiles, NEW s \in Skus
          PROVE  Cardinality(LiveOrders(p, s)') <= Limit[s]
      <4>1. LiveOrders(p, s)' \subseteq LiveOrders(p, s) \cup {o}
        BY <3>1, <3>2 DEF LiveOrders, Placed
      <4>2. p # p0 \/ s # s0 => LiveOrders(p, s)' \subseteq LiveOrders(p, s)
        BY <3>1, <3>2 DEF LiveOrders, Placed
      <4>3. Limit[s] \in Nat /\ Cardinality(LiveOrders(p, s)) <= Limit[s]
        BY CatalogAssumption DEF LimitsHold
      <4>4. /\ Cardinality(LiveOrders(p, s)) \in Nat /\ Cardinality(LiveOrders(p, s)') \in Nat
            /\ Cardinality(LiveOrders(p, s)') <= Cardinality(LiveOrders(p, s)) + 1
            /\ p # p0 \/ s # s0 =>
                   Cardinality(LiveOrders(p, s)') <= Cardinality(LiveOrders(p, s))
        BY <2>1, <4>1, <4>2, OneMore
      <4> QED
        BY <3>3, <4>3, <4>4
    <3>5. ASSUME NEW s \in Skus
          PROVE  Cardinality(SoldOf(s)') <= Stock[s]
      <4>1. SoldOf(s)' \subseteq SoldOf(s) \cup {o}
        BY <2>0, <3>1, <3>2 DEF Placed
      <4>2. s # s0 => SoldOf(s)' \subseteq SoldOf(s)
        BY <2>0, <3>1, <3>2 DEF Placed
      <4>3. Stock[s] \in Nat /\ Cardinality(SoldOf(s)) <= Stock[s]
        BY CatalogAssumption DEF LimitsHold
      <4>4. /\ Cardinality(SoldOf(s)) \in Nat /\ Cardinality(SoldOf(s)') \in Nat
            /\ Cardinality(SoldOf(s)') <= Cardinality(SoldOf(s)) + 1
            /\ s # s0 => Cardinality(SoldOf(s)') <= Cardinality(SoldOf(s))
        BY <2>1, <4>1, <4>2, OneMore
      <4> QED
        BY <3>3, <4>3, <4>4
    <3> QED
      BY <3>4, <3>5 DEF LimitsHold
  <2> QED
    BY <2>2, <2>3
<1> QED
  BY <1>1, <1>2, Invariance, InitIInv, NextIInv, PTL DEF Spec

-----------------------------------------------------------------------------
(* Tokens.                                                                 *)

\* What rows of these orders cost, and a buyer's orders that are not refunded.
Spent(ord, S) == MapThenSumSet(LAMBDA o : Price[ord[o].sku], S)
Held(ord, p) == {o \in OrderIds : ord[o].profile = p /\ ord[o].status \notin {"none", "refunded"}}

\* Only a closed order has its refund row, so refund() never finds one it skips.
RefundsClosed == \A o \in refunds : Refunded(o)

\* The sum of the model is the sum of the lemmas.
LEMMA SpentIsTotal ==
    ASSUME NEW ord, NEW S, IsFiniteSet(S), \A o \in S : Price[ord[o].sku] \in Int
    PROVE  Spent(ord, S) = Total([o \in S |-> Price[ord[o].sku]], S)
<1> DEFINE Eq(g) == g = [s \in SUBSET S |-> IF s = {} THEN 0
                            ELSE Price[ord[CHOOSE x \in s : TRUE].sku]
                                     + g[s \ {CHOOSE x \in s : TRUE}]]
           c == CHOOSE g : Eq(g)
           f == [o \in S |-> Price[ord[o].sku]]
<1>1. \A x \in S : f[x] \in Int /\ f[x] = Price[ord[x].sku]
  OBVIOUS
<1> HIDE DEF f
<1>2. \A g : Eq(g) <=> g = [s \in SUBSET S |-> g[s]] /\ Sums(g, S, f)
  <2>1. \A s \in SUBSET S : s # {} =>
           f[CHOOSE x \in s : TRUE] = Price[ord[CHOOSE x \in s : TRUE].sku]
    BY <1>1
  <2> QED
    BY <2>1 DEF Sums, Pick
<1>3. PICK g : IsSum(g, S, f)
  BY <1>1, TotalDef
<1>4. Eq(g)
  BY <1>2, <1>3 DEF IsSum
<1>5. Eq(c)
  <2> HIDE DEF Eq
  <2> QED
    BY <1>4
<1>6. Spent(ord, S) = c[S]
  BY DEF Spent, MapThenSumSet, MapThenFoldSet
<1> HIDE DEF c, Eq
<1>7. Sums(c, S, f)
  BY <1>2, <1>5
<1> QED
  BY <1>1, <1>6, <1>7, TotalIs DEF f

\* The cost of the same orders with the same SKUs.
LEMMA SpentSame ==
    ASSUME NEW S, IsFiniteSet(S), NEW ord, NEW new,
           \A o \in S : Price[ord[o].sku] \in Nat /\ new[o].sku = ord[o].sku
    PROVE  Spent(new, S) = Spent(ord, S) /\ Spent(ord, S) \in Int
<1> DEFINE f == [o \in S |-> Price[ord[o].sku]]
           e == [o \in S |-> Price[new[o].sku]]
<1>1. /\ \A o \in S : Price[ord[o].sku] \in Int /\ Price[new[o].sku] \in Int
      /\ \A o \in S : f[o] \in Int /\ f[o] = e[o]
  OBVIOUS
<1>2. Spent(new, S) = Total(e, S) /\ Spent(ord, S) = Total(f, S)
  BY <1>1, SpentIsTotal
<1> HIDE DEF f, e
<1> QED
  BY <1>1, <1>2, TotalSame, TotalInt

\* One order more costs its price more.
LEMMA SpentAdd ==
    ASSUME NEW S, IsFiniteSet(S), NEW x, x \notin S, NEW ord, NEW new,
           \A o \in S : Price[ord[o].sku] \in Nat /\ new[o].sku = ord[o].sku,
           Price[new[x].sku] \in Nat
    PROVE  /\ Spent(new, S \cup {x}) = Spent(ord, S) + Price[new[x].sku]
           /\ Spent(ord, S) \in Int
<1> DEFINE T == S \cup {x}
           f == [o \in S |-> Price[new[o].sku]]
           e == [o \in T |-> Price[new[o].sku]]
<1>1. IsFiniteSet(T) /\ \A o \in T : Price[new[o].sku] \in Int
  BY FS_AddElement
<1>2. \A o \in S : Price[new[o].sku] \in Int
  OBVIOUS
<1>3. Spent(new, T) = Total(e, T) /\ Spent(new, S) = Total(f, S)
  <2>1. Spent(new, T) = Total(e, T)
    <3> HIDE DEF T
    <3> QED
      BY <1>1, SpentIsTotal
  <2>2. Spent(new, S) = Total(f, S)
    BY <1>2, SpentIsTotal
  <2> QED
    BY <2>1, <2>2
<1>4. /\ \A o \in S : e[o] \in Int /\ f[o] \in Int /\ f[o] = e[o]
      /\ e[x] \in Int /\ e[x] = Price[new[x].sku]
  BY <1>1
<1> HIDE DEF f, e
<1>5. Total(e, T) = Total(e, S) + e[x]
  BY <1>4, TotalAdd
<1>6. Total(f, S) = Total(e, S)
  BY <1>4, TotalSame
<1>7. Spent(new, S) = Spent(ord, S) /\ Spent(ord, S) \in Int
  BY SpentSame
<1> QED
  BY <1>3, <1>4, <1>5, <1>6, <1>7

\* Whoever sends, answers or refunds: Tokens move only with a refund, to an order
\* that was open.
LEMMA MoneyMoves ==
    ASSUME IInv, [Next]_vars,
           \A p \in Profiles, s \in Skus : ~PlaceOrder(p, s)
    PROVE  \/ /\ UNCHANGED <<balance, refunds>>
              /\ \A o \in OrderIds : Refunded(o)' => Refunded(o)
           \/ \E n \in OrderIds :
                /\ orders[n] \in OrderRow /\ ~Settled(n)
                /\ orders'[n].status = "refunded"
                /\ \A o \in OrderIds \ {n} : orders'[o] = orders[o]
                /\ LET price == Price[orders[n].sku]
                       fresh == price > 0 /\ n \notin refunds
                   IN  /\ refunds' = IF fresh THEN refunds \cup {n} ELSE refunds
                       /\ balance' = IF fresh THEN [balance EXCEPT ![orders[n].profile] = @ + price]
                                     ELSE balance
<1> DEFINE Still == /\ UNCHANGED <<balance, refunds>>
                    /\ \A o \in OrderIds : Refunded(o)' => Refunded(o)
           Returned(n) ==
                /\ orders[n] \in OrderRow /\ ~Settled(n)
                /\ orders'[n].status = "refunded"
                /\ \A o \in OrderIds \ {n} : orders'[o] = orders[o]
                /\ LET price == Price[orders[n].sku]
                       fresh == price > 0 /\ n \notin refunds
                   IN  /\ refunds' = IF fresh THEN refunds \cup {n} ELSE refunds
                       /\ balance' = IF fresh THEN [balance EXCEPT ![orders[n].profile] = @ + price]
                                     ELSE balance
<1>1. ASSUME UNCHANGED portal PROVE Still
  BY <1>1 DEF portal, Refunded
<1>2. ASSUME NEW n \in OrderIds, NEW sender, BeginDelivery(n, sender), UNCHANGED <<balance, refunds>>
      PROVE  Still
  <2>1. \A o \in OrderIds : orders'[o].status = "refunded" => orders[o].status = "refunded"
    <3>1. orders[n] \in OrderRow
      BY <1>2, RowTyped, CatalogAssumption DEF IInv, BeginDelivery, Claimable, InGame, NoOrder
    <3>2. orders'[n].status = "delivering"
      BY <1>2, <3>1 DEF BeginDelivery, IInv, TypeOK, OrderRow
    <3>3. \A o \in OrderIds \ {n} : orders'[o] = orders[o]
      BY <1>2 DEF BeginDelivery, IInv, TypeOK
    <3> QED
      BY <3>2, <3>3
  <2> QED
    BY <1>2, <2>1 DEF Refunded
<1>3. ASSUME NEW n \in OrderIds, orders[n] \in OrderRow, ~Settled(n), NEW row,
             row.sku = orders[n].sku, row.profile = orders[n].profile,
             row \in OrderRow,
             NEW why, NEW by, Refund(n, row, why, by)
      PROVE  Returned(n)
  <2>1. orders'[n] = RefundRow(row, why, by) /\ \A o \in OrderIds \ {n} : orders'[o] = orders[o]
    BY <1>3 DEF Refund, IInv, TypeOK
  <2>2. RefundRow(row, why, by).status = "refunded"
    BY <1>3 DEF RefundRow, OrderRow
  <2> QED
    BY <1>3, <2>1, <2>2 DEF Refund
<1>4. ASSUME NEW c \in Calls, Live(c), NEW answer, ApplyOutcome(calls[c].order, answer)
      PROVE  Still \/ \E n \in OrderIds : Returned(n)
  <2> DEFINE n == calls[c].order
  <2>1. n \in OrderIds /\ orders[n] \in OrderRow
    <3>1. calls[c] \in Call
      BY <1>4 DEF IInv, TypeOK, Idle, Live
    <3>2. n \in OrderIds /\ orders[n].attempts # 0
      BY <3>1 DEF IInv, Untried, Call
    <3> QED
      BY <3>2, RowTyped DEF IInv, NoOrder
  <2>2. CASE UNCHANGED portal
    BY <1>1, <2>2
  <2>3. ASSUME NEW status \in {"delivered", "queued", "reconciling"}, NEW error,
               SetStatus(n, status, error)
        PROVE  Still
    <3>1. orders'[n].status = status /\ \A o \in OrderIds \ {n} : orders'[o] = orders[o]
      BY <2>1, <2>3 DEF SetStatus, IInv, TypeOK, OrderRow
    <3> QED
      BY <2>3, <3>1 DEF SetStatus, Refunded
  <2>4. ASSUME ~Settled(n), Refund(n, [orders[n] EXCEPT !.error = answer], answer, "writer"),
               answer \in DefiniteFailures
        PROVE  Returned(n)
    <3> DEFINE row == [orders[n] EXCEPT !.error = answer]
    <3>1. row \in OrderRow /\ row.profile = orders[n].profile /\ row.sku = orders[n].sku
      BY <2>1, <2>4 DEF OrderRow, Errors, DefiniteFailures
    <3>2. ~Settled(n) /\ Refund(n, row, answer, "writer")
      BY <2>4
    <3> HIDE DEF row, Returned
    <3> QED
      BY <1>3, <2>1, <3>1, <3>2
  <2> HIDE DEF Still, Returned
  <2> QED
    BY <1>4, <2>1, <2>2, <2>3, <2>4 DEF ApplyOutcome
<1>5. ASSUME NEW n \in OrderIds, GoStale(n) PROVE Still
  BY <1>5 DEF GoStale, Refunded, IInv, TypeOK
<1>6. ASSUME NEW n \in OrderIds, OperatorRefund(n) PROVE Returned(n)
  <2>1. orders[n] \in OrderRow
    BY <1>6, RowTyped DEF OperatorRefund, Placed, NoOrder, IInv
  <2> HIDE DEF Returned
  <2> QED
    BY <1>3, <1>6, <2>1 DEF OperatorRefund
<1> SUFFICES Still \/ \E n \in OrderIds : Returned(n)
  OBVIOUS
<1> HIDE DEF Still, Returned
<1>7. ASSUME NEW c \in Calls, Answered(c) \/ GiveUp(c)
      PROVE  Still \/ \E n \in OrderIds : Returned(n)
  BY <1>4, <1>7 DEF Answered, GiveUp
<1>8. CASE \E n \in OrderIds : Background(n) \/ Redrive(n)
  BY <1>1, <1>2, <1>8 DEF Background, Redrive
<1>9. CASE SweepSend
  BY <1>1, <1>2, <1>9 DEF SweepSend, IInv, TypeOK
<1>10. ASSUME NEW c \in Calls,
              WriterGate(c) \/ WriterReplay(c) \/ WriterOpen(c) \/ WriterRefuse(c)
                            \/ WriterCommit(c) \/ WriterFails(c)
       PROVE  UNCHANGED portal
  BY <1>10 DEF WriterGate, WriterReplay, WriterOpen, WriterRefuse, WriterCommit, WriterFails,
              OnlyWriter
<1>11. ASSUME \/ \E o \in OrderIds : ReplayOrder(o)
              \/ SweepStart \/ SweepDies \/ PortalRestart \/ UNCHANGED vars
       PROVE  UNCHANGED portal
  BY <1>11 DEF ReplayOrder, SweepStart, SweepDies, PortalRestart, portal, vars
<1> QED
  BY <1>1, <1>5, <1>6, <1>7, <1>8, <1>9, <1>10, <1>11 DEF Next

\* Tokens are neither made nor lost: a balance is what was earned less the price of
\* every order not refunded, and never less than nothing (place_order, refund).
THEOREM TokensAlwaysConserved == Spec => []TokensConserved
<1> DEFINE Inv == TokensConserved /\ RefundsClosed
<1>0. \A ord, p : Held(ord, p) \subseteq OrderIds /\ IsFiniteSet(Held(ord, p))
  <2>1. IsFiniteSet(OrderIds)
    BY BoundsAssumption, FS_Interval DEF OrderIds
  <2> QED
    BY <2>1, FS_Subset DEF Held
<1>1. TokensConserved <=> \A p \in Profiles : /\ balance[p] = Tokens[p] - Spent(orders, Held(orders, p))
                                             /\ balance[p] >= 0
  <2>1. \A p \in Profiles :
           {o \in Placed : orders[o].profile = p /\ ~Refunded(o)} = Held(orders, p)
    BY DEF Held, Placed, Refunded
  <2> QED
    BY <2>1 DEF TokensConserved, Spent
<1>2. TokensConserved' <=>
          \A p \in Profiles : /\ balance'[p] = Tokens[p] - Spent(orders', Held(orders', p))
                              /\ balance'[p] >= 0
  <2>1. \A p \in Profiles :
           {o \in Placed' : orders'[o].profile = p /\ ~Refunded(o)'} = Held(orders', p)
    BY DEF Held, Placed, Refunded
  <2>2. TokensConserved' <=>
          \A p \in Profiles :
              /\ balance'[p] = Tokens[p] - Spent(orders',
                     {o \in Placed' : orders'[o].profile = p /\ ~Refunded(o)'})
              /\ balance'[p] >= 0
    BY DEF TokensConserved, Spent, MapThenSumSet, MapThenFoldSet
  <2> QED
    BY <2>1, <2>2
<1>3. Init => Inv
  <2> SUFFICES ASSUME Init PROVE Inv
    OBVIOUS
  <2>1. \A p \in Profiles : Held(orders, p) = {}
    BY DEF Init, Held, Placed, NoOrder
  <2>2. Spent(orders, {}) = 0
    <3>1. Spent(orders, {}) = Total([o \in {} |-> Price[orders[o].sku]], {})
      BY SpentIsTotal, FS_EmptySet
    <3> QED
      BY <3>1, TotalEmpty
  <2>3. \A p \in Profiles : balance[p] = Tokens[p] /\ Tokens[p] \in Nat
    BY CatalogAssumption DEF Init
  <2> QED
    BY <1>1, <2>1, <2>2, <2>3 DEF Init, RefundsClosed
<1>4. IInv /\ IInv' /\ Inv /\ [Next]_vars => Inv'
  <2> SUFFICES ASSUME IInv, IInv', TokensConserved, RefundsClosed, [Next]_vars
               PROVE  TokensConserved' /\ RefundsClosed'
    OBVIOUS
  <2>0. /\ balance \in [Profiles -> Int] /\ refunds \subseteq OrderIds
        /\ \A p \in Profiles : Tokens[p] \in Nat
        /\ \A o \in OrderIds : o \in Placed => orders[o] \in OrderRow /\ Price[orders[o].sku] \in Nat
    BY RowTyped, CatalogAssumption DEF IInv, TypeOK, Placed, NoOrder
  <2>1. \A p \in Profiles : \A o \in Held(orders, p) : Price[orders[o].sku] \in Nat
    BY <2>0 DEF Held, Placed
  <2>2. \A p \in Profiles : /\ balance[p] = Tokens[p] - Spent(orders, Held(orders, p))
                            /\ balance[p] >= 0
    BY <1>1
  <2>3. ASSUME NEW p \in Profiles, Held(orders', p) = Held(orders, p),
               \A o \in Held(orders, p) : orders'[o].sku = orders[o].sku
        PROVE  Spent(orders', Held(orders', p)) = Spent(orders, Held(orders, p))
    BY <1>0, <2>1, <2>3, SpentSame
  <2>4. ASSUME NEW p0 \in Profiles, NEW s0 \in Skus, PlaceOrder(p0, s0)
        PROVE  TokensConserved' /\ RefundsClosed'
    <3>1. PICK o \in OrderIds \ Placed :
             /\ orders'[o].profile = p0 /\ orders'[o].sku = s0
             /\ orders'[o].status \in {"queued", "delivered"}
             /\ \A n \in OrderIds \ {o} : orders'[n] = orders[n]
             /\ balance' = [balance EXCEPT ![p0] = @ - Price[s0]]
             /\ refunds' = refunds /\ balance[p0] >= Price[s0]
      BY <2>4 DEF PlaceOrder, Accepts, IInv, TypeOK
    <3>2. Price[s0] \in Nat
      BY CatalogAssumption
    <3>3. /\ Held(orders', p0) = Held(orders, p0) \cup {o} /\ o \notin Held(orders, p0)
          /\ \A p \in Profiles \ {p0} : Held(orders', p) = Held(orders, p)
      BY <3>1 DEF Held, Placed, Refunded
    <3>4. \A p \in Profiles : \A n \in Held(orders, p) : orders'[n].sku = orders[n].sku
      BY <3>1 DEF Held, Placed
    <3>5. /\ Spent(orders', Held(orders, p0) \cup {o}) = Spent(orders, Held(orders, p0)) + Price[s0]
          /\ Spent(orders, Held(orders, p0)) \in Int
      <4>1. \A n \in Held(orders, p0) : Price[orders[n].sku] \in Nat /\ orders'[n].sku = orders[n].sku
        BY <2>1, <3>4
      <4>2. IsFiniteSet(Held(orders, p0)) /\ o \notin Held(orders, p0)
        BY <1>0, <3>3
      <4>3. Price[orders'[o].sku] = Price[s0] /\ Price[orders'[o].sku] \in Nat
        BY <3>1, <3>2
      <4>4. /\ Spent(orders', Held(orders, p0) \cup {o})
                   = Spent(orders, Held(orders, p0)) + Price[orders'[o].sku]
            /\ Spent(orders, Held(orders, p0)) \in Int
        <5> DEFINE S == Held(orders, p0)
        <5> HIDE DEF S
        <5> QED
          BY <4>1, <4>2, <4>3, SpentAdd DEF S
      <4> QED
        BY <4>3, <4>4
    <3>6. ASSUME NEW p \in Profiles
          PROVE  balance'[p] = Tokens[p] - Spent(orders', Held(orders', p)) /\ balance'[p] >= 0
      <4>1. CASE p = p0
        <5>1. /\ balance[p0] = Tokens[p0] - Spent(orders, Held(orders, p0))
              /\ balance'[p0] = balance[p0] - Price[s0] /\ balance[p0] \in Int
              /\ balance[p0] >= Price[s0]
          BY <2>0, <2>2, <3>1
        <5>2. Spent(orders', Held(orders', p0)) = Spent(orders, Held(orders, p0)) + Price[s0]
          BY <3>3, <3>5
        <5> QED
          BY <2>0, <3>2, <3>5, <4>1, <5>1, <5>2
      <4>2. CASE p # p0
        BY <2>0, <2>2, <2>3, <3>1, <3>3, <3>4, <4>2
      <4> QED
        BY <4>1, <4>2
    <3>7. RefundsClosed'
      BY <2>0, <3>1 DEF RefundsClosed, Refunded, Placed
    <3> QED
      BY <1>2, <3>6, <3>7
  <2>5. ASSUME \A p \in Profiles, s \in Skus : ~PlaceOrder(p, s),
               UNCHANGED <<balance, refunds>>,
               \A o \in OrderIds : Refunded(o)' => Refunded(o)
        PROVE  TokensConserved' /\ RefundsClosed'
    <3>1. \A o \in OrderIds : IF o \in Placed THEN Keeps(o) ELSE orders'[o] = orders[o]
      BY <2>5, RowsKept
    <3>2. \A p \in Profiles : Held(orders', p) = Held(orders, p)
                              /\ \A o \in Held(orders, p) : orders'[o].sku = orders[o].sku
      BY <2>5, <3>1 DEF Held, Placed, Refunded, Keeps, Settled
    <3>3. RefundsClosed'
      BY <2>0, <2>5, <3>1 DEF RefundsClosed, Refunded, Keeps, Settled
    <3> QED
      BY <1>2, <2>2, <2>3, <2>5, <3>2, <3>3
  <2>6. ASSUME NEW n \in OrderIds,
               orders[n] \in OrderRow, ~Settled(n), orders'[n].status = "refunded",
               \A o \in OrderIds \ {n} : orders'[o] = orders[o],
               LET price == Price[orders[n].sku]
                   fresh == price > 0 /\ n \notin refunds
               IN  /\ refunds' = IF fresh THEN refunds \cup {n} ELSE refunds
                   /\ balance' = IF fresh THEN [balance EXCEPT ![orders[n].profile] = @ + price]
                                 ELSE balance
        PROVE  TokensConserved' /\ RefundsClosed'
    <3> DEFINE p0 == orders[n].profile
               price == Price[orders[n].sku]
    <3>1. p0 \in Profiles /\ price \in Nat /\ n \in Placed /\ ~Refunded(n)
      BY <2>6, CatalogAssumption DEF OrderRow, Statuses, Placed, Settled, Refunded
    <3>2. n \notin refunds
      BY <3>1 DEF RefundsClosed
    <3>3. balance' = [balance EXCEPT ![p0] = @ + price]
      <4>1. CASE price > 0
        BY <2>6, <3>2, <4>1
      <4>2. CASE price = 0
        BY <2>0, <2>6, <3>1, <4>2
      <4> QED
        BY <3>1, <4>1, <4>2
    <3> HIDE DEF price
    <3>4. /\ Held(orders, p0) = Held(orders', p0) \cup {n} /\ n \notin Held(orders', p0)
          /\ \A p \in Profiles \ {p0} : Held(orders', p) = Held(orders, p)
      BY <2>6, <3>1 DEF Held, Placed, Refunded
    <3>5. \A p \in Profiles : \A o \in Held(orders', p) : orders'[o].sku = orders[o].sku
      BY <2>6, <3>4 DEF Held, Refunded
    <3>6. /\ Spent(orders, Held(orders', p0) \cup {n}) = Spent(orders', Held(orders', p0)) + price
          /\ Spent(orders', Held(orders', p0)) \in Int
      <4>1. IsFiniteSet(Held(orders', p0)) /\ \A o \in Held(orders', p0) : Price[orders'[o].sku] \in Nat
        BY <1>0, <2>1, <3>1, <3>4, <3>5, FS_Subset
      <4> QED
        BY <3>1, <3>4, <3>5, <4>1, SpentAdd DEF price
    <3>7. ASSUME NEW p \in Profiles
          PROVE  balance'[p] = Tokens[p] - Spent(orders', Held(orders', p)) /\ balance'[p] >= 0
      <4>1. CASE p = p0
        <5>1. /\ balance[p0] = Tokens[p0] - Spent(orders, Held(orders, p0)) /\ balance[p0] >= 0
              /\ balance'[p0] = balance[p0] + price /\ balance[p0] \in Int
          BY <2>0, <2>2, <3>1, <3>3
        <5>2. Spent(orders, Held(orders, p0)) = Spent(orders', Held(orders', p0)) + price
          BY <3>4, <3>6
        <5> QED
          BY <2>0, <3>1, <3>6, <4>1, <5>1, <5>2
      <4>2. CASE p # p0
        BY <2>0, <2>2, <2>3, <3>3, <3>4, <3>5, <4>2
      <4> QED
        BY <4>1, <4>2
    <3>8. RefundsClosed'
      BY <2>0, <2>6 DEF RefundsClosed, Refunded
    <3> QED
      BY <1>2, <3>7, <3>8
  <2>7. CASE \A p \in Profiles, s \in Skus : ~PlaceOrder(p, s)
    BY <2>5, <2>6, <2>7, MoneyMoves
  <2> QED
    BY <2>4, <2>7
<1> QED
  BY <1>3, <1>4, Invariance, InitIInv, NextIInv, PTL DEF Spec

-----------------------------------------------------------------------------
(* The promise.  The Stall implements StallPurchase when no call outlives  *)
(* its sender, no operator overrides the check and the writer knows every  *)
(* SKU.  Calm is what those three conditions add to IInv: every running    *)
(* call has a sender waiting for it, so no grant comes late, and a refused *)
(* order is one nobody else is granting.                                   *)

Calm ==
    /\ \A c \in Calls : Running(c) => Live(c)
    /\ \A c \in Calls : calls[c].writer # "rejected"
    /\ \A o \in OrderIds : orders[o].by # "confirmed"
    /\ NoBlindRefund
    /\ lateGrants = {}

Simulates == [Purchase!Next]_<<PurchaseState, Given>>

-----------------------------------------------------------------------------
(* The mapped state.                                                       *)

\* Goods are in the game exactly for the committed claims.
LEMMA GivenIsClaims ==
    ASSUME TypeOK, GrantedOnce
    PROVE  Given = claims
BY DEF TypeOK, GrantedOnce, Given

\* One changed row changes one purchase.
LEMMA OneRow ==
    ASSUME TypeOK, NEW o \in OrderIds, NEW r, orders' = [orders EXCEPT ![o] = r]
    PROVE  /\ orders'[o] = r /\ \A n \in OrderIds \ {o} : orders'[n] = orders[n]
           /\ PurchaseState[o] = Bought(orders[o])
           /\ PurchaseState' = [PurchaseState EXCEPT ![o] = Bought(r)]
<1>1. orders'[o] = r /\ \A n \in OrderIds \ {o} : orders'[n] = orders[n]
  BY DEF TypeOK
<1>2. PurchaseState' = [n \in OrderIds |-> Bought(orders'[n])]
  BY DEF PurchaseState, Bought
<1>3. [PurchaseState EXCEPT ![o] = Bought(r)] = [n \in OrderIds |-> Bought(orders'[n])]
  BY <1>1 DEF PurchaseState
<1> QED
  BY <1>1, <1>2, <1>3 DEF PurchaseState

\* A row that stays open is a stutter of the purchase.
LEMMA OpenRow ==
    ASSUME TypeOK, NEW o \in OrderIds, NEW r, orders' = [orders EXCEPT ![o] = r],
           orders[o].status \in {"queued", "delivering", "reconciling"},
           r.status \in {"queued", "delivering", "reconciling"}, UNCHANGED goods
    PROVE  Simulates
<1>1. Bought(orders[o]) = "paid" /\ Bought(r) = "paid"
  BY DEF Bought
<1>2. PurchaseState' = PurchaseState
  BY <1>1, OneRow DEF PurchaseState
<1> QED
  BY <1>2 DEF Simulates, Given

-----------------------------------------------------------------------------
(* Steps that leave every row and every grant alone.                       *)

\* A step that leaves the orders and the writer's rows alone is a stutter.
LEMMA StutterStep ==
    ASSUME Calm, UNCHANGED <<portal, writer>>,
           \A c \in Calls : Running(c)' => Live(c)',
           \A c \in Calls : calls'[c].writer # "rejected"
    PROVE  Calm' /\ Simulates
<1>1. UNCHANGED <<orders, claims, goods, lateGrants>>
  BY DEF portal, writer
<1>2. Calm'
  BY <1>1 DEF Calm, NoBlindRefund, Refunded
<1>3. Simulates
  BY <1>1 DEF Simulates, PurchaseState, Given
<1> QED
  BY <1>2, <1>3

\* A call that moves on keeps its sender, and nothing says "rejected".
LEMMA CalmWriter ==
    ASSUME IInv, Calm, NEW c \in Calls, NEW st \in ({"open"} \cup Answers) \ {"rejected"},
           Running(c), Writes(c, st)
    PROVE  /\ \A d \in Calls : Running(d)' => Live(d)'
           /\ \A d \in Calls : calls'[d].writer # "rejected"
           /\ Live(c) /\ calls'[c] = [calls[c] EXCEPT !.writer = st]
<1>1. /\ calls[c] \in Call
      /\ \A d \in Calls \ {c} : calls'[d] = calls[d]
      /\ \/ calls'[c] = [calls[c] EXCEPT !.writer = st]
         \/ ~Live(c) /\ calls'[c] = Idle
  BY WritesEffect DEF IInv
<1>2. Live(c) /\ calls'[c] = [calls[c] EXCEPT !.writer = st]
  BY <1>1 DEF Calm
<1>3. calls'[c].sender = calls[c].sender /\ calls'[c].writer = st
  BY <1>1, <1>2 DEF Call
<1> QED
  BY <1>1, <1>2, <1>3 DEF Calm, Running, Live

\* A sender that goes leaves no running call behind.
LEMMA CalmSenders ==
    ASSUME Calm, TypeOK,
           \A d \in Calls : \/ calls'[d] = calls[d]
                            \/ /\ ~Running(d)
                               /\ \/ calls'[d] = [calls[d] EXCEPT !.sender = "gone"]
                                  \/ calls'[d] = Idle
    PROVE  /\ \A d \in Calls : Running(d)' => Live(d)'
           /\ \A d \in Calls : calls'[d].writer # "rejected"
<1>1. \A d \in Calls : calls[d] \in Call \cup {Idle}
  BY DEF TypeOK
<1>2. \A d \in Calls : \/ calls'[d] = calls[d]
                       \/ ~Running(d) /\ calls'[d].writer = calls[d].writer
                       \/ calls'[d] = Idle
  BY <1>1 DEF Call, Idle
<1> QED
  BY <1>2 DEF Calm, Running, Live, Idle

-----------------------------------------------------------------------------
(* Steps that move a purchase.                                             *)

\* The commit gives the goods of a purchase that is paid for and not settled: its
\* sender is waiting, so the order says 'delivering'.
LEMMA CommitGives ==
    ASSUME IInv, IInv', Calm, NEW c \in Calls, WriterCommit(c)
    PROVE  Calm' /\ Simulates
<1> DEFINE o == calls[c].order
<1>1. PICK st \in {"applied", "nocode"} : Writes(c, st)
  BY DEF WriterCommit
<1>2. /\ Running(c) /\ calls[c].writer = "open"
      /\ claims' = claims \cup {o} /\ UNCHANGED orders
      /\ lateGrants' = IF Live(c) THEN lateGrants ELSE lateGrants \cup {o}
  BY DEF WriterCommit, Running, OnlyWriter, portal
<1>3. /\ \A d \in Calls : Running(d)' => Live(d)'
      /\ \A d \in Calls : calls'[d].writer # "rejected"
      /\ Live(c)
  BY <1>1, <1>2, CalmWriter DEF Answers
<1>4. o \in OrderIds /\ o \notin claims
  BY <1>2 DEF IInv, OpenAlone, TypeOK, Call, Idle
<1>5. orders[o].status = "delivering"
  BY <1>3, <1>4 DEF IInv, OneSender, Calm
<1>6. Calm'
  BY <1>2, <1>3, <1>5 DEF Calm, NoBlindRefund, Refunded
<1>7. Given = claims /\ Given' = claims'
  BY DEF IInv, TypeOK, GrantedOnce, Given
<1>8. PurchaseState[o] = "paid" /\ UNCHANGED PurchaseState
  BY <1>2, <1>4, <1>5 DEF PurchaseState, Bought
<1>9. Purchase!Give(o)
  BY <1>2, <1>4, <1>7, <1>8 DEF Purchase!Give
<1> QED
  BY <1>4, <1>6, <1>9 DEF Simulates, Purchase!Next

\* An answer completes a purchase whose goods are given, or returns one whose goods
\* are not and will not be.
LEMMA OutcomeSettles ==
    ASSUME IInv, IInv', Calm, NEW c \in Calls, Live(c), ~Running(c),
           NEW answer \in Answers \cup {"none"},
           answer # "none" => answer = calls[c].writer,
           ApplyOutcome(calls[c].order, answer), Leave(c), UNCHANGED writer
    PROVE  Calm' /\ Simulates
<1> DEFINE o == calls[c].order
<1>1. calls[c] \in Call
  BY DEF IInv, TypeOK, Live, Idle
<1>2. o \in OrderIds /\ orders[o].attempts # 0
  BY <1>1 DEF IInv, Untried, Call
<1>3. /\ answer \in {"applied", "replay"} => o \in claims
      /\ answer = "refused" => o \notin claims
      /\ answer # "rejected"
  BY DEF IInv, AnswersTrue, Calm, Answers, DefiniteFailures
<1>4. /\ \A d \in Calls : Running(d)' => Live(d)'
      /\ \A d \in Calls : calls'[d].writer # "rejected"
  <2>1. \A d \in Calls \ {c} : calls'[d] = calls[d]
    BY DEF Leave, IInv, TypeOK
  <2>2. calls'[c] \in {[calls[c] EXCEPT !.sender = "gone"], Idle}
    BY DEF Leave, Free, IInv, TypeOK
  <2> QED
    BY <2>1, <2>2, CalmSenders DEF IInv
<1>5. UNCHANGED <<claims, goods, lateGrants>>
  BY DEF writer
<1>6. CASE Settled(o)
  BY <1>4, <1>6, StutterStep DEF ApplyOutcome
<1>7. CASE ~Settled(o)
  <2>1. PICK r \in OrderRow :
             /\ orders' = [orders EXCEPT ![o] = r]
             /\ r.attempts = orders[o].attempts /\ r.sku = orders[o].sku
             /\ \/ r.status \in {"queued", "reconciling"} /\ r.by = orders[o].by
                \/ r.status = "delivered" /\ r.by = orders[o].by /\ o \in claims
                \/ r.status = "refunded" /\ r.by = "writer" /\ answer \in DefiniteFailures
    BY <1>2, <1>3, <1>7, OutcomeEffect DEF Calm
  <2>2. /\ orders'[o] = r /\ \A n \in OrderIds \ {o} : orders'[n] = orders[n]
        /\ PurchaseState[o] = Bought(orders[o])
        /\ PurchaseState' = [PurchaseState EXCEPT ![o] = Bought(r)]
    BY <1>2, <2>1, OneRow DEF IInv
  <2>3. orders[o].status \in {"queued", "delivering", "reconciling"}
    BY <1>2, <1>7, RowTyped DEF IInv, NoOrder, OrderRow, Statuses, Settled
  <2>4. PurchaseState[o] = "paid"
    BY <2>2, <2>3 DEF Bought
  <2>5. r.status = "refunded" => o \notin claims
    BY <1>3, <2>1 DEF DefiniteFailures
  <2>6. Calm'
    <3>1. \A n \in OrderIds : orders'[n].by # "confirmed"
      BY <2>1, <2>2 DEF Calm
    <3>2. NoBlindRefund'
      BY <2>2, <2>5, <1>5 DEF Calm, NoBlindRefund, Refunded, IInv, TypeOK
    <3> QED
      BY <1>4, <1>5, <3>1, <3>2 DEF Calm
  <2>7. Given = claims /\ UNCHANGED Given
    BY <1>5, GivenIsClaims DEF IInv, Given
  <2>8. CASE r.status \in {"queued", "reconciling"}
    BY <1>2, <1>5, <2>1, <2>3, <2>6, <2>8, OpenRow DEF IInv
  <2>9. CASE r.status = "delivered"
    <3>1. Purchase!Complete(o)
      BY <2>1, <2>2, <2>4, <2>7, <2>9 DEF Purchase!Complete, Purchase!Becomes, Bought
    <3> QED
      BY <1>2, <2>6, <3>1 DEF Simulates, Purchase!Next
  <2>10. CASE r.status = "refunded"
    <3>1. Purchase!Return(o)
      BY <2>2, <2>4, <2>5, <2>7, <2>10 DEF Purchase!Return, Purchase!Becomes, Bought
    <3> QED
      BY <1>2, <2>6, <3>1 DEF Simulates, Purchase!Next
  <2> QED
    BY <2>1, <2>8, <2>9, <2>10
<1> QED
  BY <1>6, <1>7

\* Claiming an order and calling is a stutter.
LEMMA BeginStutters ==
    ASSUME IInv, Calm, NEW o \in OrderIds, NEW sender \in {"portal", "sweep"},
           BeginDelivery(o, sender), UNCHANGED writer
    PROVE  Calm' /\ Simulates
<1> DEFINE r == [orders[o] EXCEPT !.status = "delivering", !.attempts = 1, !.stale = FALSE]
           call == [order |-> o, sender |-> sender, writer |-> "sent"]
<1>1. orders[o] \in OrderRow /\ orders[o].status \in {"queued", "delivering", "reconciling"}
  BY RowTyped, CatalogAssumption DEF IInv, BeginDelivery, Claimable, InGame, NoOrder
<1>2. r.status = "delivering" /\ r.by = orders[o].by
  BY <1>1 DEF OrderRow
<1>3. orders' = [orders EXCEPT ![o] = r]
  BY <1>1 DEF BeginDelivery, IInv, TypeOK, OrderRow
<1>4. PICK c \in Calls : calls' = [calls EXCEPT ![c] = call]
  BY DEF BeginDelivery
<1>5. calls'[c] = call /\ \A d \in Calls \ {c} : calls'[d] = calls[d]
  BY <1>4 DEF IInv, TypeOK
<1> HIDE DEF r
<1>6. orders'[o] = r /\ \A n \in OrderIds \ {o} : orders'[n] = orders[n]
  BY <1>3, OneRow DEF IInv
<1>7. Calm'
  BY <1>2, <1>5, <1>6 DEF Calm, Running, Live, NoBlindRefund, Refunded, writer, IInv, TypeOK
<1>8. Simulates
  BY <1>1, <1>2, <1>3, OpenRow DEF IInv, writer
<1> QED
  BY <1>7, <1>8

\* Placing an order pays for a purchase, or keeps a cosmetic at once.
LEMMA PlaceOrderPays ==
    ASSUME IInv, Calm, NEW p \in Profiles, NEW s \in Skus, PlaceOrder(p, s)
    PROVE  Calm' /\ Simulates
<1> DEFINE row == [profile |-> p, sku |-> s,
                   status |-> IF Lane[s] = "prefs" THEN "delivered" ELSE "queued",
                   attempts |-> 0, stale |-> FALSE, error |-> "none", by |-> "nobody"]
<1>1. PICK o \in OrderIds \ Placed :
         /\ orders' = [orders EXCEPT ![o] = row]
         /\ UNCHANGED <<calls, claims, goods, lateGrants>>
  BY DEF PlaceOrder, writer
<1>2. row.by = "nobody" /\ row.status \in {"delivered", "queued"}
  OBVIOUS
<1> HIDE DEF row
<1>3. /\ orders'[o] = row /\ \A n \in OrderIds \ {o} : orders'[n] = orders[n]
      /\ PurchaseState[o] = Bought(orders[o])
      /\ PurchaseState' = [PurchaseState EXCEPT ![o] = Bought(row)]
  BY <1>1, OneRow DEF IInv
<1>4. PurchaseState[o] = "none"
  BY <1>3 DEF Bought, Placed
<1>5. Calm'
  BY <1>1, <1>2, <1>3 DEF Calm, Running, Live, NoBlindRefund, Refunded, IInv, TypeOK
<1>6. UNCHANGED Given
  BY <1>1 DEF Given
<1>7. Purchase!Pay(o) \/ Purchase!Keep(o)
  BY <1>2, <1>3, <1>4, <1>6 DEF Purchase!Pay, Purchase!Keep, Purchase!Becomes, Bought
<1> QED
  BY <1>5, <1>7 DEF Simulates, Purchase!Next

\* An operator who does not override returns only what was never sent.
LEMMA OperatorReturns ==
    ASSUME IInv, Calm, ~ConfirmRefunds, NEW o \in OrderIds, OperatorRefund(o)
    PROVE  Calm' /\ Simulates
<1> DEFINE r == RefundRow(orders[o], "admin", "unchecked")
<1>1. /\ ~NeedsConfirm(orders[o]) /\ Refund(o, orders[o], "admin", "unchecked")
      /\ UNCHANGED <<calls, claims, goods, lateGrants>>
  BY DEF OperatorRefund, writer
<1>2. orders[o] \in OrderRow /\ orders[o].status \in {"queued", "delivering", "reconciling"}
  <2>1. orders[o] # NoOrder
    BY DEF OperatorRefund, Placed, NoOrder
  <2> QED
    BY <2>1, RowTyped DEF IInv, OperatorRefund, Settled, OrderRow, Statuses
<1>3. o \notin claims
  BY <1>1, <1>2 DEF NeedsConfirm, OrderRow, IInv, Untried
<1>4. orders' = [orders EXCEPT ![o] = r] /\ r.status = "refunded" /\ r.by = "unchecked"
  BY <1>1, <1>2 DEF Refund, RefundRow, OrderRow
<1> HIDE DEF r
<1>5. /\ orders'[o] = r /\ \A n \in OrderIds \ {o} : orders'[n] = orders[n]
      /\ PurchaseState[o] = Bought(orders[o])
      /\ PurchaseState' = [PurchaseState EXCEPT ![o] = Bought(r)]
  BY <1>4, OneRow DEF IInv
<1>6. Calm'
  BY <1>1, <1>3, <1>4, <1>5 DEF Calm, Running, Live, NoBlindRefund, Refunded, IInv, TypeOK
<1>7. Given = claims /\ UNCHANGED Given
  BY <1>1, GivenIsClaims DEF IInv, Given
<1>8. Purchase!Return(o)
  BY <1>2, <1>3, <1>4, <1>5, <1>7 DEF Purchase!Return, Purchase!Becomes, Bought
<1> QED
  BY <1>6, <1>8 DEF Simulates, Purchase!Next

\* So is an order's growing old.
LEMMA GoStaleStutters ==
    ASSUME IInv, Calm, NEW o \in OrderIds, GoStale(o)
    PROVE  Calm' /\ Simulates
<1> DEFINE r == [orders[o] EXCEPT !.stale = TRUE]
<1>1. orders[o] \in OrderRow
  BY RowTyped DEF IInv, GoStale, NoOrder
<1>2. r.status = "delivering" /\ r.by = orders[o].by
  BY <1>1 DEF OrderRow, GoStale
<1>3. orders' = [orders EXCEPT ![o] = r] /\ UNCHANGED <<calls, claims, goods, lateGrants>>
  BY DEF GoStale, writer
<1> HIDE DEF r
<1>4. orders'[o] = r /\ \A n \in OrderIds \ {o} : orders'[n] = orders[n]
  BY <1>3, OneRow DEF IInv
<1>5. Calm'
  BY <1>2, <1>3, <1>4 DEF Calm, Running, Live, NoBlindRefund, Refunded, IInv, TypeOK
<1>6. Simulates
  BY <1>2, <1>3, OpenRow DEF IInv, GoStale
<1> QED
  BY <1>5, <1>6

-----------------------------------------------------------------------------
(* Every step, and the theorem.                                            *)

\* Initial states are initial states of StallPurchase.
LEMMA InitSimulates == Init => Calm /\ Purchase!Init
<1> SUFFICES ASSUME Init PROVE Calm /\ Purchase!Init
  OBVIOUS
<1>1. Calm
  BY DEF Init, Calm, Running, Idle, NoOrder, NoBlindRefund
<1>2. PurchaseState = [o \in OrderIds |-> "none"]
  BY DEF Init, PurchaseState, Bought, NoOrder
<1>3. Given = {}
  BY DEF Init, Given
<1> QED
  BY <1>1, <1>2, <1>3 DEF Purchase!Init

\* Every step is one of StallPurchase, or a stutter.
LEMMA NextSimulates ==
    ASSUME ~LateCalls, ~ConfirmRefunds, ~Deploys
    PROVE  IInv /\ IInv' /\ Calm /\ [Next]_vars => Calm' /\ Simulates
<1> SUFFICES ASSUME IInv, IInv', Calm, [Next]_vars PROVE Calm' /\ Simulates
  OBVIOUS
<1>1. ASSUME UNCHANGED <<portal, calls, writer>> PROVE Calm' /\ Simulates
  BY <1>1, StutterStep DEF Calm, Running, Live
<1>2. ASSUME NEW c \in Calls, NEW st \in ({"open"} \cup Answers) \ {"rejected"},
             Running(c), Writes(c, st), UNCHANGED <<portal, writer>>
      PROVE  Calm' /\ Simulates
  BY <1>2, CalmWriter, StutterStep
<1>3. ASSUME NEW sender \in {"portal", "sweep"}, Abandon(sender), NoneRuns(sender),
             UNCHANGED <<portal, writer>>
      PROVE  Calm' /\ Simulates
  <2>1. \A d \in Calls : \/ calls'[d] = calls[d]
                         \/ /\ ~Running(d)
                            /\ \/ calls'[d] = [calls[d] EXCEPT !.sender = "gone"]
                               \/ calls'[d] = Idle
    BY <1>3 DEF Abandon, NoneRuns, Free
  <2> QED
    BY <1>3, <2>1, CalmSenders, StutterStep DEF IInv
<1>4. CASE UNCHANGED vars
  BY <1>1, <1>4 DEF vars, portal, writer
<1>5. ASSUME NEW p \in Profiles, NEW s \in Skus, PlaceOrder(p, s) PROVE Calm' /\ Simulates
  BY <1>5, PlaceOrderPays
<1>6. ASSUME NEW o \in OrderIds, ReplayOrder(o) PROVE Calm' /\ Simulates
  BY <1>1, <1>6 DEF ReplayOrder
<1>7. ASSUME NEW o \in OrderIds, Background(o) PROVE Calm' /\ Simulates
  <2>1. CASE BeginDelivery(o, "portal")
    BY <1>7, <2>1, BeginStutters DEF Background
  <2>2. CASE UNCHANGED <<portal, calls>>
    BY <1>1, <1>7, <2>2 DEF Background
  <2> QED
    BY <1>7, <2>1, <2>2 DEF Background
<1>8. ASSUME NEW o \in OrderIds, Redrive(o) PROVE Calm' /\ Simulates
  BY <1>8, BeginStutters DEF Redrive
<1>9. ASSUME NEW o \in OrderIds, GoStale(o) PROVE Calm' /\ Simulates
  BY <1>9, GoStaleStutters
<1>10. ASSUME NEW o \in OrderIds, OperatorRefund(o) PROVE Calm' /\ Simulates
  BY <1>10, OperatorReturns
<1>11. ASSUME NEW c \in Calls, Answered(c) PROVE Calm' /\ Simulates
  <2>1. ~Running(c)
    BY <1>11 DEF Answered, Running, Answers, DefiniteFailures
  <2> QED
    BY <1>11, <2>1, OutcomeSettles DEF Answered
<1>12. ASSUME NEW c \in Calls, GiveUp(c) PROVE Calm' /\ Simulates
  BY <1>12, OutcomeSettles DEF GiveUp
<1>13. ASSUME NEW c \in Calls, WriterGate(c) PROVE Calm' /\ Simulates
  <2>1. Running(c) /\ Writes(c, "deferred")
    BY <1>13 DEF WriterGate, Running
  <2> QED
    BY <1>2, <1>13, <2>1 DEF WriterGate, OnlyWriter, Answers
<1>14. ASSUME NEW c \in Calls, WriterReplay(c) PROVE Calm' /\ Simulates
  BY <1>2, <1>14 DEF WriterReplay, Running, OnlyWriter, Answers
<1>15. ASSUME NEW c \in Calls, WriterOpen(c) PROVE Calm' /\ Simulates
  <2>1. Running(c) /\ \E st \in {"refused", "open"} : Writes(c, st)
    BY <1>15 DEF WriterOpen, Running
  <2> QED
    BY <1>2, <1>15, <2>1 DEF WriterOpen, OnlyWriter, Answers, DefiniteFailures
<1>16. ASSUME NEW c \in Calls, WriterRefuse(c) PROVE Calm' /\ Simulates
  <2>1. Running(c) /\ \E st \in {"refused", "deferred"} : Writes(c, st)
    BY <1>16 DEF WriterRefuse, Running
  <2> QED
    BY <1>2, <1>16, <2>1 DEF WriterRefuse, OnlyWriter, Answers, DefiniteFailures
<1>17. ASSUME NEW c \in Calls, WriterCommit(c) PROVE Calm' /\ Simulates
  BY <1>17, CommitGives
<1>18. ASSUME NEW c \in Calls, WriterFails(c) PROVE Calm' /\ Simulates
  BY <1>2, <1>18 DEF WriterFails, OnlyWriter, Answers
<1>19. CASE SweepStart
  BY <1>1, <1>19 DEF SweepStart
<1>20. CASE SweepSend
  <2>1. PICK o \in batch : \/ BeginDelivery(o, "sweep")
                           \/ UNCHANGED <<portal, calls>>
    BY <1>20 DEF SweepSend
  <2>2. o \in OrderIds /\ UNCHANGED writer
    BY <1>20 DEF SweepSend, IInv, TypeOK
  <2>3. CASE BeginDelivery(o, "sweep")
    BY <2>2, <2>3, BeginStutters
  <2>4. CASE UNCHANGED <<portal, calls>>
    BY <1>1, <2>2, <2>4
  <2> QED
    BY <2>1, <2>3, <2>4
<1>21. CASE SweepDies
  BY <1>3, <1>21 DEF SweepDies
<1>22. CASE PortalRestart
  BY <1>3, <1>22 DEF PortalRestart
<1> QED
  BY <1>4, <1>5, <1>6, <1>7, <1>8, <1>9, <1>10, <1>11, <1>12, <1>13, <1>14, <1>15, <1>16,
     <1>17, <1>18, <1>19, <1>20, <1>21, <1>22 DEF Next

\* Under those conditions nobody ends up with both the item and the Tokens
\* (the ALERT of apply_outcome never has reason to fire).
THEOREM CalmMeansNoBlindRefund ==
    ASSUME ~LateCalls, ~ConfirmRefunds, ~Deploys
    PROVE  Spec => []NoBlindRefund
<1>1. Init => IInv /\ Calm
  BY InitIInv, InitSimulates
<1>2. IInv /\ Calm /\ [Next]_vars => IInv' /\ Calm'
  BY NextIInv, NextSimulates
<1>3. Calm => NoBlindRefund
  BY DEF Calm
<1> QED
  BY <1>1, <1>2, <1>3, PTL DEF Spec

\* The two legs implement the purchase: paid once, then completed with the goods or
\* returned without them (place_order, deliver, do_sn_shop, apply_outcome, refund).
THEOREM StallKeepsPromise ==
    ASSUME ~LateCalls, ~ConfirmRefunds, ~Deploys
    PROVE  Spec => KeepsPromise
<1>1. Init => IInv /\ Calm /\ Purchase!Init
  BY InitIInv, InitSimulates
<1>2. IInv /\ Calm /\ [Next]_vars => IInv' /\ Calm' /\ [Purchase!Next]_<<PurchaseState, Given>>
  BY NextIInv, NextSimulates DEF Simulates
<1> QED
  BY <1>1, <1>2, PTL DEF Spec, KeepsPromise, Purchase!Spec

=============================================================================
