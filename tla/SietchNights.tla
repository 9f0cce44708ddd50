---------------------------- MODULE SietchNights ----------------------------
(***************************************************************************)
(* The Seven Nights together: what is credited is the purse that the role  *)
(* lane of the Token Stall spends from.  The two share one database, whose *)
(* write transactions follow one another, and nothing else.                *)
(***************************************************************************)
EXTENDS NightCredit, RoleLane

\* What a profile has earned: the earn rows of the ledger.
Earned(L) == [p \in Profiles |-> MapThenSumSet(LAMBDA r : r.amt, {r \in L : r.who = p})]

vars == <<nightVars, laneVars>>

Init ==
    /\ NightInit
    /\ purse = Earned(ledger)
    /\ LaneInit

Next ==
    \/ /\ NightNext
       /\ purse' = Earned(ledger')
       /\ UNCHANGED <<orders, spent, refunds, guild, holders, run, granted>>
    \/ /\ Deed
       /\ UNCHANGED <<now, link, held, played, fit, earn, ledger, tick, req,
                      score, base, delta, gained>>
       /\ People
    \/ UNCHANGED nightVars /\ Script

Spec == Init /\ [][Next]_vars

-----------------------------------------------------------------------------
(* Properties                                                              *)

\* Crediting only ever adds to a purse, as the lane takes for granted: no pass,
\* relink or late evidence takes back what may have been spent already.
CreditOnlyAdds == LaneSpec
=============================================================================
