----------------------- MODULE WeekendEffectsProofs -----------------------
(***************************************************************************)
(* What holds of WeekendEffects for every set of events, pods and windows: *)
(* its types, and that no pod is left on unless an assert pass overlaps a  *)
(* change of a window file it has listed, or is killed half way.           *)
(***************************************************************************)
EXTENDS WeekendEffects, TLAPS

-----------------------------------------------------------------------------
(* Types.                                                                  *)

\* A launch is only answered for where one was decided on.
ReplyFits ==
    \A e \in Events : Current(e) /\ tick.reply = "launched" => Decision(e) \in Phases

TInv == TypeOK /\ ReplyFits

\* The windows are records of numbers, an end is never 0.
LEMMA WindowTypes ==
    /\ \A w \in Windows : w.starts \in Nat /\ w.ends \in Nat \ {0}
    /\ Ends \subseteq Nat \ {0}
    /\ NONE \notin Windows
BY EffectsAssumption DEF Ends

\* The first state has the types.
LEMMA InitTypes == Init => TInv
<1> SUFFICES ASSUME Init PROVE TInv
    OBVIOUS
<1> USE EffectsAssumption DEF Init
<1>1. NewRow \in Row
      BY DEF NewRow, Row, States, Phases
<1>2. Todo = {}
      BY DEF NoTick, Todo
<1>3. /\ tick = [now |-> tick.now, seen |-> tick.seen, reply |-> tick.reply]
      /\ tick.now = 0 /\ tick.reply = "none"
      BY DEF NoTick
<1>4. tick.seen \in [Todo -> DueRow]
      BY DEF NoTick, Todo
<1>5. ReplyFits
      BY <1>3 DEF ReplyFits
<1>6. pass \in [now : 0..MaxTime, ends : [Events -> Ends \cup {0}],
                step : {"next", "off", "read"}, took : SUBSET Pods]
      BY DEF NoPass
<1>7. unit \in [Events -> [Phases -> Unit \cup {NoUnit}]]
      OBVIOUS
<1>8. event \in [Events -> Row] /\ \A e \in Events :
         event[e].win = NONE => event[e].state = "none" /\ event[e].job = "none"
      BY <1>1 DEF NewRow
<1>9. /\ record \in [Events -> [Phases -> Results]]
      /\ window \in [Events -> Ends \cup {0}]
      /\ pods \in [Pods -> {"base", "on"}]
      /\ now \in 0..MaxTime /\ edits \in 0..MaxEdits
      BY DEF Results
<1>10. alerted \in BOOLEAN
      OBVIOUS
<1>11. QED
      BY <1>2, <1>3, <1>4, <1>5, <1>6, <1>7, <1>8, <1>9, <1>10
         DEF TInv, TypeOK, RowsTyped, TickTyped, FilesTyped, UnitsTyped, PassTyped, Replies

\* A typed row goes in as it is.
LEMMA AdminKeepsRows ==
    ASSUME TypeOK, NEW e \in Events, NEW row \in Row, AdminWrites(e, row),
           row.win = NONE => row.state = "none" /\ row.job = "none"
    PROVE  RowsTyped' /\ edits' \in 0..MaxEdits
<1>1. event' = [event EXCEPT ![e] = row] /\ edits < MaxEdits /\ edits' = edits + 1
      BY DEF AdminWrites
<1>2. RowsTyped'
      BY <1>1 DEF TypeOK, RowsTyped
<1>3. edits' \in 0..MaxEdits
      BY <1>1, EffectsAssumption DEF TypeOK
<1>4. QED
      BY <1>2, <1>3

\* A write of the Events Manager keeps the rows typed.
LEMMA WriteKeepsRows ==
    ASSUME TypeOK, NEW e \in Events, Edit(e) \/ Cancel(e)
    PROVE  RowsTyped' /\ edits' \in 0..MaxEdits
<1>1. event[e] \in Row /\ (event[e].win = NONE => event[e].state = "none" /\ event[e].job = "none")
      BY DEF TypeOK, RowsTyped
<1>2. event[e].state \in States
      BY <1>1 DEF Row
<1>3. CASE Edit(e)
  <2>1. PICK status \in {"draft", "published"}, win \in Windows \cup {NONE}, rearm \in BOOLEAN :
           /\ InFlight(event[e]) => win = event[e].win
           /\ AdminWrites(e, [event[e] EXCEPT
                  !.status = status, !.win = win,
                  !.state = StateAfterWrite(event[e], status, win, rearm)])
        BY <1>3 DEF Edit
  <2> DEFINE state == StateAfterWrite(event[e], status, win, rearm)
  <2>2. state \in States
        BY <1>2 DEF StateAfterWrite, States
  <2>3. win = NONE => state = "none" /\ event[e].job = "none"
        BY <1>1, <2>1 DEF StateAfterWrite, InFlight
  <2>4. AdminWrites(e, [event[e] EXCEPT !.status = status, !.win = win, !.state = state])
        BY <2>1
  <2> HIDE DEF state
  <2> DEFINE row == [event[e] EXCEPT !.status = status, !.win = win, !.state = state]
  <2>5. row \in Row /\ row.win = win /\ row.state = state /\ row.job = event[e].job
        BY <1>1, <2>2 DEF Row
  <2>6. AdminWrites(e, row)
        BY <2>4
  <2> HIDE DEF row
  <2>7. QED
        BY <2>3, <2>5, <2>6, AdminKeepsRows
<1>4. CASE Cancel(e)
  <2> DEFINE state == IF event[e].state = "armed" /\ event[e].job = "none"
                        THEN "none" ELSE event[e].state
             row == [event[e] EXCEPT !.status = "cancelled", !.state = state]
  <2>1. AdminWrites(e, row)
        BY <1>4 DEF Cancel
  <2>2. state \in States
        BY <1>2 DEF States
  <2>3. row \in Row /\ row.win = event[e].win /\ row.state = state /\ row.job = event[e].job
        BY <1>1, <2>2 DEF Row
  <2>4. row.win = NONE => row.state = "none" /\ row.job = "none"
        BY <1>1, <2>3
  <2> HIDE DEF row
  <2>5. QED
        BY <2>1, <2>3, <2>4, AdminKeepsRows
<1>5. QED
      BY <1>3, <1>4

\* Compare-and-set keeps the rows typed: a row that is still as the tick read it
\* has an effect.
LEMMA TransitionKeepsRows ==
    ASSUME TInv, NEW e \in Events, Current(e),
           NEW state \in States, NEW job \in Phases \cup {"none"},
           Transition(e, state, job)
    PROVE  RowsTyped'
<1>1. tick.seen[e] \in DueRow /\ event[e] \in Row /\ tick.now \in 0..MaxTime
      BY DEF TInv, TypeOK, RowsTyped, TickTyped, Current
<1>2. CASE event[e].state = tick.seen[e].state /\ event[e].job = tick.seen[e].job
  <2>1. event[e].win # NONE
        BY <1>1, <1>2 DEF DueRow, TInv, TypeOK, RowsTyped
  <2> DEFINE at == IF job = "none" THEN 0 ELSE tick.now
             row == [event[e] EXCEPT !.state = state, !.job = job, !.at = at]
  <2>2. event' = [event EXCEPT ![e] = row]
        BY <1>2 DEF Transition
  <2>3. at \in 0..MaxTime
        BY <1>1, EffectsAssumption
  <2> HIDE DEF at
  <2>4. row \in Row /\ row.win # NONE
        BY <1>1, <2>1, <2>3 DEF Row
  <2> HIDE DEF row
  <2>5. QED
        BY <2>2, <2>4 DEF TInv, TypeOK, RowsTyped
<1>3. CASE ~(event[e].state = tick.seen[e].state /\ event[e].job = tick.seen[e].job)
      BY <1>3 DEF Transition, TInv, TypeOK, RowsTyped
<1>4. QED
      BY <1>2, <1>3

\* A tick handles one row at a time.
LEMMA OneCurrent ==
    ASSUME TickTyped, NEW e \in Events, NEW f \in Events, Current(e), Current(f)
    PROVE  e = f
<1>1. /\ e \in Nat /\ f \in Nat
      /\ tick.seen[e].win.starts \in Nat /\ tick.seen[f].win.starts \in Nat
      BY EffectsAssumption DEF TickTyped, Current, DueRow, Row
<1>2. QED
      BY <1>1 DEF Current

\* A tick's going on to the next event keeps it typed.
LEMMA TickGoesOnTyped ==
    ASSUME TickTyped, NEW e \in Events, TickGoesOn(e)
    PROVE  TickTyped' /\ tick'.reply = "none"
<1>1. CASE Todo = {e}
  <2>1. tick' = NoTick
        BY <1>1 DEF TickGoesOn
  <2>2. QED
        BY <2>1, EffectsAssumption DEF TickTyped, NoTick, Replies, Todo
<1>2. CASE Todo # {e}
  <2> DEFINE rest == [f \in Todo \ {e} |-> tick.seen[f]]
  <2>1. tick' = [now |-> tick.now, seen |-> rest, reply |-> "none"]
        BY <1>2 DEF TickGoesOn, TickTyped
  <2>2. rest \in [Todo \ {e} -> DueRow] /\ DOMAIN rest = Todo \ {e} /\ Todo \ {e} \subseteq Events
        BY DEF TickTyped
  <2>3. tick'.now = tick.now /\ tick'.seen = rest /\ tick'.reply = "none"
        BY <2>1
  <2>4. Todo' = Todo \ {e}
        BY <2>2, <2>3 DEF Todo
  <2> HIDE DEF rest
  <2>5. QED
        BY <2>1, <2>2, <2>3, <2>4 DEF TickTyped, Replies
<1>3. QED
      BY <1>1, <1>2

\* An answer is written down beside the rows the tick read.
LEMMA ReplyTyped ==
    ASSUME TInv, NEW e \in Events, Current(e), NEW reply \in Replies,
           tick' = [tick EXCEPT !.reply = reply],
           reply = "launched" => Decision(e) \in Phases
    PROVE  TickTyped' /\ ReplyFits'
<1>1. tick' = [now |-> tick.now, seen |-> tick.seen, reply |-> reply]
      BY DEF TInv, TypeOK, TickTyped
<1>2. tick'.now = tick.now /\ tick'.seen = tick.seen /\ tick'.reply = reply
      BY <1>1
<1>3. Todo' = Todo
      BY <1>2 DEF Todo
<1>4. TickTyped'
      BY <1>1, <1>2, <1>3 DEF TInv, TypeOK, TickTyped
<1>5. ASSUME NEW f \in Events, Current(f)', tick'.reply = "launched"
      PROVE  Decision(f)' \in Phases
  <2>1. Current(f)
        BY <1>2, <1>3, <1>5 DEF Current
  <2>2. f = e
        BY <2>1, OneCurrent DEF TInv, TypeOK
  <2>3. Decision(f)' = Decision(f)
        BY <1>2 DEF Decision, Decide
  <2>4. QED
        BY <1>2, <1>5, <2>2, <2>3
<1>6. QED
      BY <1>4, <1>5 DEF ReplyFits

\* A tick without a reply has none to fit.
LEMMA IdleTick ==
    ASSUME tick'.reply = "none"
    PROVE  ReplyFits'
BY DEF ReplyFits

\* No step of a tick breaks the types.
LEMMA TickKeepsTypes ==
    ASSUME TInv, NEW e \in Events, TickStep(e)
    PROVE  TInv'
<1> USE DEF TInv
<1>1. CASE TickDecides(e)
  <2>1. RowsTyped'
    <3>1. CASE UNCHANGED event
          BY <3>1 DEF TypeOK, RowsTyped
    <3>2. CASE Transition(e, GivenUp(e), "none")
      <4>1. GivenUp(e) \in States
            BY DEF GivenUp, States
      <4>2. QED
            BY <1>1, <3>2, <4>1, TransitionKeepsRows DEF TickDecides
    <3>3. QED
          BY <1>1, <3>1, <3>2 DEF TickDecides
  <2>2. TickTyped' /\ ReplyFits'
        BY <1>1, TickGoesOnTyped, IdleTick DEF TypeOK, TickDecides
  <2>3. QED
        BY <1>1, <2>1, <2>2
           DEF TickDecides, TypeOK, host, FilesTyped, UnitsTyped, PassTyped
<1>2. CASE TickLaunches(e)
  <2> DEFINE phase == Decision(e)
  <2>1. phase \in Phases /\ Current(e)
        BY <1>2 DEF TickLaunches
  <2>2. TickTyped' /\ ReplyFits'
    <3>1. PICK reply \in {"lost", "refused", "launched"} : tick' = [tick EXCEPT !.reply = reply]
          BY <1>2 DEF TickLaunches
    <3>2. QED
          BY <2>1, <3>1, ReplyTyped DEF Replies
  <2>3. FilesTyped' /\ UnitsTyped'
    <3>1. CASE UNCHANGED <<record, unit>>
          BY <1>2, <3>1 DEF TypeOK, FilesTyped, UnitsTyped, TickLaunches
    <3>2. CASE UNCHANGED unit /\ record' = [record EXCEPT ![e][phase] = "failed"]
          BY <1>2, <2>1, <3>2 DEF TypeOK, FilesTyped, UnitsTyped, TickLaunches, Results
    <3>3. CASE Starts(e, phase)
      <4>1. [step |-> FirstStep(phase), ends |-> tick.seen[e].win.ends, took |-> {}] \in Unit
            BY <2>1 DEF TypeOK, TickTyped, Current, DueRow, Row, Unit, Ends, FirstStep
      <4>2. unit' \in [Events -> [Phases -> Unit \cup {NoUnit}]]
            BY <2>1, <3>3, <4>1 DEF Starts, TypeOK, UnitsTyped
      <4>3. record' \in [Events -> [Phases -> Results]]
            BY <2>1, <3>3 DEF Starts, TypeOK, FilesTyped, Results
      <4>4. QED
            BY <1>2, <4>2, <4>3 DEF TickLaunches, TypeOK, FilesTyped, UnitsTyped
    <3>4. QED
          BY <1>2, <3>1, <3>2, <3>3 DEF TickLaunches
  <2>4. QED
        BY <1>2, <2>2, <2>3 DEF TickLaunches, TypeOK, RowsTyped, PassTyped
<1>3. CASE TickPolls(e)
  <2>1. /\ Current(e)
        /\ \E reply \in Results \cup {"lost"} : tick' = [tick EXCEPT !.reply = reply]
    <3>1. tick.seen[e].job \in Phases
      <4>1. tick.seen[e] \in Row /\ Decide(tick.seen[e], tick.now) = "poll"
            BY <1>3 DEF TickPolls, Current, Decision, TypeOK, TickTyped, DueRow
      <4>2. QED
            BY <4>1 DEF Decide, Row
    <3>2. record[e][tick.seen[e].job] \in Results
          BY <3>1 DEF TypeOK, FilesTyped
    <3>3. QED
          BY <1>3, <3>2 DEF TickPolls, Results
  <2>2. TickTyped' /\ ReplyFits'
        BY <2>1, ReplyTyped DEF Replies, Results
  <2>3. QED
        BY <1>3, <2>2 DEF TickPolls, TypeOK, host, RowsTyped, FilesTyped, UnitsTyped, PassTyped
<1>4. CASE TickRecords(e)
  <2>1. RowsTyped'
    <3>1. CASE UNCHANGED event
          BY <3>1 DEF TypeOK, RowsTyped
    <3>2. ASSUME NEW state \in States, NEW job \in Phases \cup {"none"}, Transition(e, state, job)
          PROVE  RowsTyped'
          BY <1>4, <3>2, TransitionKeepsRows DEF TickRecords
    <3>3. tick.reply = "launched" => tick.seen[e].state \in States /\ Decision(e) \in Phases
          BY <1>4 DEF TickRecords, ReplyFits, Current, TypeOK, TickTyped, DueRow, Row
    <3>4. {"failed", "running", "done"} \subseteq States
          BY DEF States
    <3>5. QED
          BY <1>4, <3>1, <3>2, <3>3, <3>4 DEF TickRecords
  <2>2. TickTyped' /\ ReplyFits'
        BY <1>4, TickGoesOnTyped, IdleTick DEF TypeOK, TickRecords
  <2>3. QED
        BY <1>4, <2>1, <2>2
           DEF TickRecords, TypeOK, host, FilesTyped, UnitsTyped, PassTyped
<1>5. QED
      BY <1>1, <1>2, <1>3, <1>4 DEF TickStep

\* A unit's going on to a step keeps the units typed.
LEMMA StepTyped ==
    ASSUME UnitsTyped, NEW e \in Events, NEW phase \in Phases, unit[e][phase] # NoUnit,
           NEW step \in {"check", "on", "readOn", "unwindow", "off", "readOff"},
           NEW took \in SUBSET Pods, ToStep(e, phase, step, took)
    PROVE  UnitsTyped'
<1> DEFINE u == unit[e][phase]
           moved == [u EXCEPT !.step = step, !.took = took]
<1>1. u \in Unit
      BY DEF UnitsTyped
<1>2. unit' = [unit EXCEPT ![e][phase] = moved]
      BY DEF ToStep
<1> HIDE DEF u
<1>3. moved \in Unit
      BY <1>1 DEF Unit
<1> HIDE DEF moved
<1>4. QED
      BY <1>2, <1>3 DEF UnitsTyped

\* So does its end.
LEMMA FinishTyped ==
    ASSUME UnitsTyped, record \in [Events -> [Phases -> Results]],
           NEW e \in Events, NEW phase \in Phases,
           NEW result \in Results, Finish(e, phase, result)
    PROVE  UnitsTyped' /\ record' \in [Events -> [Phases -> Results]]
BY DEF UnitsTyped, Finish

\* Setting pods keeps them typed.
LEMMA SetPodsTyped ==
    ASSUME pods \in [Pods -> {"base", "on"}], NEW reached \in SUBSET Pods,
           NEW value \in {"base", "on"}, SetPods(reached, value)
    PROVE  pods' \in [Pods -> {"base", "on"}]
BY DEF SetPods

\* And the alert.
LEMMA SetPodsAlerts ==
    ASSUME alerted \in BOOLEAN, NEW reached, NEW value, SetPods(reached, value)
    PROVE  alerted' \in BOOLEAN
BY DEF SetPods

\* A step of the worker leaves what the web tier keeps typed.
LEMMA WebUntouched ==
    ASSUME TInv, UNCHANGED <<now, web>>
    PROVE  /\ now' \in 0..MaxTime /\ edits' \in 0..MaxEdits
           /\ RowsTyped' /\ TickTyped' /\ ReplyFits'
BY DEF TInv, TypeOK, web, RowsTyped, TickTyped, ReplyFits, Todo, Current, Decision, Decide

\* No step of a unit breaks the types.
LEMMA UnitKeepsTypes ==
    ASSUME TInv, NEW e \in Events, UnitStep(e)
    PROVE  TInv'
<1>1. UNCHANGED <<now, web, pass>>
      BY DEF UnitStep, UnitChecks, UnitSetsOn, UnitReadsOn, UnitRemovesWindow, UnitSetsOff,
             UnitReadsOff
<1>2. PassTyped'
      BY <1>1 DEF TInv, TypeOK, PassTyped
<1>3. SUFFICES /\ FilesTyped' /\ UnitsTyped' /\ pods' \in [Pods -> {"base", "on"}]
               /\ alerted' \in BOOLEAN
      BY <1>1, <1>2, WebUntouched DEF TInv, TypeOK
<1>4. /\ FilesTyped /\ UnitsTyped /\ pods \in [Pods -> {"base", "on"}] /\ alerted \in BOOLEAN
      /\ "start" \in Phases /\ "end" \in Phases /\ "ok" \in Results /\ "failed" \in Results
      BY DEF TInv, TypeOK, Phases, Results
<1>5. \A f \in Phases : unit[e][f].step # "none" => unit[e][f] # NoUnit
      BY DEF NoUnit
<1>51. UnitChecks(e) \/ UnitSetsOn(e) \/ UnitReadsOn(e) => unit[e]["start"] # NoUnit
      BY <1>4, <1>5 DEF UnitChecks, UnitSetsOn, UnitReadsOn
<1>52. UnitRemovesWindow(e) => unit[e]["end"] # NoUnit
      BY <1>4, <1>5 DEF UnitRemovesWindow
<1>6. CASE UnitChecks(e)
  <2>1. UnitsTyped' /\ record' \in [Events -> [Phases -> Results]]
    <3>1. CASE ToStep(e, "start", "on", {}) /\ UNCHANGED record
          BY <1>4, <1>51, <1>6, <3>1, StepTyped DEF UnitChecks, FilesTyped
    <3>2. CASE Finish(e, "start", "failed")
          BY <1>4, <3>2, FinishTyped DEF FilesTyped
    <3>3. QED
          BY <1>6, <3>1, <3>2 DEF UnitChecks
  <2>2. QED
        BY <1>4, <1>6, <2>1 DEF UnitChecks, FilesTyped
<1>7. CASE UnitSetsOn(e)
  <2>1. PICK reached \in SUBSET Pods : SetPods(reached, "on") /\ ToStep(e, "start", "readOn", reached)
        BY <1>7 DEF UnitSetsOn
  <2>2. UnitsTyped'
        BY <1>4, <1>51, <1>7, <2>1, StepTyped
  <2>3. pods' \in [Pods -> {"base", "on"}] /\ alerted' \in BOOLEAN
        BY <1>4, <2>1, SetPodsTyped, SetPodsAlerts
  <2>4. QED
        BY <1>4, <1>7, <2>2, <2>3 DEF UnitSetsOn, FilesTyped
<1>8. CASE UnitReadsOn(e)
  <2>1. CASE FallsShort(e)
    <3>1. UnitsTyped'
          BY <1>4, <1>51, <1>8, <2>1, StepTyped DEF UnitReadsOn, FallsShort
    <3>2. QED
          BY <1>4, <1>8, <2>1, <3>1 DEF UnitReadsOn, FallsShort, FilesTyped
  <2>2. CASE /\ window' = [window EXCEPT ![e] = unit[e]["start"].ends]
             /\ alerted' = FALSE /\ Finish(e, "start", "ok")
    <3>1. unit[e]["start"].ends \in Ends
          BY <1>4, <1>51, <1>8 DEF UnitReadsOn, UnitsTyped, Unit
    <3>2. window' \in [Events -> Ends \cup {0}]
          BY <1>4, <2>2, <3>1 DEF FilesTyped
    <3>3. UnitsTyped' /\ record' \in [Events -> [Phases -> Results]]
          BY <1>4, <2>2, FinishTyped DEF FilesTyped
    <3>4. pods' \in [Pods -> {"base", "on"}]
          BY <1>4, <1>8 DEF UnitReadsOn
    <3>5. alerted' \in BOOLEAN
          BY <2>2
    <3>6. QED
          BY <3>2, <3>3, <3>4, <3>5 DEF FilesTyped
  <2>3. QED
        BY <1>8, <2>1, <2>2 DEF UnitReadsOn
<1>9. CASE UnitRemovesWindow(e)
  <2>1. UnitsTyped'
        BY <1>4, <1>52, <1>9, StepTyped DEF UnitRemovesWindow
  <2>2. QED
        BY <1>4, <1>9, <2>1 DEF UnitRemovesWindow, FilesTyped
<1>10. ASSUME NEW f \in Phases, UnitSetsOff(e, f)
       PROVE  /\ FilesTyped' /\ UnitsTyped' /\ pods' \in [Pods -> {"base", "on"}]
              /\ alerted' \in BOOLEAN
  <2>1. PICK reached \in SUBSET Pods : SetPods(reached, "base") /\ ToStep(e, f, "readOff", reached)
        BY <1>10 DEF UnitSetsOff
  <2>2. UnitsTyped'
        BY <1>4, <1>5, <1>10, <2>1, StepTyped DEF UnitSetsOff
  <2>3. pods' \in [Pods -> {"base", "on"}] /\ alerted' \in BOOLEAN
        BY <1>4, <2>1, SetPodsTyped, SetPodsAlerts
  <2>4. QED
        BY <1>4, <1>10, <2>2, <2>3 DEF UnitSetsOff, FilesTyped
<1>11. ASSUME NEW f \in Phases, UnitReadsOff(e, f)
       PROVE  /\ FilesTyped' /\ UnitsTyped' /\ pods' \in [Pods -> {"base", "on"}]
              /\ alerted' \in BOOLEAN
  <2>1. PICK result \in Results : Finish(e, f, result)
        BY <1>4, <1>11 DEF UnitReadsOff
  <2>2. UnitsTyped' /\ record' \in [Events -> [Phases -> Results]]
        BY <1>4, <2>1, FinishTyped DEF FilesTyped
  <2>3. alerted' \in BOOLEAN
        BY <1>4, <1>11 DEF UnitReadsOff
  <2>4. QED
        BY <1>4, <1>11, <2>2, <2>3 DEF UnitReadsOff, FilesTyped
<1>12. QED
       BY <1>6, <1>7, <1>8, <1>9, <1>10, <1>11 DEF UnitStep

\* No step of a pass breaks the types.
LEMMA PassKeepsTypes ==
    ASSUME TInv, NEW e \in Events, PassStep(e)
    PROVE  TInv'
<1>1. UNCHANGED <<now, web, unit>>
      BY DEF PassStep, PassReasserts, PassSkips, PassClosesWindow, PassSetsOff, PassReadsOff
<1>2. UnitsTyped'
      BY <1>1 DEF TInv, TypeOK, UnitsTyped
<1>3. SUFFICES /\ FilesTyped' /\ PassTyped' /\ pods' \in [Pods -> {"base", "on"}]
               /\ alerted' \in BOOLEAN
      BY <1>1, <1>2, WebUntouched DEF TInv, TypeOK
<1>4. FilesTyped /\ PassTyped /\ pods \in [Pods -> {"base", "on"}] /\ alerted \in BOOLEAN
      BY DEF TInv, TypeOK
<1>5. PassGoesOn(e) => PassTyped'
  <2>1. NoPass \in [now : 0..MaxTime, ends : [Events -> Ends \cup {0}],
                    step : {"next", "off", "read"}, took : SUBSET Pods]
        BY EffectsAssumption DEF NoPass
  <2> DEFINE ends == [pass.ends EXCEPT ![e] = 0]
  <2>2. ends \in [Events -> Ends \cup {0}]
        BY <1>4 DEF PassTyped
  <2> DEFINE left == [pass EXCEPT !.ends = ends, !.step = "next", !.took = {}]
  <2>3. PassGoesOn(e) => pass' = NoPass \/ pass' = left
        BY DEF PassGoesOn
  <2> HIDE DEF ends
  <2>4. left \in [now : 0..MaxTime, ends : [Events -> Ends \cup {0}],
                  step : {"next", "off", "read"}, took : SUBSET Pods]
        BY <1>4, <2>2 DEF PassTyped
  <2> HIDE DEF left
  <2>5. QED
        BY <2>1, <2>3, <2>4 DEF PassTyped
<1>6. CASE PassReasserts(e)
  <2>1. PICK reached \in SUBSET Pods : SetPods(reached, "on")
        BY <1>6 DEF PassReasserts
  <2>2. pods' \in [Pods -> {"base", "on"}] /\ alerted' \in BOOLEAN
        BY <1>4, <2>1, SetPodsTyped, SetPodsAlerts
  <2>3. QED
        BY <1>4, <1>5, <1>6, <2>2 DEF PassReasserts, FilesTyped
<1>7. CASE PassSkips(e)
      BY <1>4, <1>5, <1>7 DEF PassSkips, FilesTyped
<1>8. CASE PassClosesWindow(e)
      BY <1>4, <1>8 DEF PassClosesWindow, FilesTyped, PassTyped
<1>9. CASE PassSetsOff(e)
  <2>1. PICK reached \in SUBSET Pods :
           SetPods(reached, "base") /\ pass' = [pass EXCEPT !.step = "read", !.took = reached]
        BY <1>9 DEF PassSetsOff
  <2>2. pods' \in [Pods -> {"base", "on"}] /\ alerted' \in BOOLEAN
        BY <1>4, <2>1, SetPodsTyped, SetPodsAlerts
  <2>3. PassTyped'
        BY <1>4, <2>1 DEF PassTyped
  <2>4. QED
        BY <1>4, <1>9, <2>2, <2>3 DEF PassSetsOff, FilesTyped
<1>10. CASE PassReadsOff(e)
  <2>1. record' \in [Events -> [Phases -> Results]]
    <3>1. CASE record' = [record EXCEPT ![e]["end"] = "ok"]
          BY <1>4, <3>1 DEF FilesTyped, Results, Phases
    <3>2. CASE record' = [record EXCEPT ![e]["end"] = "failed"]
          BY <1>4, <3>2 DEF FilesTyped, Results, Phases
    <3>3. QED
          BY <1>10, <3>1, <3>2 DEF PassReadsOff
  <2>2. alerted' \in BOOLEAN
        BY <1>4, <1>10 DEF PassReadsOff
  <2>3. QED
        BY <1>4, <1>5, <1>10, <2>1, <2>2 DEF PassReadsOff, FilesTyped
<1>11. QED
       BY <1>6, <1>7, <1>8, <1>9, <1>10 DEF PassStep

\* Nor does a restart of a pod or of the game host.
LEMMA RestartsKeepTypes ==
    ASSUME TInv, HostRestarts \/ \E p \in Pods : PodRestarts(p)
    PROVE  TInv'
<1>1. UNCHANGED <<now, web, record, window>>
      BY DEF HostRestarts, PodRestarts
<1>2. FilesTyped'
      BY <1>1 DEF TInv, TypeOK, FilesTyped
<1>3. SUFFICES /\ UnitsTyped' /\ PassTyped' /\ pods' \in [Pods -> {"base", "on"}]
               /\ alerted' \in BOOLEAN
      BY <1>1, <1>2, WebUntouched DEF TInv, TypeOK
<1>4. UnitsTyped /\ PassTyped /\ pods \in [Pods -> {"base", "on"}] /\ alerted \in BOOLEAN
      BY DEF TInv, TypeOK
<1>5. ASSUME HostRestarts
      PROVE  /\ UnitsTyped' /\ PassTyped' /\ pods' \in [Pods -> {"base", "on"}]
             /\ alerted' \in BOOLEAN
  <2>1. pods' \in [Pods -> {"base", "on"}] /\ alerted' \in BOOLEAN
        BY <1>4, <1>5, SetPodsTyped, SetPodsAlerts DEF HostRestarts
  <2>2. QED
        BY <1>5, <2>1, EffectsAssumption DEF HostRestarts, UnitsTyped, PassTyped, NoPass
<1>6. ASSUME NEW p \in Pods, PodRestarts(p)
      PROVE  /\ UnitsTyped' /\ PassTyped' /\ pods' \in [Pods -> {"base", "on"}]
             /\ alerted' \in BOOLEAN
  <2>1. pods' \in [Pods -> {"base", "on"}] /\ alerted' \in BOOLEAN
        BY <1>4, <1>6, SetPodsTyped, SetPodsAlerts DEF PodRestarts
  <2>2. \A u \in Unit \cup {NoUnit} : [u EXCEPT !.took = @ \ {p}] \in Unit \cup {NoUnit}
    <3>1. \A u \in Unit : [u EXCEPT !.took = @ \ {p}] \in Unit
          BY DEF Unit
    <3>2. [NoUnit EXCEPT !.took = @ \ {p}] = NoUnit
      <4>1. {} \ {p} = {}
            OBVIOUS
      <4>2. QED
            BY <4>1 DEF NoUnit
    <3>3. QED
          BY <3>1, <3>2
  <2>3. UnitsTyped'
    <3> DEFINE without(u) == [u EXCEPT !.took = @ \ {p}]
    <3>1. unit' = [f \in Events |-> [g \in Phases |-> without(unit[f][g])]]
          BY <1>6 DEF PodRestarts
    <3>2. \A u \in Unit \cup {NoUnit} : without(u) \in Unit \cup {NoUnit}
          BY <2>2
    <3> HIDE DEF without
    <3>3. QED
          BY <1>4, <3>1, <3>2 DEF UnitsTyped
  <2>4. PassTyped'
        BY <1>4, <1>6 DEF PodRestarts, PassTyped
  <2>5. QED
        BY <2>1, <2>3, <2>4
<1>7. QED
      BY <1>5, <1>6

\* No step at all breaks the types.
LEMMA NextKeepsTypes ==
    ASSUME TInv, [Next]_vars
    PROVE  TInv'
<1>1. ASSUME NEW e \in Events, Edit(e) \/ Cancel(e)
      PROVE  TInv'
  <2>1. UNCHANGED <<now, tick, host>>
        BY <1>1 DEF Edit, Cancel, AdminWrites
  <2>2. RowsTyped' /\ edits' \in 0..MaxEdits
        BY <1>1, WriteKeepsRows DEF TInv
  <2>3. TickTyped' /\ ReplyFits'
        BY <2>1 DEF TInv, TypeOK, TickTyped, ReplyFits, Todo, Current, Decision, Decide
  <2>4. QED
        BY <2>1, <2>2, <2>3 DEF TInv, TypeOK, host, FilesTyped, UnitsTyped, PassTyped
<1>2. CASE TickBegins
  <2> DEFINE due == {e \in Events : event[e].state \in {"armed", "running"} /\ event[e].win # NONE}
             seen == [e \in due |-> event[e]]
  <2>1. tick' = [now |-> now, seen |-> seen, reply |-> "none"]
        BY <1>2 DEF TickBegins
  <2>2. seen \in [due -> DueRow] /\ due \subseteq Events /\ DOMAIN seen = due
        BY DEF TInv, TypeOK, RowsTyped, DueRow
  <2>3. tick'.now = now /\ tick'.seen = seen /\ tick'.reply = "none"
        BY <2>1
  <2>4. Todo' = due
        BY <2>2, <2>3 DEF Todo
  <2> HIDE DEF seen, due
  <2>5. TickTyped' /\ ReplyFits'
        BY <2>1, <2>2, <2>3, <2>4, IdleTick DEF TInv, TypeOK, TickTyped, Replies
  <2>6. QED
        BY <1>2, <2>5
           DEF TickBegins, TInv, TypeOK, RowsTyped, host, FilesTyped, UnitsTyped, PassTyped
<1>3. CASE TickDies
  <2>1. TickTyped' /\ ReplyFits'
        BY <1>3, IdleTick, EffectsAssumption DEF TickDies, NoTick, TickTyped, Todo, Replies
  <2>2. QED
        BY <1>3, <2>1
           DEF TickDies, TInv, TypeOK, RowsTyped, host, FilesTyped, UnitsTyped, PassTyped
<1>4. CASE PassBegins \/ PassDies
  <2>1. UNCHANGED <<now, web, record, unit, window, pods, alerted>>
        BY <1>4 DEF PassBegins, PassDies
  <2>2. PassTyped'
    <3>1. CASE pass' = NoPass
          BY <3>1, EffectsAssumption DEF NoPass, PassTyped
    <3>2. CASE pass' = [NoPass EXCEPT !.now = now, !.ends = window]
      <4>1. pass' = [now |-> now, ends |-> window, step |-> "next", took |-> {}]
            BY <3>2 DEF NoPass
      <4>2. QED
            BY <4>1 DEF TInv, TypeOK, PassTyped, FilesTyped
    <3>3. QED
          BY <1>4, <3>1, <3>2 DEF PassBegins, PassDies
  <2>3. QED
        BY <2>1, <2>2, WebUntouched DEF TInv, TypeOK, FilesTyped, UnitsTyped
<1>5. CASE Advance
  <2>1. now' \in 0..MaxTime
        BY <1>5, EffectsAssumption DEF Advance, TInv, TypeOK
  <2>2. QED
        BY <1>5, <2>1
           DEF Advance, TInv, TypeOK, web, host, RowsTyped, TickTyped, ReplyFits, Todo, Current,
               Decision, Decide, FilesTyped, UnitsTyped, PassTyped
<1>6. CASE UNCHANGED vars
      BY <1>6
         DEF vars, TInv, TypeOK, web, host, RowsTyped, TickTyped, ReplyFits, Todo, Current,
             Decision, Decide, FilesTyped, UnitsTyped, PassTyped
<1>7. QED
      BY <1>1, <1>2, <1>3, <1>4, <1>5, <1>6, TickKeepsTypes, UnitKeepsTypes, PassKeepsTypes,
         RestartsKeepTypes DEF Next

\* Rows, ticks, files, units and passes always hold values of their kinds
\* (portal_events.effect_*, the job and window files).
THEOREM TypeCorrect == Spec => []TypeOK
<1>1. Init => TInv
      BY InitTypes
<1>2. TInv /\ [Next]_vars => TInv'
      BY NextKeepsTypes
<1>3. TInv => TypeOK
      BY DEF TInv
<1>4. QED
      BY <1>1, <1>2, <1>3, PTL DEF Spec

-----------------------------------------------------------------------------
(* No pod is left on.                                                      *)

\* What answers for pod p while it is on.  A readback that has yet to look
\* answers for the pods that did not take the value.
FileAnswers      == \E e \in Events : window[e] # 0
StartAnswers     == \E e \in Events : unit[e]["start"].step = "readOn"
PutBackAnswers(p) ==
    \E e \in Events, f \in Phases :
       \/ unit[e][f].step = "off"
       \/ unit[e][f].step = "readOff" /\ p \notin unit[e][f].took
PassAnswers(p)   == pass.step = "off" \/ (pass.step = "read" /\ p \notin pass.took)

Answered(p) ==
    alerted \/ FileAnswers \/ StartAnswers \/ PutBackAnswers(p) \/ PassAnswers(p)

EveryPodAnswered == \A p \in Pods : On(p) => Answered(p)

\* A pass has listed no window that is gone, but the one it is closing itself.
ListedIsOpen ==
    \A e \in Listed : window[e] # 0 \/ (pass.step # "next" /\ Turn(e))

CoverInv == TInv /\ EveryPodAnswered /\ ListedIsOpen

\* Nothing is on at first, and nothing listed.
LEMMA InitAnswered == Init => EveryPodAnswered /\ ListedIsOpen
<1>1. Init => Listed = {} /\ \A p \in Pods : ~On(p)
      BY DEF Init, NoPass, Listed, On
<1>2. QED
      BY <1>1 DEF EveryPodAnswered, ListedIsOpen

\* One unit moves, the others stay.
LEMMA StepMoves ==
    ASSUME UnitsTyped, NEW e \in Events, NEW phase \in Phases, unit[e][phase] # NoUnit,
           NEW step, NEW took, ToStep(e, phase, step, took)
    PROVE  /\ unit'[e][phase].step = step /\ unit'[e][phase].took = took
           /\ \A g \in Events, h \in Phases : g # e \/ h # phase => unit'[g][h] = unit[g][h]
<1> DEFINE u == unit[e][phase]
           moved == [u EXCEPT !.step = step, !.took = took]
<1>1. u \in Unit
      BY DEF UnitsTyped
<1>2. unit' = [unit EXCEPT ![e][phase] = moved]
      BY DEF ToStep
<1> HIDE DEF u
<1>3. moved.step = step /\ moved.took = took
      BY <1>1 DEF Unit
<1> HIDE DEF moved
<1>4. QED
      BY <1>2, <1>3 DEF UnitsTyped

\* A unit's end moves that unit alone.
LEMMA FinishMoves ==
    ASSUME UnitsTyped, NEW e \in Events, NEW phase \in Phases, NEW result,
           Finish(e, phase, result)
    PROVE  \A g \in Events, h \in Phases : g # e \/ h # phase => unit'[g][h] = unit[g][h]
BY DEF Finish, UnitsTyped

\* What answers for a pod outlives the move of a unit that does not.
LEMMA OthersAnswer ==
    ASSUME NEW e \in Events, NEW phase \in Phases, NEW p \in Pods,
           Answered(p), UNCHANGED <<window, pass, alerted>>,
           \A g \in Events, h \in Phases : g # e \/ h # phase => unit'[g][h] = unit[g][h],
           unit[e][phase].step \notin {"readOn", "off"},
           unit[e][phase].step = "readOff" => p \in unit[e][phase].took
    PROVE  Answered(p)'
<1>1. StartAnswers => StartAnswers'
      BY DEF StartAnswers, Phases
<1>2. PutBackAnswers(p) => PutBackAnswers(p)'
      BY DEF PutBackAnswers
<1>3. FileAnswers => FileAnswers'
      BY DEF FileAnswers
<1>4. PassAnswers(p) => PassAnswers(p)'
      BY DEF PassAnswers
<1>5. alerted => alerted'
      OBVIOUS
<1>6. QED
      BY <1>1, <1>2, <1>3, <1>4, <1>5 DEF Answered

\* A pod that is on after its setting was put back was not reached.
LEMMA NotReached ==
    ASSUME NEW reached \in SUBSET Pods, NEW p \in Pods, SetPods(reached, "base"), On(p)'
    PROVE  p \notin reached /\ On(p)
BY DEF SetPods, On

\* A readback of the value of record leaves no pod on that did not take it.
LEMMA AllTook ==
    ASSUME NEW took \in SUBSET Pods, NEW p \in Pods, ReadsBack(took, "base"), On(p)
    PROVE  p \in took
BY DEF ReadsBack, On

\* A unit leaves every pod that is on answered for.
LEMMA UnitKeepsAnswers ==
    ASSUME CoverInv, "passOverlap" \notin Faults, NEW e \in Events, UnitStep(e)
    PROVE  EveryPodAnswered' /\ ListedIsOpen'
<1>1. UnitsTyped /\ "start" \in Phases /\ "end" \in Phases
      BY DEF CoverInv, TInv, TypeOK, Phases
<1>2. \A f \in Phases : unit[e][f].step # "none" => unit[e][f] # NoUnit /\ unit[e][f] \in Unit
      BY <1>1 DEF NoUnit, UnitsTyped
<1>3. ListedIsOpen'
  <2>1. pass' = pass
        BY DEF UnitStep, UnitChecks, UnitSetsOn, UnitReadsOn, UnitRemovesWindow, UnitSetsOff,
               UnitReadsOff
  <2>2. window' = window \/ pass = NoPass
        BY DEF UnitStep, UnitChecks, UnitSetsOn, UnitReadsOn, UnitRemovesWindow, UnitSetsOff,
               UnitReadsOff, FallsShort, FilesMayChange
  <2>3. pass = NoPass => Listed' = {}
        BY <2>1 DEF Listed, NoPass
  <2>4. window' = window => ListedIsOpen'
        BY <2>1 DEF CoverInv, ListedIsOpen, Listed, Turn
  <2>5. QED
        BY <2>2, <2>3, <2>4 DEF ListedIsOpen
<1>4. SUFFICES ASSUME NEW p \in Pods, On(p)'
               PROVE  Answered(p)'
      BY <1>3 DEF EveryPodAnswered
<1>5. On(p) => Answered(p)
      BY DEF CoverInv, EveryPodAnswered
<1>6. CASE UnitChecks(e)
  <2>1. On(p) /\ UNCHANGED <<window, pass, alerted>>
        BY <1>4, <1>6 DEF UnitChecks, On
  <2>2. unit[e]["start"].step = "check"
        BY <1>6 DEF UnitChecks
  <2>3. CASE ToStep(e, "start", "on", {})
    <3>1. \A g \in Events, h \in Phases : g # e \/ h # "start" => unit'[g][h] = unit[g][h]
          BY <1>1, <1>2, <2>2, <2>3, StepMoves
    <3>2. QED
          BY <1>1, <1>5, <2>1, <2>2, <3>1, OthersAnswer
  <2>4. CASE Finish(e, "start", "failed")
    <3>1. \A g \in Events, h \in Phases : g # e \/ h # "start" => unit'[g][h] = unit[g][h]
          BY <1>1, <2>4, FinishMoves
    <3>2. QED
          BY <1>1, <1>5, <2>1, <2>2, <3>1, OthersAnswer
  <2>5. QED
        BY <1>6, <2>3, <2>4 DEF UnitChecks
<1>7. CASE UnitSetsOn(e)
  <2>1. PICK reached \in SUBSET Pods : ToStep(e, "start", "readOn", reached)
        BY <1>7 DEF UnitSetsOn
  <2>2. unit'[e]["start"].step = "readOn"
        BY <1>1, <1>2, <1>7, <2>1, StepMoves DEF UnitSetsOn
  <2>3. QED
        BY <2>2 DEF Answered, StartAnswers
<1>8. CASE UnitReadsOn(e)
  <2>1. CASE FallsShort(e)
    <3>1. unit'[e]["start"].step = "off"
          BY <1>1, <1>2, <1>8, <2>1, StepMoves DEF UnitReadsOn, FallsShort
    <3>2. QED
          BY <1>1, <3>1 DEF Answered, PutBackAnswers
  <2>2. CASE window' = [window EXCEPT ![e] = unit[e]["start"].ends]
    <3>1. unit[e]["start"].ends # 0
          BY <1>1, <1>2, <1>8, WindowTypes DEF UnitReadsOn, Unit
    <3>2. window'[e] # 0
          BY <2>2, <3>1 DEF CoverInv, TInv, TypeOK, FilesTyped
    <3>3. QED
          BY <3>2 DEF Answered, FileAnswers
  <2>3. QED
        BY <1>8, <2>1, <2>2 DEF UnitReadsOn
<1>9. CASE UnitRemovesWindow(e)
  <2>1. unit'[e]["end"].step = "off"
        BY <1>1, <1>2, <1>9, StepMoves DEF UnitRemovesWindow
  <2>2. QED
        BY <1>1, <2>1 DEF Answered, PutBackAnswers
<1>10. ASSUME NEW f \in Phases, UnitSetsOff(e, f)
       PROVE  Answered(p)'
  <2>1. PICK reached \in SUBSET Pods : SetPods(reached, "base") /\ ToStep(e, f, "readOff", reached)
        BY <1>10 DEF UnitSetsOff
  <2>2. p \notin reached
        BY <1>4, <2>1, NotReached
  <2>3. unit'[e][f].step = "readOff" /\ unit'[e][f].took = reached
        BY <1>1, <1>2, <1>10, <2>1, StepMoves DEF UnitSetsOff
  <2>4. QED
        BY <2>2, <2>3 DEF Answered, PutBackAnswers
<1>11. ASSUME NEW f \in Phases, UnitReadsOff(e, f)
       PROVE  Answered(p)'
  <2>1. On(p) /\ UNCHANGED <<window, pass>> /\ unit[e][f].step = "readOff"
        BY <1>4, <1>11 DEF UnitReadsOff, On
  <2>2. CASE alerted' = \E q \in Pods : On(q)
        BY <2>1, <2>2 DEF Answered
  <2>3. CASE ReadsBack(unit[e][f].took, "base") /\ UNCHANGED alerted
    <3>1. unit[e][f].took \in SUBSET Pods
          BY <1>2, <2>1 DEF Unit
    <3>2. p \in unit[e][f].took
          BY <2>1, <2>3, <3>1, AllTook
    <3>3. PICK result : Finish(e, f, result)
          BY <1>11 DEF UnitReadsOff
    <3>4. \A g \in Events, h \in Phases : g # e \/ h # f => unit'[g][h] = unit[g][h]
          BY <1>1, <3>3, FinishMoves
    <3>5. QED
          BY <1>5, <2>1, <2>3, <3>2, <3>4, OthersAnswer
  <2>4. QED
        BY <1>11, <2>2, <2>3 DEF UnitReadsOff
<1>12. QED
       BY <1>6, <1>7, <1>8, <1>9, <1>10, <1>11 DEF UnitStep

\* A pass leaves every pod that is on answered for.
LEMMA PassKeepsAnswers ==
    ASSUME CoverInv, NEW e \in Events, PassStep(e)
    PROVE  EveryPodAnswered' /\ ListedIsOpen'
<1>1. PassTyped /\ Turn(e) /\ UNCHANGED unit
      BY DEF CoverInv, TInv, TypeOK, PassStep, PassReasserts, PassSkips, PassClosesWindow,
             PassSetsOff, PassReadsOff
<1>2. \A f \in Listed : f # e => window[f] # 0
  <2>1. \A f \in Events : Turn(f) => f = e
        BY <1>1, EffectsAssumption DEF Turn, Listed
  <2>2. QED
        BY <2>1 DEF CoverInv, ListedIsOpen, Listed
<1>3. ASSUME PassGoesOn(e), UNCHANGED window
      PROVE  ListedIsOpen'
  <2>1. Listed' \subseteq Listed \ {e}
    <3>1. CASE pass' = NoPass
          BY <3>1 DEF Listed, NoPass
    <3>2. CASE pass' # NoPass
      <4>1. pass'.ends = [pass.ends EXCEPT ![e] = 0]
            BY <1>1, <1>3, <3>2 DEF PassGoesOn, PassTyped
      <4>2. QED
            BY <1>1, <4>1 DEF Listed, PassTyped
    <3>3. QED
          BY <3>1, <3>2
  <2>2. QED
        BY <1>2, <1>3, <2>1 DEF ListedIsOpen
<1>4. \A p \in Pods : /\ On(p) => Answered(p)
                      /\ StartAnswers' = StartAnswers /\ PutBackAnswers(p)' = PutBackAnswers(p)
      BY <1>1 DEF CoverInv, EveryPodAnswered, StartAnswers, PutBackAnswers
<1>5. CASE PassReasserts(e)
  <2>1. window[e] # 0 /\ window' = window
        BY <1>1, <1>5 DEF CoverInv, ListedIsOpen, PassReasserts, Turn
  <2>2. EveryPodAnswered'
        BY <2>1 DEF EveryPodAnswered, Answered, FileAnswers
  <2>3. QED
        BY <1>3, <1>5, <2>1, <2>2 DEF PassReasserts
<1>6. CASE PassSkips(e)
  <2>1. ASSUME NEW p \in Pods, On(p)'
        PROVE  Answered(p)'
    <3>1. On(p) /\ ~PassAnswers(p)
          BY <1>6, <2>1 DEF PassSkips, On, PassAnswers
    <3>2. FileAnswers' = FileAnswers /\ alerted' = alerted
          BY <1>6 DEF PassSkips, FileAnswers
    <3>3. QED
          BY <1>4, <3>1, <3>2 DEF Answered
  <2>2. QED
        BY <1>3, <1>6, <2>1 DEF PassSkips, EveryPodAnswered
<1>7. CASE PassClosesWindow(e)
  <2>1. pass'.step = "off" /\ pass'.ends = pass.ends
        BY <1>1, <1>7 DEF PassClosesWindow, PassTyped
  <2>2. EveryPodAnswered'
        BY <2>1 DEF EveryPodAnswered, Answered, PassAnswers
  <2>3. Listed' = Listed /\ Turn(e)'
        BY <1>1, <2>1 DEF Listed, Turn
  <2>4. \A f \in Listed : f # e => window'[f] # 0
        BY <1>2, <1>7 DEF PassClosesWindow, Listed, CoverInv, TInv, TypeOK, FilesTyped
  <2>5. QED
        BY <2>1, <2>2, <2>3, <2>4 DEF ListedIsOpen
<1>8. CASE PassSetsOff(e)
  <2>1. PICK reached \in SUBSET Pods :
           SetPods(reached, "base") /\ pass' = [pass EXCEPT !.step = "read", !.took = reached]
        BY <1>8 DEF PassSetsOff
  <2>2. pass'.step = "read" /\ pass'.took = reached /\ pass'.ends = pass.ends
        BY <1>1, <2>1 DEF PassTyped
  <2>3. EveryPodAnswered'
        BY <2>1, <2>2, NotReached DEF EveryPodAnswered, Answered, PassAnswers
  <2>4. Listed' = Listed /\ Turn(e)' /\ window' = window
        BY <1>1, <1>8, <2>2 DEF Listed, Turn, PassSetsOff
  <2>5. QED
        BY <1>2, <2>2, <2>3, <2>4 DEF ListedIsOpen
<1>9. CASE PassReadsOff(e)
  <2>1. ASSUME NEW p \in Pods, On(p)'
        PROVE  Answered(p)'
    <3>1. On(p) /\ pass.step = "read" /\ FileAnswers' = FileAnswers
          BY <1>9, <2>1 DEF PassReadsOff, On, FileAnswers
    <3>2. CASE alerted' = \E q \in Pods : On(q)
          BY <3>1, <3>2 DEF Answered
    <3>3. CASE ReadsBack(pass.took, "base") /\ UNCHANGED alerted
      <4>1. p \in pass.took
            BY <1>1, <3>1, <3>3, AllTook DEF PassTyped
      <4>2. ~PassAnswers(p)
            BY <3>1, <4>1 DEF PassAnswers
      <4>3. QED
            BY <1>4, <3>1, <3>3, <4>2 DEF Answered
    <3>4. QED
          BY <1>9, <3>2, <3>3 DEF PassReadsOff
  <2>2. QED
        BY <1>3, <1>9, <2>1 DEF PassReadsOff, EveryPodAnswered
<1>10. QED
       BY <1>5, <1>6, <1>7, <1>8, <1>9 DEF PassStep

\* A restarted pod is off; the readbacks have one pod less that took the value.
LEMMA RestartsKeepAnswers ==
    ASSUME CoverInv, HostRestarts \/ \E p \in Pods : PodRestarts(p)
    PROVE  EveryPodAnswered' /\ ListedIsOpen'
<1>1. CASE HostRestarts
  <2>1. Listed' = {} /\ \A p \in Pods : ~On(p)'
        BY <1>1 DEF HostRestarts, SetPods, On, Listed, NoPass
  <2>2. QED
        BY <2>1 DEF EveryPodAnswered, ListedIsOpen
<1>2. ASSUME NEW p \in Pods, PodRestarts(p)
      PROVE  EveryPodAnswered' /\ ListedIsOpen'
  <2>1. UnitsTyped /\ PassTyped
        BY DEF CoverInv, TInv, TypeOK
  <2>2. /\ pass'.ends = pass.ends /\ pass'.step = pass.step
        /\ pass'.took \subseteq pass.took /\ window' = window
        BY <1>2, <2>1 DEF PodRestarts, PassTyped
  <2>3. \A e \in Events, f \in Phases :
           unit'[e][f].step = unit[e][f].step /\ unit'[e][f].took \subseteq unit[e][f].took
    <3> TAKE e \in Events, f \in Phases
    <3> DEFINE u == unit[e][f]
    <3>1. unit'[e][f] = [u EXCEPT !.took = @ \ {p}]
          BY <1>2 DEF PodRestarts
    <3>2. u \in Unit \cup {NoUnit}
          BY <2>1 DEF UnitsTyped
    <3> HIDE DEF u
    <3>3. [u EXCEPT !.took = @ \ {p}].step = u.step /\ [u EXCEPT !.took = @ \ {p}].took \subseteq u.took
          BY <3>2 DEF Unit, NoUnit
    <3>4. QED
          BY <3>1, <3>3 DEF u
  <2>4. ASSUME NEW q \in Pods, On(q)'
        PROVE  Answered(q)'
    <3>1. SetPods({p}, "base") /\ {p} \in SUBSET Pods
          BY <1>2 DEF PodRestarts
    <3>2. On(q) /\ (alerted => alerted')
          BY <2>4, <3>1, NotReached DEF SetPods, On
    <3>3. Answered(q)
          BY <3>2 DEF CoverInv, EveryPodAnswered
    <3>4. StartAnswers => StartAnswers'
          BY <2>3 DEF StartAnswers, Phases
    <3>5. PutBackAnswers(q) => PutBackAnswers(q)'
          BY <2>3 DEF PutBackAnswers
    <3>6. FileAnswers => FileAnswers'
          BY <2>2 DEF FileAnswers
    <3>7. PassAnswers(q) => PassAnswers(q)'
          BY <2>2 DEF PassAnswers
    <3>8. QED
          BY <3>2, <3>3, <3>4, <3>5, <3>6, <3>7 DEF Answered
  <2>5. ListedIsOpen'
        BY <2>2 DEF CoverInv, ListedIsOpen, Listed, Turn
  <2>6. QED
        BY <2>4, <2>5 DEF EveryPodAnswered
<1>3. QED
      BY <1>1, <1>2

\* A launch takes the place of no unit that answers for a pod, and the rest of the
\* web host does not reach the pods.
LEMMA WebKeepsAnswers ==
    ASSUME CoverInv, UNCHANGED <<window, pods, pass, alerted>>,
           \A e \in Events, f \in Phases : unit[e][f] = NoUnit \/ unit'[e][f] = unit[e][f]
    PROVE  EveryPodAnswered' /\ ListedIsOpen'
<1>1. ASSUME NEW p \in Pods, On(p)'
      PROVE  Answered(p)'
  <2>1. Answered(p)
        BY <1>1 DEF On, CoverInv, EveryPodAnswered
  <2>2. StartAnswers => StartAnswers'
        BY DEF StartAnswers, NoUnit, Phases
  <2>3. PutBackAnswers(p) => PutBackAnswers(p)'
        BY DEF PutBackAnswers, NoUnit
  <2>4. FileAnswers' = FileAnswers /\ PassAnswers(p)' = PassAnswers(p)
        BY DEF FileAnswers, PassAnswers
  <2>5. QED
        BY <2>1, <2>2, <2>3, <2>4 DEF Answered
<1>2. ListedIsOpen'
      BY DEF CoverInv, ListedIsOpen, Listed, Turn
<1>3. QED
      BY <1>1, <1>2 DEF EveryPodAnswered

\* No step at all leaves a pod on that nothing answers for.
LEMMA NextKeepsAnswers ==
    ASSUME CoverInv, [Next]_vars, "passOverlap" \notin Faults, "passKilled" \notin Faults
    PROVE  CoverInv'
<1>1. TInv'
      BY NextKeepsTypes DEF CoverInv
<1>2. SUFFICES EveryPodAnswered' /\ ListedIsOpen'
      BY <1>1 DEF CoverInv
<1>3. ASSUME NEW e \in Events, TickLaunches(e)
      PROVE  EveryPodAnswered' /\ ListedIsOpen'
  <2>1. UNCHANGED <<window, pods, pass, alerted>>
        BY <1>3 DEF TickLaunches
  <2>2. \A g \in Events, f \in Phases : unit[g][f] = NoUnit \/ unit'[g][f] = unit[g][f]
    <3>1. CASE UNCHANGED unit
          BY <3>1
    <3>2. CASE ~Active(e, Decision(e)) /\ Starts(e, Decision(e))
          BY <3>2 DEF Active, Starts, CoverInv, TInv, TypeOK, UnitsTyped
    <3>3. QED
          BY <1>3, <3>1, <3>2 DEF TickLaunches
  <2>3. QED
        BY <2>1, <2>2, WebKeepsAnswers
<1>4. CASE UNCHANGED <<unit, window, pods, pass, alerted>>
      BY <1>4, WebKeepsAnswers
<1>5. ASSUME NEW e \in Events,
             Edit(e) \/ Cancel(e) \/ TickDecides(e) \/ TickPolls(e) \/ TickRecords(e)
      PROVE  UNCHANGED <<unit, window, pods, pass, alerted>>
      BY <1>5 DEF Edit, Cancel, AdminWrites, TickDecides, TickPolls, TickRecords, host
<1>6. CASE TickBegins \/ TickDies \/ Advance \/ UNCHANGED vars
      BY <1>4, <1>6 DEF TickBegins, TickDies, Advance, vars, host
<1>7. CASE PassBegins
  <2>1. pass = NoPass /\ pass' = [NoPass EXCEPT !.now = now, !.ends = window]
        BY <1>7 DEF PassBegins
  <2>2. pass'.ends = window /\ pass'.step = "next"
        BY <2>1 DEF NoPass
  <2>3. UNCHANGED <<unit, window, pods, alerted>>
        BY <1>7 DEF PassBegins
  <2>4. ListedIsOpen'
        BY <2>2, <2>3 DEF ListedIsOpen, Listed
  <2>5. ASSUME NEW p \in Pods, On(p)'
        PROVE  Answered(p)'
    <3>1. Answered(p) /\ ~PassAnswers(p)
          BY <2>1, <2>3, <2>5 DEF On, CoverInv, EveryPodAnswered, PassAnswers, NoPass
    <3>2. QED
          BY <2>3, <3>1 DEF Answered, FileAnswers, StartAnswers, PutBackAnswers
  <2>6. QED
        BY <2>4, <2>5 DEF EveryPodAnswered
<1>8. ~PassDies
      BY DEF PassDies
<1>9. QED
      BY <1>3, <1>4, <1>5, <1>6, <1>7, <1>8, UnitKeepsAnswers, PassKeepsAnswers,
         RestartsKeepAnswers DEF Next, TickStep

\* Whatever the web host, the ssh, the pods and the host's restarts do, no pod is
\* left on, provided a pass of the assert timer neither overlaps a change of a window
\* file nor is killed half way (run_live, do_assert; see OnIsCovered).
THEOREM Covered ==
    ASSUME "passOverlap" \notin Faults, "passKilled" \notin Faults
    PROVE  Spec => []OnIsCovered
<1>1. Init => CoverInv
      BY InitTypes, InitAnswered DEF CoverInv
<1>2. CoverInv /\ [Next]_vars => CoverInv'
      BY NextKeepsAnswers
<1>3. CoverInv => OnIsCovered
  <2> SUFFICES ASSUME CoverInv, NEW p \in Pods, On(p)
               PROVE  OnIsCovered
      BY DEF OnIsCovered
  <2>1. Answered(p)
        BY DEF CoverInv, EveryPodAnswered
  <2>2. QED
        BY <2>1 DEF Answered, FileAnswers, StartAnswers, PutBackAnswers, PassAnswers, OnIsCovered
<1>4. QED
      BY <1>1, <1>2, <1>3, PTL DEF Spec

=============================================================================
