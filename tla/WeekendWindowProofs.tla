------------------------ MODULE WeekendWindowProofs ------------------------
(***************************************************************************)
(* While a row is running, the game host holds the very window the row     *)
(* says: for every set of events, pods and windows, whatever the ssh       *)
(* refuses, the passes overlap and the restarts interrupt, provided        *)
(*   - the runner hears of a launch that succeeded (no "lostAnswer"), a    *)
(*     unit is done before its job is given up ("slowUnit"), and no admin  *)
(*     writes during a tick ("editRace");                                  *)
(*   - no window is opened after the dead-man of another may have come:    *)
(*     the ends of all windows lie within the grace of each other.         *)
(* Each is needed: effects_drift shows it of the first.                    *)
(***************************************************************************)
EXTENDS WeekendEffectsProofs

-----------------------------------------------------------------------------
(* The inductive invariant                                                 *)

\* Some window has not ended: no dead-man can have come yet.
Open == \E w \in Windows : now < w.ends

WithinGrace == \A v \in Windows, w \in Windows : v.ends <= w.ends + Grace

\* The unit of a phase was asked for: the row says so, or the answer is about to.
Launched(e)   == Current(e) /\ tick.reply = "launched"
Started(e, f) == event[e].job = f \/ (Launched(e) /\ Decision(e) = f)

\* A row that runs and that nothing is about to end.
Held(e) == event[e].state = "running" /\ event[e].job = "none" /\ ~Launched(e)

\* The rows are as the tick read them, and clocks that were read lie behind.
TickSees ==
    /\ \A e \in Todo : event[e] = tick.seen[e]
    /\ tick.now <= now /\ (tick # NoTick => now <= tick.now + 1)
    /\ pass.now <= now

\* An answer of the host is still true when the row is written.
AnswersHold ==
    \A e \in Events : Current(e) =>
        /\ tick.reply = "refused" => Decision(e) \in Phases
        /\ tick.reply = "ok" =>
              Decision(e) = "poll" /\ record[e][tick.seen[e].job] = "ok"
        /\ tick.reply = "failed" =>
              Decision(e) = "poll" /\ record[e][tick.seen[e].job] # "running"

\* A unit at work was asked for not long ago and has no result yet, and a start
\* carries the end of its row's window.
UnitsWork ==
    \A e \in Events, f \in Phases : Active(e, f) =>
        /\ Started(e, f) /\ record[e][f] = "running"
        /\ event[e].job = f => now <= event[e].at + 1
        /\ f = "start" => unit[e][f].ends = event[e].win.ends

\* A start that succeeded has left the window, though the row may not know yet.
StartsHold ==
    \A e \in Events :
        Started(e, "start") /\ record[e]["start"] = "ok" => window[e] = event[e].win.ends

RowsHold == \A e \in Events : Held(e) => window[e] = event[e].win.ends

OpenInv == pass.step = "next" /\ AnswersHold /\ UnitsWork /\ StartsHold /\ RowsHold

WindowInv == TInv /\ TickSees /\ (Open => OpenInv)

Orderly ==
    /\ "lostAnswer" \notin Faults /\ "slowUnit" \notin Faults /\ "editRace" \notin Faults
    /\ JobTimeout # 0 /\ WithinGrace

-----------------------------------------------------------------------------
(* Ticks                                                                   *)

\* No tick and no pass have seen nothing.
LEMMA NoTickSees ==
    /\ NoTick.now = 0 /\ NoTick.reply = "none" /\ DOMAIN NoTick.seen = {}
    /\ NoPass.now = 0 /\ NoPass.step = "next"
BY DEF NoTick, NoPass

\* Without a tick there is no current row.
LEMMA IdleHasNoRow ==
    ASSUME tick = NoTick
    PROVE  Todo = {} /\ \A e \in Events : ~Current(e)
BY NoTickSees DEF Todo, Current

\* A row is launched or ended only when no job is on its way.
LEMMA FreeToLaunch ==
    ASSUME TInv, TickSees, NEW e \in Events, Current(e), Decision(e) \in Phases
    PROVE  event[e] = tick.seen[e] /\ event[e].job = "none"
<1>1. event[e] = tick.seen[e]
      BY DEF TickSees, Current
<1>2. tick.seen[e].job = "none"
      BY DEF Decision, Decide, Phases
<1>3. QED
      BY <1>1, <1>2

\* At most one phase of an event has been asked for.
LEMMA OneJob ==
    ASSUME TInv, TickSees, NEW e \in Events, NEW f \in Phases, NEW g \in Phases,
           Started(e, f), Started(e, g)
    PROVE  f = g
<1>1. Launched(e) /\ Decision(e) \in Phases => event[e].job = "none"
      BY FreeToLaunch DEF Launched
<1>2. "none" \notin Phases
      BY DEF Phases
<1>3. QED
      BY <1>1, <1>2 DEF Started

\* A row with a unit at work is not one that only runs.
LEMMA WorkIsNotHeld ==
    ASSUME NEW e \in Events, NEW f \in Phases, Started(e, f)
    PROVE  ~Held(e)
BY DEF Started, Held, Phases

\* The web host moves on: what it has asked for keeps its window and its time.
LEMMA WebMoves ==
    ASSUME OpenInv, UNCHANGED <<now, record, unit, window>>,
           \A g \in Events :
              /\ Started(g, "start")' => Started(g, "start")
              /\ Held(g)' => Held(g) \/ window[g] = event[g].win.ends
              /\ \/ event'[g].win = event[g].win
                 \/ ~Held(g)' /\ \A f \in Phases : ~Started(g, f)'
              /\ \A f \in Phases : Active(g, f) =>
                    Started(g, f)' /\ (event'[g].job = f => now <= event'[g].at + 1)
    PROVE  UnitsWork' /\ StartsHold' /\ RowsHold'
<1>0. "start" \in Phases
      BY DEF Phases
<1>1. UnitsWork'
  <2> SUFFICES ASSUME NEW g \in Events, NEW f \in Phases, Active(g, f)'
               PROVE  /\ Started(g, f)' /\ record'[g][f] = "running"
                      /\ event'[g].job = f => now' <= event'[g].at + 1
                      /\ f = "start" => unit'[g][f].ends = event'[g].win.ends
      BY DEF UnitsWork
  <2>1. Active(g, f)
        BY DEF Active
  <2>2. /\ record[g][f] = "running"
        /\ f = "start" => unit[g][f].ends = event[g].win.ends
        BY <2>1 DEF OpenInv, UnitsWork
  <2>3. Started(g, f)' /\ (event'[g].job = f => now <= event'[g].at + 1)
        BY <2>1
  <2>4. event'[g].win = event[g].win
        BY <2>3
  <2>5. QED
        BY <2>2, <2>3, <2>4
<1>2. StartsHold'
  <2> SUFFICES ASSUME NEW g \in Events, Started(g, "start")', record'[g]["start"] = "ok"
               PROVE  window'[g] = event'[g].win.ends
      BY DEF StartsHold
  <2>1. Started(g, "start") /\ event'[g].win = event[g].win
        BY <1>0
  <2>2. QED
        BY <2>1 DEF OpenInv, StartsHold
<1>3. RowsHold'
  <2> SUFFICES ASSUME NEW g \in Events, Held(g)'
               PROVE  window'[g] = event'[g].win.ends
      BY DEF RowsHold
  <2>1. event'[g].win = event[g].win
        OBVIOUS
  <2>2. QED
        BY <2>1 DEF OpenInv, RowsHold
<1>4. QED
      BY <1>1, <1>2, <1>3

\* An admin writes between two ticks, and never moves the window of a row in flight.
LEMMA AdminKeepsWindows ==
    ASSUME WindowInv, Orderly, NEW e \in Events, Edit(e) \/ Cancel(e)
    PROVE  TickSees' /\ (Open' => OpenInv')
<1>1. PICK row : AdminWrites(e, row) /\ row.job = event[e].job /\ row.at = event[e].at
                 /\ (InFlight(event[e]) => row.win = event[e].win)
                 /\ (row.state = "running" => event[e].state = "running")
  <2>0. event[e] \in Row
        BY DEF WindowInv, TInv, TypeOK, RowsTyped
  <2>1. CASE Edit(e)
    <3>1. PICK status \in {"draft", "published"}, win \in Windows \cup {NONE}, rearm \in BOOLEAN :
             /\ InFlight(event[e]) => win = event[e].win
             /\ AdminWrites(e, [event[e] EXCEPT
                    !.status = status, !.win = win,
                    !.state = StateAfterWrite(event[e], status, win, rearm)])
          BY <2>1 DEF Edit
    <3> DEFINE state == StateAfterWrite(event[e], status, win, rearm)
    <3>2. state = "running" => event[e].state = "running"
          BY DEF StateAfterWrite, InFlight
    <3>3. AdminWrites(e, [event[e] EXCEPT !.status = status, !.win = win, !.state = state])
          BY <3>1
    <3> HIDE DEF state
    <3> DEFINE row == [event[e] EXCEPT !.status = status, !.win = win, !.state = state]
    <3>4. row.job = event[e].job /\ row.at = event[e].at /\ row.win = win /\ row.state = state
          BY <2>0 DEF Row
    <3>5. AdminWrites(e, row)
          BY <3>3
    <3> HIDE DEF row
    <3>6. QED
          BY <3>1, <3>2, <3>4, <3>5
  <2>2. CASE Cancel(e)
    <3> DEFINE state == IF event[e].state = "armed" /\ event[e].job = "none"
                          THEN "none" ELSE event[e].state
               row == [event[e] EXCEPT !.status = "cancelled", !.state = state]
    <3>1. AdminWrites(e, row)
          BY <2>2 DEF Cancel
    <3>2. row.job = event[e].job /\ row.at = event[e].at /\ row.win = event[e].win
          /\ row.state = state
          BY <2>0 DEF Row
    <3>3. state = "running" => event[e].state = "running"
          OBVIOUS
    <3> HIDE DEF row, state
    <3>4. QED
          BY <3>1, <3>2, <3>3
  <2>3. QED
        BY <2>1, <2>2
<1>2. /\ event' = [event EXCEPT ![e] = row] /\ tick = NoTick
      /\ UNCHANGED <<now, tick, record, unit, window, pods, pass, alerted>>
      BY <1>1 DEF AdminWrites, Orderly, host
<1>3. /\ event'[e] = row
      /\ \A g \in Events : g # e => event'[g] = event[g]
      BY <1>2 DEF WindowInv, TInv, TypeOK, RowsTyped
<1>4. Todo = {} /\ Todo' = {} /\ \A g \in Events : ~Current(g) /\ ~Current(g)'
      BY <1>2, IdleHasNoRow DEF Todo, Current
<1>5. TickSees'
      BY <1>2, <1>4 DEF WindowInv, TickSees
<1>6. ASSUME Open'
      PROVE  OpenInv'
  <2>1. OpenInv
        BY <1>2, <1>6 DEF Open, WindowInv
  <2>2. /\ \A g \in Events, f \in Phases : (Started(g, f)' <=> event'[g].job = f)
                                          /\ (Started(g, f) <=> event[g].job = f)
        /\ \A g \in Events : (Held(g)' <=> event'[g].state = "running" /\ event'[g].job = "none")
                             /\ (Held(g) <=> event[g].state = "running" /\ event[g].job = "none")
        BY <1>4 DEF Started, Held, Launched
  <2>3. "start" \in Phases /\ "none" \notin Phases
        BY DEF Phases
  <2>4. ASSUME NEW g \in Events
        PROVE  /\ Started(g, "start")' => Started(g, "start")
               /\ Held(g)' => Held(g)
               /\ \/ event'[g].win = event[g].win
                  \/ ~Held(g)' /\ \A f \in Phases : ~Started(g, f)'
               /\ \A f \in Phases : Active(g, f) =>
                     Started(g, f)' /\ (event'[g].job = f => now <= event'[g].at + 1)
    <3>1. \A f \in Phases : Active(g, f) => event[g].job = f /\ now <= event[g].at + 1
          BY <2>1, <2>2 DEF OpenInv, UnitsWork
    <3>2. event'[g].job = event[g].job /\ event'[g].at = event[g].at
          /\ (event'[g].state = "running" => event[g].state = "running")
          BY <1>1, <1>3
    <3>3. event'[g].win = event[g].win \/ (g = e /\ ~InFlight(event[g]))
          BY <1>1, <1>3
    <3>4. ~InFlight(event[g]) => event[g].state # "running" /\ event[g].job = "none"
          BY DEF InFlight
    <3>5. QED
          BY <2>2, <2>3, <3>1, <3>2, <3>3, <3>4
  <2>5. UnitsWork' /\ StartsHold' /\ RowsHold'
        BY <1>2, <2>1, <2>4, WebMoves
  <2>6. AnswersHold' /\ pass'.step = "next"
        BY <1>2, <1>4, <2>1 DEF AnswersHold, OpenInv
  <2>7. QED
        BY <2>5, <2>6 DEF OpenInv
<1>7. QED
      BY <1>5, <1>6

\* The tick goes on to the next row, or ends: what it has not done yet it still
\* sees as it is.
LEMMA GoesOnSees ==
    ASSUME TInv, TickSees, NEW e \in Events, Current(e), TickGoesOn(e),
           \A g \in Events : g # e => event'[g] = event[g], UNCHANGED <<now, pass>>
    PROVE  TickSees' /\ tick'.reply = "none"
<1>1. CASE Todo = {e}
  <2>1. tick' = NoTick
        BY <1>1 DEF TickGoesOn
  <2>2. Todo' = {} /\ tick'.now = 0 /\ tick'.reply = "none"
        BY <2>1, NoTickSees DEF Todo
  <2>3. QED
        BY <2>1, <2>2, EffectsAssumption DEF TickSees, TInv, TypeOK
<1>2. CASE Todo # {e}
  <2> DEFINE rest == [f \in Todo \ {e} |-> tick.seen[f]]
  <2>1. tick' = [now |-> tick.now, seen |-> rest, reply |-> "none"]
        BY <1>2 DEF TickGoesOn, TInv, TypeOK, TickTyped
  <2>2. tick'.now = tick.now /\ tick'.seen = rest /\ tick'.reply = "none"
        BY <2>1
  <2>3. Todo' = Todo \ {e} /\ \A g \in Todo' : tick'.seen[g] = tick.seen[g]
        BY <2>2 DEF Todo
  <2>4. Todo \subseteq Events
        BY DEF TInv, TypeOK, TickTyped
  <2>5. tick # NoTick
        BY IdleHasNoRow
  <2>6. QED
        BY <2>2, <2>3, <2>4, <2>5 DEF TickSees
<1>3. QED
      BY <1>1, <1>2

\* Once a tick is past its row, or over, nothing is left unanswered.
LEMMA QuietTick ==
    ASSUME tick'.reply = "none"
    PROVE  /\ AnswersHold'
           /\ \A g \in Events, f \in Phases : Started(g, f)' <=> event'[g].job = f
           /\ \A g \in Events :
                Held(g)' <=> event'[g].state = "running" /\ event'[g].job = "none"
BY DEF AnswersHold, Started, Held, Launched

\* A tick that begins sees the rows as they are.
LEMMA TickBeginsKeeps ==
    ASSUME WindowInv, TickBegins
    PROVE  TickSees' /\ (Open' => OpenInv')
<1> DEFINE due == {e \in Events : event[e].state \in {"armed", "running"} /\ event[e].win # NONE}
           seen == [e \in due |-> event[e]]
<1>1. /\ tick = NoTick /\ tick' = [now |-> now, seen |-> seen, reply |-> "none"]
      /\ UNCHANGED <<now, edits, event, record, unit, window, pods, pass, alerted>>
      BY DEF TickBegins, host
<1>2. tick'.now = now /\ tick'.seen = seen /\ tick'.reply = "none"
      BY <1>1
<1>3. Todo' = due /\ \A e \in Todo' : tick'.seen[e] = event[e]
      BY <1>2 DEF Todo
<1>4. TickSees'
      BY <1>1, <1>2, <1>3, EffectsAssumption DEF TickSees, WindowInv, TInv, TypeOK
<1>5. ASSUME Open'
      PROVE  OpenInv'
  <2>1. OpenInv
        BY <1>1, <1>5 DEF Open, WindowInv
  <2>2. \A g \in Events : ~Launched(g)
        BY <1>1, IdleHasNoRow DEF Launched
  <2>3. \A g \in Events : Held(g) <=> event[g].state = "running" /\ event[g].job = "none"
        BY <2>2 DEF Held
  <2>4. \A g \in Events, f \in Phases : Started(g, f) <=> event[g].job = f
        BY <2>2 DEF Started
  <2>5. "start" \in Phases
        BY DEF Phases
  <2>6. \A g \in Events, f \in Phases :
           Active(g, f) => Started(g, f) /\ (event[g].job = f => now <= event[g].at + 1)
        BY <2>1 DEF OpenInv, UnitsWork
  <2>7. \A g \in Events :
           /\ Started(g, "start")' => Started(g, "start")
           /\ Held(g)' => Held(g)
           /\ event'[g].win = event[g].win
           /\ \A f \in Phases : Active(g, f) =>
                 Started(g, f)' /\ (event'[g].job = f => now <= event'[g].at + 1)
        BY <1>1, <1>2, <2>3, <2>4, <2>5, <2>6, QuietTick
  <2>8. UnitsWork' /\ StartsHold' /\ RowsHold'
        BY <1>1, <2>1, <2>7, WebMoves
  <2>9. QED
        BY <1>1, <1>2, <2>1, <2>8, QuietTick DEF OpenInv
<1>6. QED
      BY <1>4, <1>5

\* A tick that dies forgets them.
LEMMA TickDiesKeeps ==
    ASSUME WindowInv, Orderly, TickDies
    PROVE  TickSees' /\ (Open' => OpenInv')
<1>1. /\ tick' = NoTick /\ tick.reply # "launched"
      /\ UNCHANGED <<now, edits, event, record, unit, window, pods, pass, alerted>>
      BY DEF TickDies, host, Orderly
<1>2. Todo' = {} /\ tick'.now = 0 /\ tick'.reply = "none"
      BY <1>1, NoTickSees DEF Todo
<1>3. TickSees'
      BY <1>1, <1>2, EffectsAssumption DEF TickSees, WindowInv, TInv, TypeOK
<1>4. ASSUME Open'
      PROVE  OpenInv'
  <2>1. OpenInv
        BY <1>1, <1>4 DEF Open, WindowInv
  <2>2. \A g \in Events : ~Launched(g)
        BY <1>1 DEF Launched
  <2>3. \A g \in Events : Held(g) <=> event[g].state = "running" /\ event[g].job = "none"
        BY <2>2 DEF Held
  <2>4. \A g \in Events, f \in Phases : Started(g, f) <=> event[g].job = f
        BY <2>2 DEF Started
  <2>5. "start" \in Phases
        BY DEF Phases
  <2>6. \A g \in Events, f \in Phases :
           Active(g, f) => Started(g, f) /\ (event[g].job = f => now <= event[g].at + 1)
        BY <2>1 DEF OpenInv, UnitsWork
  <2>7. \A g \in Events :
           /\ Started(g, "start")' => Started(g, "start")
           /\ Held(g)' => Held(g)
           /\ event'[g].win = event[g].win
           /\ \A f \in Phases : Active(g, f) =>
                 Started(g, f)' /\ (event'[g].job = f => now <= event'[g].at + 1)
        BY <1>1, <1>2, <2>3, <2>4, <2>5, <2>6, QuietTick
  <2>8. UnitsWork' /\ StartsHold' /\ RowsHold'
        BY <1>1, <2>1, <2>7, WebMoves
  <2>9. QED
        BY <1>1, <1>2, <2>1, <2>8, QuietTick DEF OpenInv
<1>5. QED
      BY <1>3, <1>4

\* A job given up for lost has no unit left: units are done before that.
LEMMA TickDecidesKeeps ==
    ASSUME WindowInv, Orderly, NEW e \in Events, TickDecides(e)
    PROVE  TickSees' /\ (Open' => OpenInv')
<1>1. /\ Current(e) /\ tick.reply = "none" /\ TickGoesOn(e)
      /\ UNCHANGED <<now, edits, record, unit, window, pods, pass, alerted>>
      /\ TInv /\ TickSees
      BY DEF TickDecides, host, WindowInv
<1>2. event[e] = tick.seen[e]
      BY <1>1 DEF TickSees, Current
<1>3. \A g \in Events : g # e => event'[g] = event[g]
      BY DEF TickDecides, Transition, WindowInv, TInv, TypeOK, RowsTyped
<1>4. TickSees' /\ tick'.reply = "none"
      BY <1>1, <1>3, GoesOnSees
<1>5. ASSUME Open'
      PROVE  OpenInv'
  <2>1. OpenInv
        BY <1>1, <1>5 DEF Open, WindowInv
  <2>2. \A g \in Events, f \in Phases : Started(g, f) <=> event[g].job = f
        BY <1>1 DEF Started, Launched
  <2>3. \A g \in Events : Held(g) <=> event[g].state = "running" /\ event[g].job = "none"
        BY <1>1 DEF Held, Launched
  <2>4. \A g \in Events, f \in Phases :
           Active(g, f) => event[g].job = f /\ now <= event[g].at + 1
        BY <2>1, <2>2 DEF OpenInv, UnitsWork
  <2>5. CASE event' = event
    <3>1. \A g \in Events :
             /\ Started(g, "start")' => Started(g, "start")
             /\ Held(g)' => Held(g)
             /\ event'[g].win = event[g].win
             /\ \A f \in Phases : Active(g, f) =>
                   Started(g, f)' /\ (event'[g].job = f => now <= event'[g].at + 1)
          BY <1>4, <2>2, <2>3, <2>4, <2>5, QuietTick DEF Phases
    <3>2. UnitsWork' /\ StartsHold' /\ RowsHold'
          BY <1>1, <2>1, <3>1, WebMoves
    <3>3. QED
          BY <1>1, <1>4, <2>1, <3>2, QuietTick DEF OpenInv
  <2>6. CASE event' # event
    <3>1. Decision(e) \in {"missed", "timeout"} /\ Transition(e, GivenUp(e), "none")
          BY <2>6 DEF TickDecides
    <3>2. event[e] \in Row /\ event \in [Events -> Row] /\ tick.now \in Nat /\ now \in Nat
          BY <1>1, EffectsAssumption DEF TInv, TypeOK, RowsTyped, TickTyped
    <3>3. /\ event'[e].job = "none" /\ event'[e].state # "running"
          /\ event'[e].win = event[e].win
      <4>1. event' = [event EXCEPT ![e] = [event[e] EXCEPT
                        !.state = GivenUp(e), !.job = "none", !.at = 0]]
            BY <2>6, <3>1 DEF Transition
      <4>2. GivenUp(e) # "running"
            BY DEF GivenUp
      <4>3. QED
            BY <3>2, <4>1, <4>2 DEF Row
    <3>4. \A f \in Phases : ~Active(e, f)
      <4>1. SUFFICES ASSUME NEW f \in Phases, Active(e, f)
                     PROVE  FALSE
            OBVIOUS
      <4>2. event[e].job = f /\ now <= event[e].at + 1
            BY <2>4, <4>1
      <4>3. tick.now - event[e].at > JobTimeout
            BY <1>2, <3>1, <4>2 DEF Decision, Decide, Phases
      <4>4. event[e].at \in Nat /\ JobTimeout \in Nat /\ JobTimeout # 0 /\ tick.now <= now
            BY <1>1, <3>2, EffectsAssumption DEF Row, Orderly, TickSees
      <4>5. QED
            BY <3>2, <4>2, <4>3, <4>4
    <3>5. \A g \in Events :
             /\ Started(g, "start")' => Started(g, "start")
             /\ Held(g)' => Held(g)
             /\ event'[g].win = event[g].win
             /\ \A f \in Phases : Active(g, f) =>
                   Started(g, f)' /\ (event'[g].job = f => now <= event'[g].at + 1)
      <4>1. SUFFICES ASSUME NEW g \in Events
                     PROVE  /\ event'[g].job = "start" => event[g].job = "start"
                            /\ event'[g].state = "running" /\ event'[g].job = "none" =>
                                  event[g].state = "running" /\ event[g].job = "none"
                            /\ event'[g].win = event[g].win
                            /\ \A f \in Phases : Active(g, f) =>
                                  event'[g].job = f /\ now <= event'[g].at + 1
            BY <1>4, <2>2, <2>3, QuietTick DEF Phases
      <4>2. CASE g = e
            BY <3>3, <3>4, <4>2
      <4>3. CASE g # e
            BY <1>3, <2>4, <4>3
      <4>4. QED
            BY <4>2, <4>3
    <3>6. UnitsWork' /\ StartsHold' /\ RowsHold'
          BY <1>1, <2>1, <3>5, WebMoves
    <3>7. QED
          BY <1>1, <1>4, <2>1, <3>6, QuietTick DEF OpenInv
  <2>7. QED
        BY <2>5, <2>6
<1>6. QED
      BY <1>4, <1>5

\* An answer is written down beside the rows the tick read.
LEMMA ReplySees ==
    ASSUME TInv, TickSees, NEW e \in Events, Current(e), NEW reply,
           tick' = [tick EXCEPT !.reply = reply], UNCHANGED <<now, event, pass>>
    PROVE  /\ TickSees' /\ tick'.reply = reply /\ tick'.seen = tick.seen /\ tick'.now = tick.now
           /\ \A g \in Events : Current(g)' <=> Current(g)
           /\ \A g \in Events : Decision(g)' = Decision(g)
           /\ \A g \in Events : Current(g) => g = e
<1>1. tick' = [now |-> tick.now, seen |-> tick.seen, reply |-> reply]
      BY DEF TInv, TypeOK, TickTyped
<1>2. tick'.now = tick.now /\ tick'.seen = tick.seen /\ tick'.reply = reply
      BY <1>1
<1>3. Todo' = Todo
      BY <1>2 DEF Todo
<1>4. tick # NoTick
      BY IdleHasNoRow
<1>5. TickSees'
      BY <1>2, <1>3, <1>4 DEF TickSees
<1>6. /\ \A g \in Events : Current(g)' <=> Current(g)
      /\ \A g \in Events : Decision(g)' = Decision(g)
      BY <1>2, <1>3 DEF Current, Decision, Decide
<1>7. \A g \in Events : Current(g) => g = e
      BY OneCurrent DEF TInv, TypeOK
<1>8. QED
      BY <1>2, <1>5, <1>6, <1>7

\* A poll reads the record the unit wrote.
LEMMA TickPollsKeeps ==
    ASSUME WindowInv, NEW e \in Events, TickPolls(e)
    PROVE  TickSees' /\ (Open' => OpenInv')
<1>1. /\ Current(e) /\ tick.reply = "none" /\ Decision(e) = "poll"
      /\ UNCHANGED <<now, edits, event, record, unit, window, pods, pass, alerted>>
      /\ TInv /\ TickSees
      BY DEF TickPolls, host, WindowInv
<1> DEFINE result == record[e][tick.seen[e].job]
<1>2. PICK reply \in {"lost", IF result = "none" THEN "failed" ELSE result} :
         tick' = [tick EXCEPT !.reply = reply]
      BY DEF TickPolls
<1>3. result \in Results
  <2>1. tick.seen[e].job \in Phases
    <3>1. tick.seen[e] \in Row /\ Decide(tick.seen[e], tick.now) = "poll"
          BY <1>1 DEF Current, Decision, TInv, TypeOK, TickTyped, DueRow
    <3>2. QED
          BY <3>1 DEF Decide, Row
  <2>2. QED
        BY <1>1, <2>1 DEF TInv, TypeOK, FilesTyped
<1>4. /\ TickSees' /\ tick'.reply = reply /\ tick'.seen = tick.seen
      /\ \A g \in Events : Current(g)' <=> Current(g)
      /\ \A g \in Events : Decision(g)' = Decision(g)
      /\ \A g \in Events : Current(g) => g = e
      BY <1>1, <1>2, ReplySees
<1>5. ASSUME Open'
      PROVE  OpenInv'
  <2>1. OpenInv
        BY <1>1, <1>5 DEF Open, WindowInv
  <2>2. reply # "launched" /\ reply # "refused"
        BY <1>2, <1>3 DEF Results
  <2>3. \A g \in Events : ~Launched(g) /\ ~Launched(g)'
        BY <1>1, <1>4, <2>2 DEF Launched
  <2>4. /\ \A g \in Events, f \in Phases : Started(g, f)' <=> Started(g, f)
        /\ \A g \in Events : Held(g)' <=> Held(g)
        BY <1>1, <2>3 DEF Started, Held
  <2>5. "start" \in Phases
        BY DEF Phases
  <2>6. \A g \in Events :
           /\ Started(g, "start")' => Started(g, "start")
           /\ Held(g)' => Held(g)
           /\ event'[g].win = event[g].win
           /\ \A f \in Phases : Active(g, f) =>
                 Started(g, f)' /\ (event'[g].job = f => now <= event'[g].at + 1)
        BY <1>1, <2>1, <2>4, <2>5 DEF OpenInv, UnitsWork
  <2>7. UnitsWork' /\ StartsHold' /\ RowsHold'
        BY <1>1, <2>1, <2>6, WebMoves
  <2>8. AnswersHold'
    <3> SUFFICES ASSUME NEW g \in Events, Current(g)'
                 PROVE  /\ tick'.reply = "refused" => Decision(g)' \in Phases
                        /\ tick'.reply = "ok" =>
                              Decision(g)' = "poll" /\ record'[g][tick'.seen[g].job] = "ok"
                        /\ tick'.reply = "failed" =>
                              Decision(g)' = "poll" /\ record'[g][tick'.seen[g].job] # "running"
        BY DEF AnswersHold
    <3>1. g = e
          BY <1>4
    <3>2. QED
          BY <1>1, <1>2, <1>4, <2>2, <3>1
  <2>9. QED
        BY <1>1, <2>1, <2>7, <2>8 DEF OpenInv
<1>6. QED
      BY <1>4, <1>5

\* A launch starts a unit that carries the row's own end, with a record that says
\* running; when it does not, no unit was started and none is asked for.
LEMMA TickLaunchesKeeps ==
    ASSUME WindowInv, Orderly, NEW e \in Events, TickLaunches(e)
    PROVE  TickSees' /\ (Open' => OpenInv')
<1> DEFINE phase == Decision(e)
<1>1. /\ Current(e) /\ tick.reply = "none" /\ phase \in Phases
      /\ UNCHANGED <<now, edits, event, window, pods, pass, alerted>>
      /\ TInv /\ TickSees
      BY DEF TickLaunches, WindowInv
<1>2. event[e] = tick.seen[e] /\ event[e].job = "none"
      BY <1>1, FreeToLaunch
<1>3. PICK reply \in {"lost", "refused", "launched"} : tick' = [tick EXCEPT !.reply = reply]
      BY DEF TickLaunches
<1>4. /\ TickSees' /\ tick'.reply = reply /\ tick'.seen = tick.seen
      /\ \A g \in Events : Current(g)' <=> Current(g)
      /\ \A g \in Events : Decision(g)' = Decision(g)
      /\ \A g \in Events : Current(g) => g = e
      BY <1>1, <1>3, ReplySees
<1>5. ASSUME Open'
      PROVE  OpenInv'
  <2>1. OpenInv
        BY <1>1, <1>5 DEF Open, WindowInv
  <2>2. /\ \A g \in Events, f \in Phases : Started(g, f) <=> event[g].job = f
        /\ \A g \in Events : Held(g) <=> event[g].state = "running" /\ event[g].job = "none"
        BY <1>1 DEF Started, Held, Launched
  <2>3. \A f \in Phases : ~Active(e, f)
        BY <1>2, <2>1, <2>2 DEF OpenInv, UnitsWork, Phases
  <2>4. "start" \in Phases /\ "none" \notin Phases /\ phase \in Phases
        BY <1>1 DEF Phases
  <2>5. AnswersHold'
        BY <1>1, <1>4 DEF AnswersHold
  <2>6. CASE Starts(e, phase) /\ reply = "launched"
    <3>1. /\ \A g \in Events, f \in Phases : g # e \/ f # phase =>
                unit'[g][f] = unit[g][f] /\ record'[g][f] = record[g][f]
          /\ record'[e][phase] = "running"
          /\ unit'[e][phase].ends = tick.seen[e].win.ends
          BY <2>4, <2>6 DEF Starts, TInv, TypeOK, UnitsTyped, FilesTyped, WindowInv
    <3>2. \A g \in Events : Launched(g)' <=> g = e
          BY <1>1, <1>4, <2>6 DEF Launched
    <3>3. /\ \A g \in Events, f \in Phases :
                Started(g, f)' <=> event[g].job = f \/ (g = e /\ f = phase)
          /\ \A g \in Events : Held(g)' => g # e /\ Held(g)
          BY <1>1, <1>4, <2>2, <3>2 DEF Started, Held
    <3> HIDE DEF phase
    <3>4. UnitsWork'
      <4> SUFFICES ASSUME NEW g \in Events, NEW f \in Phases, Active(g, f)'
                   PROVE  /\ Started(g, f)' /\ record'[g][f] = "running"
                          /\ event'[g].job = f => now' <= event'[g].at + 1
                          /\ f = "start" => unit'[g][f].ends = event'[g].win.ends
          BY DEF UnitsWork
      <4>1. CASE g = e /\ f = phase
            BY <1>1, <1>2, <2>4, <3>1, <3>3, <4>1
      <4>2. CASE ~(g = e /\ f = phase)
        <5>1. unit'[g][f] = unit[g][f] /\ record'[g][f] = record[g][f]
              BY <3>1, <4>2
        <5>2. Active(g, f)
              BY <5>1 DEF Active
        <5>3. QED
              BY <1>1, <2>1, <2>2, <3>3, <5>1, <5>2 DEF OpenInv, UnitsWork
      <4>3. QED
            BY <4>1, <4>2
    <3>5. StartsHold'
      <4> SUFFICES ASSUME NEW g \in Events, Started(g, "start")', record'[g]["start"] = "ok"
                   PROVE  window'[g] = event'[g].win.ends
          BY DEF StartsHold
      <4>1. ~(g = e /\ phase = "start")
            BY <3>1
      <4>2. record[g]["start"] = "ok"
            BY <2>4, <3>1, <4>1
      <4>3. Started(g, "start")
            BY <2>2, <2>4, <3>3, <4>1
      <4>4. QED
            BY <1>1, <2>1, <4>2, <4>3 DEF OpenInv, StartsHold
    <3>6. RowsHold'
          BY <1>1, <2>1, <3>3 DEF OpenInv, RowsHold
    <3>7. QED
          BY <1>1, <2>1, <2>5, <3>4, <3>5, <3>6 DEF OpenInv
  <2>7. CASE UNCHANGED unit /\ reply # "launched"
    <3>1. \A g \in Events : ~Launched(g)'
          BY <1>4, <2>7 DEF Launched
    <3>2. /\ \A g \in Events, f \in Phases : Started(g, f)' <=> event[g].job = f
          /\ \A g \in Events : Held(g)' <=> Held(g)
          BY <1>1, <2>2, <3>1 DEF Started, Held
    <3>3. \A g \in Events : g # e => record'[g] = record[g]
          BY DEF TickLaunches, Starts, WindowInv, TInv, TypeOK, FilesTyped
    <3>4. \A f \in Phases : ~Active(e, f)'
          BY <2>3, <2>7 DEF Active
    <3>5. UnitsWork'
      <4> SUFFICES ASSUME NEW g \in Events, NEW f \in Phases, Active(g, f)'
                   PROVE  /\ Started(g, f)' /\ record'[g][f] = "running"
                          /\ event'[g].job = f => now' <= event'[g].at + 1
                          /\ f = "start" => unit'[g][f].ends = event'[g].win.ends
          BY DEF UnitsWork
      <4>1. g # e /\ Active(g, f)
            BY <2>7, <3>4 DEF Active
      <4>2. QED
            BY <1>1, <2>1, <2>2, <2>7, <3>2, <3>3, <4>1 DEF OpenInv, UnitsWork
    <3>6. StartsHold'
      <4> SUFFICES ASSUME NEW g \in Events, Started(g, "start")', record'[g]["start"] = "ok"
                   PROVE  window'[g] = event'[g].win.ends
          BY DEF StartsHold
      <4>1. Started(g, "start") /\ g # e
            BY <1>2, <2>2, <2>4, <3>2
      <4>2. QED
            BY <1>1, <2>1, <3>3, <4>1 DEF OpenInv, StartsHold
    <3>7. RowsHold'
          BY <1>1, <2>1, <3>2 DEF OpenInv, RowsHold
    <3>8. QED
          BY <1>1, <2>1, <2>5, <3>5, <3>6, <3>7 DEF OpenInv
  <2>8. \/ Starts(e, phase) /\ reply = "launched"
        \/ UNCHANGED unit /\ reply # "launched"
    <3>1. tick'.reply = reply
          BY <1>4
    <3>2. \A r \in {"lost", "refused", "launched"} : tick' = [tick EXCEPT !.reply = r] => r = reply
      <4>1. \A r \in {"lost", "refused", "launched"} :
               tick' = [tick EXCEPT !.reply = r] => tick'.reply = r
            BY <1>1, ReplySees
      <4>2. QED
            BY <3>1, <4>1
    <3>3. ~Active(e, phase)
          BY <2>3, <2>4
    <3>4. QED
          BY <3>2, <3>3 DEF TickLaunches, Orderly
  <2>9. QED
        BY <2>6, <2>7, <2>8
<1>6. QED
      BY <1>4, <1>5

\* The answer goes into the row as the tick read it: a launch as the job on its
\* way, a start that succeeded as running, anything else as over.
LEMMA TickRecordsKeeps ==
    ASSUME WindowInv, NEW e \in Events, TickRecords(e)
    PROVE  TickSees' /\ (Open' => OpenInv')
<1>1. /\ Current(e) /\ TickGoesOn(e)
      /\ UNCHANGED <<now, edits, record, unit, window, pods, pass, alerted>>
      /\ TInv /\ TickSees
      BY DEF TickRecords, host, WindowInv
<1>2. event[e] = tick.seen[e] /\ event[e] \in Row /\ event \in [Events -> Row]
      BY <1>1 DEF TickSees, Current, TInv, TypeOK, RowsTyped
<1>3. \A g \in Events : g # e => event'[g] = event[g]
      BY <1>2 DEF TickRecords, Transition
<1>4. TickSees' /\ tick'.reply = "none"
      BY <1>1, <1>3, GoesOnSees
<1>5. ASSUME Open'
      PROVE  OpenInv'
  <2>1. OpenInv
        BY <1>1, <1>5 DEF Open, WindowInv
  <2>2. \A g \in Events : Launched(g) => g = e /\ tick.reply = "launched"
        BY <1>1, OneCurrent DEF Launched, TInv, TypeOK
  <2>3. \A g \in Events, f \in Phases :
           Started(g, f) <=> event[g].job = f
                             \/ (g = e /\ tick.reply = "launched" /\ Decision(e) = f)
        BY <1>1, <2>2 DEF Started, Launched
  <2>4. \A g \in Events :
           Held(g) <=> /\ event[g].state = "running" /\ event[g].job = "none"
                       /\ ~(g = e /\ tick.reply = "launched")
        BY <1>1, <2>2 DEF Held, Launched
  <2>5. "start" \in Phases /\ "none" \notin Phases
        BY DEF Phases
  <2>6. SUFFICES /\ event'[e].job = "start" => Started(e, "start")
                 /\ Held(e)' => Held(e) \/ window[e] = event[e].win.ends
                 /\ event'[e].win = event[e].win
                 /\ \A f \in Phases : Active(e, f) =>
                       event'[e].job = f /\ now <= event'[e].at + 1
    <3>1. \A g \in Events :
             /\ Started(g, "start")' => Started(g, "start")
             /\ Held(g)' => Held(g) \/ window[g] = event[g].win.ends
             /\ \/ event'[g].win = event[g].win
                \/ ~Held(g)' /\ \A f \in Phases : ~Started(g, f)'
             /\ \A f \in Phases : Active(g, f) =>
                   Started(g, f)' /\ (event'[g].job = f => now <= event'[g].at + 1)
      <4>1. SUFFICES ASSUME NEW g \in Events, g # e
                     PROVE  /\ Started(g, "start")' => Started(g, "start")
                            /\ Held(g)' => Held(g)
                            /\ event'[g].win = event[g].win
                            /\ \A f \in Phases : Active(g, f) =>
                                  Started(g, f)' /\ (event'[g].job = f => now <= event'[g].at + 1)
            BY <1>4, <2>5, <2>6, QuietTick
      <4>2. event'[g] = event[g]
            BY <1>3, <4>1
      <4>3. \A f \in Phases : Active(g, f) =>
               Started(g, f) /\ (event[g].job = f => now <= event[g].at + 1)
            BY <2>1 DEF OpenInv, UnitsWork
      <4>4. QED
            BY <1>4, <2>3, <2>4, <2>5, <4>1, <4>2, <4>3, QuietTick
    <3>2. UnitsWork' /\ StartsHold' /\ RowsHold'
          BY <1>1, <2>1, <3>1, WebMoves
    <3>3. QED
          BY <1>1, <1>4, <2>1, <3>2, QuietTick DEF OpenInv
  <2>7. \A f \in Phases : Active(e, f) => Started(e, f) /\ record[e][f] = "running"
                             /\ (event[e].job = f => now <= event[e].at + 1)
        BY <2>1 DEF OpenInv, UnitsWork
  <2>8. CASE tick.reply \in {"lost", "running"}
    <3>1. event' = event
          BY <2>8 DEF TickRecords
    <3>2. QED
          BY <1>4, <2>3, <2>4, <2>5, <2>7, <2>8, <3>1, QuietTick
  <2>9. ASSUME NEW state, NEW job, Transition(e, state, job)
        PROVE  /\ event'[e].state = state /\ event'[e].job = job
               /\ event'[e].win = event[e].win
               /\ event'[e].at = IF job = "none" THEN 0 ELSE tick.now
    <3> DEFINE at == IF job = "none" THEN 0 ELSE tick.now
    <3>1. event' = [event EXCEPT ![e] = [event[e] EXCEPT !.state = state, !.job = job, !.at = at]]
          BY <1>2, <2>9 DEF Transition
    <3> HIDE DEF at
    <3>2. QED
          BY <1>2, <3>1 DEF Row, at
  <2>10. CASE tick.reply = "launched"
    <3>1. Transition(e, tick.seen[e].state, Decision(e))
          BY <2>10 DEF TickRecords
    <3>2. Decision(e) \in Phases
          BY <1>1, <2>10 DEF TInv, ReplyFits
    <3>3. event[e].job = "none"
          BY <1>1, <3>2, FreeToLaunch
    <3>4. /\ event'[e].job = Decision(e) /\ event'[e].win = event[e].win
          /\ event'[e].at = tick.now
          BY <2>5, <2>9, <3>1, <3>2
    <3>5. now <= tick.now + 1
      <4>1. tick # NoTick
            BY <1>1, IdleHasNoRow
      <4>2. QED
            BY <1>1, <4>1 DEF TickSees
    <3>6. \A f \in Phases : Active(e, f) => Decision(e) = f
          BY <2>3, <2>5, <2>7, <3>3
    <3>7. ~Held(e)'
          BY <2>5, <3>2, <3>4 DEF Held
    <3>8. QED
          BY <2>3, <2>5, <2>10, <3>4, <3>5, <3>6, <3>7
  <2>11. CASE tick.reply \in {"refused", "failed"}
    <3>1. Transition(e, "failed", "none")
          BY <2>11 DEF TickRecords
    <3>2. event'[e].state = "failed" /\ event'[e].job = "none" /\ event'[e].win = event[e].win
          BY <2>9, <3>1
    <3>3. \A f \in Phases : ~Active(e, f)
      <4>1. CASE tick.reply = "refused"
        <5>1. event[e].job = "none"
              BY <1>1, <2>1, <4>1, FreeToLaunch DEF OpenInv, AnswersHold
        <5>2. QED
              BY <2>3, <2>5, <2>7, <4>1, <5>1
      <4>2. CASE tick.reply = "failed"
        <5>1. record[e][event[e].job] # "running"
              BY <1>1, <1>2, <2>1, <4>2 DEF OpenInv, AnswersHold
        <5>2. QED
              BY <2>3, <2>7, <4>2, <5>1
      <4>3. QED
            BY <2>11, <4>1, <4>2
    <3>4. ~Held(e)'
          BY <3>2 DEF Held
    <3>5. QED
          BY <2>5, <3>2, <3>3, <3>4
  <2>12. CASE tick.reply = "ok"
    <3> DEFINE state == IF tick.seen[e].job = "start" THEN "running" ELSE "done"
    <3>1. Transition(e, state, "none")
          BY <2>12 DEF TickRecords
    <3>2. event'[e].state = state /\ event'[e].job = "none" /\ event'[e].win = event[e].win
          BY <2>9, <3>1
    <3>3. record[e][event[e].job] = "ok"
          BY <1>1, <1>2, <2>1, <2>12 DEF OpenInv, AnswersHold
    <3>4. \A f \in Phases : ~Active(e, f)
          BY <2>3, <2>7, <2>12, <3>3
    <3>5. state = "running" => window[e] = event[e].win.ends
      <4>1. ASSUME event[e].job = "start"
            PROVE  window[e] = event[e].win.ends
            BY <2>1, <2>3, <2>5, <3>3, <4>1 DEF OpenInv, StartsHold
      <4>2. QED
            BY <1>2, <4>1
    <3>6. Held(e)' => state = "running"
          BY <3>2 DEF Held
    <3>7. QED
          BY <2>5, <3>2, <3>4, <3>5, <3>6
  <2>13. QED
    <3>1. tick.reply \in {"lost", "running", "launched", "refused", "failed", "ok"}
          BY DEF TickRecords
    <3>2. QED
          BY <2>8, <2>10, <2>11, <2>12, <3>1
<1>6. QED
      BY <1>4, <1>5

-----------------------------------------------------------------------------
(* The game host                                                           *)

\* What the web host knows is not touched by a step of the game host.
LEMMA HostSees ==
    ASSUME TickSees, UNCHANGED <<now, web>>, pass'.now <= now
    PROVE  /\ TickSees'
           /\ \A g \in Events : (Current(g)' <=> Current(g)) /\ (Held(g)' <=> Held(g))
           /\ \A g \in Events : Decision(g)' = Decision(g)
           /\ \A g \in Events, f \in Phases : Started(g, f)' <=> Started(g, f)
<1>1. UNCHANGED <<now, event, tick>>
      BY DEF web
<1>2. Todo' = Todo
      BY <1>1 DEF Todo
<1>3. TickSees'
      BY <1>1, <1>2 DEF TickSees
<1>4. /\ \A g \in Events : Current(g)' <=> Current(g)
      /\ \A g \in Events : Decision(g)' = Decision(g)
      BY <1>1, <1>2 DEF Current, Decision, Decide
<1>5. QED
      BY <1>1, <1>3, <1>4 DEF Held, Started, Launched

\* One unit moves: it stays at work with its end and a record that says running,
\* or it writes its result, and a start that succeeded its window.
LEMMA UnitMoves ==
    ASSUME WindowInv, OpenInv, NEW e \in Events, NEW f \in Phases, Active(e, f),
           UNCHANGED <<now, web, pass>>,
           \A g \in Events, h \in Phases : g # e \/ h # f =>
              unit'[g][h] = unit[g][h] /\ record'[g][h] = record[g][h],
           \A g \in Events : g # e => window'[g] = window[g],
           Active(e, f)' => unit'[e][f].ends = unit[e][f].ends /\ record'[e][f] = "running",
           f = "start" /\ record'[e][f] = "ok" => window'[e] = event[e].win.ends
    PROVE  TickSees' /\ OpenInv'
<1>1. /\ TInv /\ TickSees /\ event' = event /\ tick' = tick /\ "start" \in Phases
      BY DEF WindowInv, web, Phases
<1>2. /\ TickSees'
      /\ \A g \in Events : (Current(g)' <=> Current(g)) /\ (Held(g)' <=> Held(g))
      /\ \A g \in Events : Decision(g)' = Decision(g)
      /\ \A g \in Events, h \in Phases : Started(g, h)' <=> Started(g, h)
      BY <1>1, HostSees DEF TickSees
<1>3. Started(e, f) /\ record[e][f] = "running" /\ (event[e].job = f => now <= event[e].at + 1)
      /\ (f = "start" => unit[e][f].ends = event[e].win.ends)
      BY DEF OpenInv, UnitsWork
<1>4. UnitsWork'
  <2> SUFFICES ASSUME NEW g \in Events, NEW h \in Phases, Active(g, h)'
               PROVE  /\ Started(g, h)' /\ record'[g][h] = "running"
                      /\ event'[g].job = h => now' <= event'[g].at + 1
                      /\ h = "start" => unit'[g][h].ends = event'[g].win.ends
      BY DEF UnitsWork
  <2>1. CASE g = e /\ h = f
        BY <1>1, <1>2, <1>3, <2>1
  <2>2. CASE ~(g = e /\ h = f)
    <3>1. unit'[g][h] = unit[g][h] /\ record'[g][h] = record[g][h] /\ Active(g, h)
          BY <2>2 DEF Active
    <3>2. QED
          BY <1>1, <1>2, <3>1 DEF OpenInv, UnitsWork
  <2>3. QED
        BY <2>1, <2>2
<1>5. StartsHold'
  <2> SUFFICES ASSUME NEW g \in Events, Started(g, "start")', record'[g]["start"] = "ok"
               PROVE  window'[g] = event'[g].win.ends
      BY DEF StartsHold
  <2>1. Started(g, "start")
        BY <1>1, <1>2
  <2>2. CASE g = e
    <3>1. f = "start"
          BY <1>1, <1>3, <2>1, <2>2, OneJob
    <3>2. QED
          BY <1>1, <2>2, <3>1
  <2>3. CASE g # e
        BY <1>1, <2>1, <2>3 DEF OpenInv, StartsHold
  <2>4. QED
        BY <2>2, <2>3
<1>6. RowsHold'
  <2>1. ~Held(e)
        BY <1>3, WorkIsNotHeld
  <2>2. QED
        BY <1>1, <1>2, <2>1 DEF OpenInv, RowsHold
<1>7. AnswersHold'
  <2> SUFFICES ASSUME NEW g \in Events, Current(g)'
               PROVE  /\ tick'.reply = "refused" => Decision(g)' \in Phases
                      /\ tick'.reply = "ok" =>
                            Decision(g)' = "poll" /\ record'[g][tick'.seen[g].job] = "ok"
                      /\ tick'.reply = "failed" =>
                            Decision(g)' = "poll" /\ record'[g][tick'.seen[g].job] # "running"
      BY DEF AnswersHold
  <2>1. Current(g) /\ Decision(g)' = Decision(g)
        BY <1>2
  <2>2. CASE tick.reply \in {"ok", "failed"}
    <3>1. /\ Decision(g) = "poll" /\ record[g][tick.seen[g].job] # "running"
          /\ tick.reply = "ok" => record[g][tick.seen[g].job] = "ok"
          BY <2>1, <2>2 DEF OpenInv, AnswersHold
    <3>2. tick.seen[g].job \in Phases
      <4>1. tick.seen[g] \in Row
            BY <1>1, <2>1 DEF TInv, TypeOK, TickTyped, Current, DueRow
      <4>2. QED
            BY <3>1, <4>1 DEF Decision, Decide, Row
    <3>3. g # e \/ tick.seen[g].job # f
          BY <1>3, <3>1
    <3>4. record'[g][tick.seen[g].job] = record[g][tick.seen[g].job]
          BY <3>2, <3>3
    <3>5. QED
          BY <1>1, <2>1, <2>2, <3>1, <3>4
  <2>3. CASE tick.reply \notin {"ok", "failed"}
        BY <1>1, <2>1, <2>3 DEF OpenInv, AnswersHold
  <2>4. QED
        BY <2>2, <2>3
<1>8. QED
      BY <1>2, <1>4, <1>5, <1>6, <1>7 DEF OpenInv

\* A unit that goes on to another step keeps its end.
LEMMA StepKeepsEnd ==
    ASSUME UnitsTyped, NEW e \in Events, NEW phase \in Phases, unit[e][phase] # NoUnit,
           NEW step, NEW took, ToStep(e, phase, step, took)
    PROVE  unit'[e][phase].ends = unit[e][phase].ends
<1> DEFINE u == unit[e][phase]
           moved == [u EXCEPT !.step = step, !.took = took]
<1>1. u \in Unit
      BY DEF UnitsTyped
<1>2. unit' = [unit EXCEPT ![e][phase] = moved]
      BY DEF ToStep
<1> HIDE DEF u
<1>3. moved.ends = u.ends
      BY <1>1 DEF Unit
<1> HIDE DEF moved
<1>4. QED
      BY <1>2, <1>3 DEF UnitsTyped, u

\* A unit that ends leaves its result, and the other units alone.
LEMMA FinishWrites ==
    ASSUME UnitsTyped, FilesTyped, NEW e \in Events, NEW phase \in Phases, NEW result,
           Finish(e, phase, result)
    PROVE  /\ ~Active(e, phase)' /\ record'[e][phase] = result
           /\ \A g \in Events, h \in Phases : g # e \/ h # phase =>
                 unit'[g][h] = unit[g][h] /\ record'[g][h] = record[g][h]
BY DEF Finish, UnitsTyped, FilesTyped, Active

\* Only the start writes a window, its own; only the end removes one.
LEMMA UnitKeepsWindows ==
    ASSUME WindowInv, NEW e \in Events, UnitStep(e)
    PROVE  TickSees' /\ (Open' => OpenInv')
<1>1. UNCHANGED <<now, web, pass>> /\ UnitsTyped /\ FilesTyped /\ TickSees
      BY DEF UnitStep, UnitChecks, UnitSetsOn, UnitReadsOn, UnitRemovesWindow, UnitSetsOff,
             UnitReadsOff, WindowInv, TInv, TypeOK
<1>2. TickSees'
      BY <1>1, HostSees DEF TickSees
<1>3. ASSUME Open'
      PROVE  OpenInv'
  <2>1. OpenInv
        BY <1>1, <1>3 DEF Open, WindowInv
  <2>2. "start" \in Phases /\ "end" \in Phases
        BY DEF Phases
  <2>3. \A f \in Phases : unit[e][f].step # "none" => Active(e, f)
        BY DEF Active, NoUnit
  <2>4. \A f \in Phases : Active(e, f) => record[e][f] = "running"
        BY <2>1 DEF OpenInv, UnitsWork
  <2>5. ASSUME NEW f \in Phases, Active(e, f), NEW step, NEW took, ToStep(e, f, step, took),
               record' = record, \A g \in Events : g # e => window'[g] = window[g]
        PROVE  OpenInv'
    <3>1. \A g \in Events, h \in Phases : g # e \/ h # f =>
             unit'[g][h] = unit[g][h] /\ record'[g][h] = record[g][h]
          BY <1>1, <2>5, StepMoves DEF Active
    <3>2. unit'[e][f].ends = unit[e][f].ends /\ record'[e][f] = "running"
          BY <1>1, <2>4, <2>5, StepKeepsEnd DEF Active
    <3>3. QED
          BY <1>1, <2>1, <2>5, <3>1, <3>2, UnitMoves
  <2>6. ASSUME NEW f \in Phases, Active(e, f), NEW result, Finish(e, f, result),
               \A g \in Events : g # e => window'[g] = window[g],
               f = "start" /\ result = "ok" => window'[e] = event[e].win.ends
        PROVE  OpenInv'
    <3>1. /\ ~Active(e, f)' /\ record'[e][f] = result
          /\ \A g \in Events, h \in Phases : g # e \/ h # f =>
                unit'[g][h] = unit[g][h] /\ record'[g][h] = record[g][h]
          BY <1>1, <2>6, FinishWrites
    <3>2. QED
          BY <1>1, <2>1, <2>6, <3>1, UnitMoves
  <2>7. CASE UnitChecks(e)
        BY <2>2, <2>3, <2>5, <2>6, <2>7 DEF UnitChecks
  <2>8. CASE UnitSetsOn(e)
        BY <2>2, <2>3, <2>5, <2>8 DEF UnitSetsOn
  <2>9. CASE UnitReadsOn(e)
    <3>1. Active(e, "start")
          BY <2>2, <2>3, <2>9 DEF UnitReadsOn
    <3>2. CASE FallsShort(e)
          BY <2>2, <2>5, <3>1, <3>2 DEF FallsShort
    <3>3. CASE /\ window' = [window EXCEPT ![e] = unit[e]["start"].ends]
               /\ Finish(e, "start", "ok")
      <4>1. /\ window'[e] = unit[e]["start"].ends
            /\ \A g \in Events : g # e => window'[g] = window[g]
            BY <1>1, <3>3 DEF FilesTyped
      <4>2. unit[e]["start"].ends = event[e].win.ends
            BY <2>1, <2>2, <3>1 DEF OpenInv, UnitsWork
      <4>3. QED
            BY <2>2, <2>6, <3>1, <3>3, <4>1, <4>2
    <3>4. QED
          BY <2>9, <3>2, <3>3 DEF UnitReadsOn
  <2>10. CASE UnitRemovesWindow(e)
    <3>1. \A g \in Events : g # e => window'[g] = window[g]
          BY <1>1, <2>10 DEF UnitRemovesWindow, FilesTyped
    <3>2. QED
          BY <2>2, <2>3, <2>5, <2>10, <3>1 DEF UnitRemovesWindow
  <2>11. ASSUME NEW f \in Phases, UnitSetsOff(e, f)
         PROVE  OpenInv'
         BY <2>3, <2>5, <2>11 DEF UnitSetsOff
  <2>12. ASSUME NEW f \in Phases, UnitReadsOff(e, f)
         PROVE  OpenInv'
    <3>1. Active(e, f) /\ window' = window
          BY <2>3, <2>12 DEF UnitReadsOff
    <3>2. PICK result \in {"ok", "failed"} :
             Finish(e, f, result) /\ (result = "ok" => f = "end")
          BY <2>12 DEF UnitReadsOff
    <3>3. QED
          BY <2>6, <3>1, <3>2
  <2>13. QED
         BY <2>7, <2>8, <2>9, <2>10, <2>11, <2>12 DEF UnitStep
<1>4. QED
      BY <1>2, <1>3

\* What is at work goes on as it was, or is gone, and no file is touched.
LEMMA HostMoves ==
    ASSUME WindowInv, UNCHANGED <<now, web, record, window>>,
           pass'.now <= now, pass'.step = "next",
           \A g \in Events, f \in Phases : Active(g, f)' =>
              Active(g, f) /\ unit'[g][f].ends = unit[g][f].ends
    PROVE  TickSees' /\ (Open => OpenInv')
<1>1. TickSees /\ event' = event /\ tick' = tick /\ "start" \in Phases
      BY DEF WindowInv, web, Phases
<1>2. /\ TickSees'
      /\ \A g \in Events : (Current(g)' <=> Current(g)) /\ (Held(g)' <=> Held(g))
      /\ \A g \in Events : Decision(g)' = Decision(g)
      /\ \A g \in Events, f \in Phases : Started(g, f)' <=> Started(g, f)
      BY <1>1, HostSees
<1>3. ASSUME Open
      PROVE  OpenInv'
  <2>1. OpenInv
        BY <1>3 DEF WindowInv
  <2>2. UnitsWork'
        BY <1>1, <1>2, <2>1 DEF OpenInv, UnitsWork
  <2>3. StartsHold' /\ RowsHold'
        BY <1>1, <1>2, <2>1 DEF OpenInv, StartsHold, RowsHold
  <2>4. AnswersHold'
        BY <1>1, <1>2, <2>1 DEF OpenInv, AnswersHold
  <2>5. QED
        BY <2>2, <2>3, <2>4 DEF OpenInv
<1>4. QED
      BY <1>2, <1>3

\* While a window is open no pass finds a dead-man due, so none touches a file.
LEMMA PassKeepsWindows ==
    ASSUME WindowInv, Orderly, NEW e \in Events, PassStep(e)
    PROVE  TickSees' /\ (Open' => OpenInv')
<1>1. UNCHANGED <<now, web, unit>> /\ PassTyped /\ TickSees
      BY DEF PassStep, PassReasserts, PassSkips, PassClosesWindow, PassSetsOff, PassReadsOff,
             WindowInv, TInv, TypeOK
<1>2. pass'.now <= now
  <2>1. pass'.now \in {pass.now, 0}
        BY <1>1, NoTickSees DEF PassStep, PassReasserts, PassSkips, PassClosesWindow, PassSetsOff,
           PassReadsOff, PassGoesOn, PassTyped
  <2>2. now \in Nat
        BY EffectsAssumption DEF WindowInv, TInv, TypeOK
  <2>3. QED
        BY <1>1, <2>1, <2>2 DEF TickSees
<1>3. TickSees'
      BY <1>1, <1>2, HostSees
<1>4. ASSUME Open'
      PROVE  OpenInv'
  <2>1. Open /\ pass.step = "next"
        BY <1>1, <1>4 DEF Open, WindowInv, OpenInv
  <2>2. ~DeadManDue(e) \/ ~Turn(e)
    <3>1. SUFFICES ASSUME DeadManDue(e), Turn(e)
                   PROVE  FALSE
          OBVIOUS
    <3>2. PICK w \in Windows : pass.ends[e] = w.ends
          BY <1>1, <3>1 DEF Turn, Listed, PassTyped, Ends
    <3>3. PICK v \in Windows : now < v.ends
          BY <2>1 DEF Open
    <3>4. v.ends <= w.ends + Grace /\ pass.now >= w.ends + Grace /\ pass.now <= now
          BY <1>1, <3>1, <3>2 DEF DeadManDue, Orderly, WithinGrace, TickSees
    <3>5. v.ends \in Nat /\ w.ends \in Nat /\ Grace \in Nat /\ now \in Nat /\ pass.now \in Nat
          BY <1>1, EffectsAssumption DEF WindowInv, TInv, TypeOK, PassTyped
    <3>6. QED
          BY <3>3, <3>4, <3>5
  <2>3. PassReasserts(e) \/ PassSkips(e)
        BY <2>1, <2>2 DEF PassStep, PassClosesWindow, PassSetsOff, PassReadsOff
  <2>4. UNCHANGED <<record, window>> /\ PassGoesOn(e)
        BY <2>3 DEF PassReasserts, PassSkips
  <2>5. pass'.step = "next"
        BY <1>1, <2>4, NoTickSees DEF PassGoesOn, PassTyped
  <2>6. QED
        BY <1>1, <1>2, <2>1, <2>4, <2>5, HostMoves DEF Active
<1>5. QED
      BY <1>3, <1>4

\* A restarted pod costs a readback its line, a restarted host its units.
LEMMA RestartsKeepWindows ==
    ASSUME WindowInv, (\E p \in Pods : PodRestarts(p)) \/ HostRestarts
    PROVE  TickSees' /\ (Open' => OpenInv')
<1>1. UNCHANGED <<now, web, record, window>> /\ UnitsTyped /\ PassTyped /\ TickSees
      BY DEF PodRestarts, HostRestarts, WindowInv, TInv, TypeOK
<1>2. now \in Nat
      BY EffectsAssumption DEF WindowInv, TInv, TypeOK
<1>3. pass'.now <= now /\ (pass.step = "next" => pass'.step = "next")
  <2>1. CASE HostRestarts
        BY <1>2, <2>1, NoTickSees DEF HostRestarts
  <2>2. ASSUME NEW p \in Pods, PodRestarts(p)
        PROVE  pass'.now = pass.now /\ pass'.step = pass.step
        BY <1>1, <2>2 DEF PodRestarts, PassTyped
  <2>3. QED
        BY <1>1, <2>1, <2>2 DEF TickSees
<1>4. \A g \in Events, f \in Phases : Active(g, f)' =>
         Active(g, f) /\ unit'[g][f].ends = unit[g][f].ends
  <2>1. CASE HostRestarts
        BY <2>1 DEF HostRestarts, Active
  <2>2. ASSUME NEW p \in Pods, PodRestarts(p), NEW g \in Events, NEW f \in Phases, Active(g, f)'
        PROVE  Active(g, f) /\ unit'[g][f].ends = unit[g][f].ends
    <3>1. unit'[g][f] = [unit[g][f] EXCEPT !.took = @ \ {p}]
          BY <2>2 DEF PodRestarts
    <3>2. unit[g][f] # NoUnit
      <4>1. [NoUnit EXCEPT !.took = @ \ {p}] = NoUnit
            BY DEF NoUnit
      <4>2. QED
            BY <2>2, <3>1, <4>1 DEF Active
    <3>3. unit[g][f] \in Unit
          BY <1>1, <3>2 DEF UnitsTyped
    <3>4. [unit[g][f] EXCEPT !.took = @ \ {p}].ends = unit[g][f].ends
          BY <3>3 DEF Unit
    <3>5. QED
          BY <3>1, <3>2, <3>4 DEF Active
  <2>3. QED
        BY <2>1, <2>2
<1>5. TickSees'
      BY <1>1, <1>3, HostSees
<1>6. ASSUME Open'
      PROVE  OpenInv'
  <2>1. Open /\ pass.step = "next"
        BY <1>1, <1>6 DEF Open, WindowInv, OpenInv
  <2>2. QED
        BY <1>1, <1>3, <1>4, <2>1, HostMoves
<1>7. QED
      BY <1>5, <1>6

\* A pass that begins or dies writes no window.
LEMMA PassTimerKeepsWindows ==
    ASSUME WindowInv, PassBegins \/ PassDies
    PROVE  TickSees' /\ (Open' => OpenInv')
<1>1. UNCHANGED <<now, web, record, unit, window>> /\ now \in Nat
      BY EffectsAssumption DEF PassBegins, PassDies, WindowInv, TInv, TypeOK
<1>2. pass'.now \in {now, 0} /\ pass'.step = "next"
      BY NoTickSees DEF PassBegins, PassDies, NoPass
<1>3. pass'.now <= now
      BY <1>1, <1>2
<1>4. TickSees' /\ (Open => OpenInv')
      BY <1>1, <1>2, <1>3, HostMoves DEF Active
<1>5. QED
      BY <1>1, <1>4 DEF Open

\* The clock waits for the units.
LEMMA AdvanceKeepsWindows ==
    ASSUME WindowInv, Orderly, Advance
    PROVE  TickSees' /\ (Open' => OpenInv')
<1>1. /\ now' = now + 1 /\ (tick # NoTick => tick.now = now)
      /\ UNCHANGED <<event, tick, record, unit, window, pass>>
      /\ \A g \in Events, f \in Phases : ~Active(g, f)
      BY DEF Advance, web, host, Orderly
<1>2. now \in Nat /\ tick.now \in Nat /\ pass.now \in Nat /\ TickSees
      BY EffectsAssumption DEF WindowInv, TInv, TypeOK, TickTyped, PassTyped
<1>3. Todo' = Todo
      BY <1>1 DEF Todo
<1>4. TickSees'
      BY <1>1, <1>2, <1>3 DEF TickSees
<1>5. ASSUME Open'
      PROVE  OpenInv'
  <2>1. Open
    <3>1. PICK w \in Windows : now + 1 < w.ends
          BY <1>1, <1>5 DEF Open
    <3>2. w.ends \in Nat
          BY EffectsAssumption
    <3>3. QED
          BY <1>2, <3>1, <3>2 DEF Open
  <2>2. OpenInv
        BY <2>1 DEF WindowInv
  <2>3. /\ \A g \in Events : (Current(g)' <=> Current(g)) /\ (Held(g)' <=> Held(g))
        /\ \A g \in Events : Decision(g)' = Decision(g)
        /\ \A g \in Events, f \in Phases : Started(g, f)' <=> Started(g, f)
        BY <1>1, <1>3 DEF Held, Started, Launched, Current, Decision, Decide
  <2>4. UnitsWork'
        BY <1>1 DEF UnitsWork, Active
  <2>5. "start" \in Phases
        BY DEF Phases
  <2>6. StartsHold' /\ RowsHold' /\ AnswersHold'
        BY <1>1, <2>2, <2>3, <2>5 DEF OpenInv, StartsHold, RowsHold, AnswersHold
  <2>7. QED
        BY <1>1, <2>2, <2>4, <2>6 DEF OpenInv
<1>6. QED
      BY <1>4, <1>5

-----------------------------------------------------------------------------
(* The theorem                                                             *)

\* The invariant holds at the start.
LEMMA InitWindows == Init => WindowInv
<1> SUFFICES ASSUME Init PROVE WindowInv
    OBVIOUS
<1>1. TInv
      BY InitTypes
<1>2. /\ now = 0 /\ tick = NoTick /\ pass = NoPass /\ tick.reply = "none"
      /\ \A e \in Events : event[e].job = "none" /\ event[e].state = "none"
      /\ \A e \in Events, f \in Phases : unit[e][f] = NoUnit
      BY NoTickSees DEF Init, NewRow
<1>3. Todo = {} /\ \A e \in Events : ~Current(e)
      BY <1>2, IdleHasNoRow
<1>4. TickSees
      BY <1>2, <1>3, NoTickSees DEF TickSees
<1>5. OpenInv
      BY <1>2, <1>3, NoTickSees
         DEF OpenInv, AnswersHold, UnitsWork, StartsHold, RowsHold, Active, Started, Held, Launched
<1>6. QED
      BY <1>1, <1>4, <1>5 DEF WindowInv

\* Every step keeps it.
LEMMA NextKeepsWindows ==
    ASSUME WindowInv, Orderly, [Next]_vars
    PROVE  WindowInv'
<1>1. TInv'
      BY NextKeepsTypes DEF WindowInv
<1>2. SUFFICES TickSees' /\ (Open' => OpenInv')
      BY <1>1 DEF WindowInv
<1>3. CASE UNCHANGED vars
  <2>1. UNCHANGED <<now, web, record, unit, window, pass>>
        BY <1>3 DEF vars, host
  <2>2. TickSees'
        BY <2>1, HostSees DEF WindowInv, TickSees
  <2>3. ASSUME Open'
        PROVE  OpenInv'
    <3>1. Open /\ pass'.now <= now /\ pass'.step = "next"
          BY <2>1, <2>3 DEF Open, WindowInv, OpenInv, TickSees
    <3>2. QED
          BY <2>1, <3>1, HostMoves DEF Active
  <2>4. QED
        BY <2>2, <2>3
<1>4. ASSUME NEW e \in Events, TickStep(e)
      PROVE  TickSees' /\ (Open' => OpenInv')
      BY <1>4, TickDecidesKeeps, TickLaunchesKeeps, TickPollsKeeps, TickRecordsKeeps DEF TickStep
<1>5. QED
      BY <1>3, <1>4, AdminKeepsWindows, UnitKeepsWindows, PassKeepsWindows, TickBeginsKeeps,
         TickDiesKeeps, PassTimerKeepsWindows, RestartsKeepWindows, AdvanceKeepsWindows DEF Next

\* The runner and the worker agree on the window while the row runs: frozen in the
\* row (FROZEN_WHILE_RUNNING), written by the unit only once the effect reads back,
\* removed only by an end the row has asked for (run_live, poll, launched).
THEOREM RowsWindowIsHeld ==
    ASSUME Orderly
    PROVE  Spec => []HostHasTheRowsWindow
<1>1. WindowInv /\ [Next]_vars => WindowInv'
      BY NextKeepsWindows
<1>2. WindowInv => HostHasTheRowsWindow
  <2> SUFFICES ASSUME WindowInv, NEW e \in Events,
                      event[e].state = "running", event[e].job = "none",
                      now < event[e].win.ends, ~Launching(e)
               PROVE  window[e] = event[e].win.ends
      BY DEF HostHasTheRowsWindow
  <2>1. event[e].win \in Windows
        BY DEF WindowInv, TInv, TypeOK, RowsTyped, Row
  <2>2. OpenInv
        BY <2>1 DEF WindowInv, Open
  <2>3. Held(e)
        BY DEF Held, Launched, Launching
  <2>4. QED
        BY <2>2, <2>3 DEF OpenInv, RowsHold
<1>3. QED
      BY <1>1, <1>2, InitWindows, PTL DEF Spec

=============================================================================
