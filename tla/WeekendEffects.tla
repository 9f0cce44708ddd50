--------------------------- MODULE WeekendEffects ---------------------------
(***************************************************************************)
(* The weekend effects: an event published in the Events Manager changes   *)
(* a live setting on every game pod for its window.                        *)
(*                                                                         *)
(* Four processes on two hosts share the work.  The admin's requests write *)
(* the event row.  The runner (event-effects.py, web host, every minute)   *)
(* reads the rows, launches a start or an end over ssh, polls its result   *)
(* and moves the row by compare-and-set.  A unit (event-effect-worker.py   *)
(* run, game host) carries out one start or end.  The assert pass (worker  *)
(* assert, game host, every 5 minutes) re-applies every open window and is *)
(* the dead-man for one that nobody ended.  On the game host each start    *)
(* and end has a job record and each applied effect a window file.         *)
(*                                                                         *)
(* Only the live effects are modelled, all events here having the same     *)
(* one.  A kill switch shows as a refused launch or a pass not taken.      *)
(***************************************************************************)
EXTENDS Integers, FiniteSets, FiniteSetsExt

CONSTANTS
    Events,     \* event ids
    Pods,       \* game pods in an effect's scope
    Windows,    \* windows an admin may choose: records of starts and ends
    JobTimeout, \* JOB_TIMEOUT_S["live"], in units of the model's clock
    Grace,      \* DEADMAN_GRACE_S, in the same units
    MaxTime,    \* where the clock stops (bound)
    MaxEdits,   \* admin writes ever made (bound)
    Faults,     \* which of AllFaults can happen
    NONE        \* an event without an effect

\* lostAnswer: a tick ends between a launch and the note of it in the row;
\* slowUnit: a unit is still at work when the clock moves;
\* editRace: an admin writes while a tick is under way;
\* passOverlap: a window file changes under a pass that has listed it;
\* passKilled: a pass ends half way.
AllFaults == {"lostAnswer", "slowUnit", "editRace", "passOverlap", "passKilled"}

ASSUME EffectsAssumption ==
    /\ Events \subseteq Nat \ {0}
    /\ JobTimeout \in Nat /\ Grace \in Nat /\ MaxTime \in Nat /\ MaxEdits \in Nat
    /\ NONE \notin Windows
    /\ \A w \in Windows : w = [starts |-> w.starts, ends |-> w.ends]
    /\ \A w \in Windows : w.starts \in Nat /\ w.ends \in Nat \ {0} /\ w.starts < w.ends
    /\ Faults \subseteq AllFaults

VARIABLES
    now,     \* the clock both hosts read
    edits,   \* admin writes so far
    event,   \* portal_events, its effect columns: [Events -> row]
    tick,    \* the runner's tick under way, or NoTick
    record,  \* job files: [Events -> [Phases -> result]]
    unit,    \* transient units: [Events -> [Phases -> unit]]
    window,  \* window files: [Events -> end of the window, or 0]
    pods,    \* the setting on each pod
    pass,    \* the assert pass under way, or NoPass
    alerted  \* history: a pod still on was reported to staff as not put back

web  == <<edits, event, tick>>
host == <<record, unit, window, pods, pass, alerted>>
vars == <<now, web, host>>

-----------------------------------------------------------------------------

Phases  == {"start", "end"}
States  == {"none", "armed", "running", "done", "failed", "missed"}
Results == {"none", "running", "ok", "failed"}

\* at: the clock at the launch of the job; it is read only while there is one.
Row == [status : {"draft", "published", "cancelled"}, win : Windows \cup {NONE},
        state : States, job : Phases \cup {"none"}, at : 0..MaxTime]

\* The rows a tick reads.
DueRow == {row \in Row : row.state \in {"armed", "running"} /\ row.win # NONE}

\* The host's answer to an ssh of the runner.
Replies == {"none", "lost", "launched", "refused"} \cup Results

NewRow == [status |-> "draft", win |-> NONE, state |-> "none", job |-> "none", at |-> 0]

\* took: the pods whose log shows the value sent last, which is what a readback
\* goes by (kubectl logs --since=20s).
Ends   == {w.ends : w \in Windows}
Unit   == [step : {"check", "on", "readOn", "unwindow", "off", "readOff"},
           ends : Ends, took : SUBSET Pods]
NoUnit == [step |-> "none", ends |-> 0, took |-> {}]

NoTick == [now |-> 0, seen |-> [e \in {} |-> NewRow], reply |-> "none"]
NoPass == [now |-> 0, ends |-> [e \in Events |-> 0], step |-> "next", took |-> {}]

Active(e, phase) == unit[e][phase] # NoUnit
Todo             == DOMAIN tick.seen

Init ==
    /\ now = 0
    /\ edits = 0
    /\ event = [e \in Events |-> NewRow]
    /\ tick = NoTick
    /\ record = [e \in Events |-> [f \in Phases |-> "none"]]
    /\ unit = [e \in Events |-> [f \in Phases |-> NoUnit]]
    /\ window = [e \in Events |-> 0]
    /\ pods = [p \in Pods |-> "base"]
    /\ pass = NoPass
    /\ alerted = FALSE

-----------------------------------------------------------------------------
(* The Events Manager.                                                     *)

InFlight(row) == row.state = "running" \/ row.job # "none"

StateAfterWrite(row, status, win, rearm) ==
    IF InFlight(row) THEN row.state
    ELSE IF win = NONE THEN "none"
    ELSE IF row.state \in {"none", "armed"}
      THEN IF status = "published" THEN "armed" ELSE "none"
    ELSE IF status = "published" /\ (rearm \/ win # row.win) THEN "armed"
    ELSE row.state

AdminWrites(e, row) ==
    /\ edits < MaxEdits
    /\ tick # NoTick => "editRace" \in Faults
    /\ row # event[e]
    /\ event' = [event EXCEPT ![e] = row]
    /\ edits' = edits + 1
    /\ UNCHANGED <<now, tick, host>>

\* The request reads the row, checks it and writes it with no await in between;
\* only the runner, another process, could move it meanwhile, and then the
\* compare-and-set writes nothing.
Edit(e) ==
    /\ event[e].status # "cancelled"
    /\ \E status \in {"draft", "published"}, win \in Windows \cup {NONE}, rearm \in BOOLEAN :
         /\ InFlight(event[e]) => win = event[e].win
         /\ AdminWrites(e, [event[e] EXCEPT
                !.status = status, !.win = win,
                !.state = StateAfterWrite(event[e], status, win, rearm)])

Cancel(e) ==
    /\ event[e].status # "cancelled"
    /\ AdminWrites(e, [event[e] EXCEPT
           !.status = "cancelled",
           !.state = IF @ = "armed" /\ event[e].job = "none" THEN "none" ELSE @])

-----------------------------------------------------------------------------
(* The runner.                                                             *)

\* ORDER BY starts_utc.
Current(e) ==
    /\ e \in Todo
    /\ \A f \in Todo :
          \/ tick.seen[e].win.starts < tick.seen[f].win.starts
          \/ tick.seen[e].win.starts = tick.seen[f].win.starts /\ e <= f

\* A row that is running and needs nothing is "check": the note it may leave in
\* effect_error decides nothing.
Decide(row, t) ==
    IF row.job # "none"
      THEN IF t - row.at > JobTimeout THEN "timeout" ELSE "poll"
    ELSE IF row.state = "armed"
      THEN IF row.status # "published" \/ t < row.win.starts THEN "wait"
           ELSE IF t >= row.win.ends THEN "missed" ELSE "start"
    ELSE IF row.status # "published" \/ t >= row.win.ends THEN "end" ELSE "check"

Decision(e) == Decide(tick.seen[e], tick.now)

TickBegins ==
    LET due == {e \in Events : event[e].state \in {"armed", "running"} /\ event[e].win # NONE}
    IN  /\ tick = NoTick /\ due # {}
        /\ tick' = [now |-> now, seen |-> [e \in due |-> event[e]], reply |-> "none"]
        /\ UNCHANGED <<now, edits, event, host>>

TickGoesOn(e) ==
    tick' = IF Todo = {e} THEN NoTick
            ELSE [tick EXCEPT !.seen = [f \in Todo \ {e} |-> tick.seen[f]], !.reply = "none"]

\* Mutant: a job without a result in time gets a state of its own.
M_GivenUp(e) == IF Decision(e) = "missed" THEN "missed" ELSE "timeout"

GivenUp(e) == IF Decision(e) = "missed" THEN "missed" ELSE "failed"

\* Compare-and-set on what the tick read.
Transition(e, state, job) ==
    IF event[e].state = tick.seen[e].state /\ event[e].job = tick.seen[e].job
      THEN event' = [event EXCEPT ![e] = [@ EXCEPT
               !.state = state, !.job = job, !.at = IF job = "none" THEN 0 ELSE tick.now]]
      ELSE UNCHANGED event

TickDecides(e) ==
    /\ Current(e) /\ tick.reply = "none"
    /\ \/ Decision(e) \in {"wait", "check"} /\ UNCHANGED event
       \/ Decision(e) \in {"missed", "timeout"} /\ Transition(e, GivenUp(e), "none")
    /\ TickGoesOn(e)
    /\ UNCHANGED <<now, edits, host>>

FirstStep(phase) == IF phase = "start" THEN "check" ELSE "unwindow"

\* Mutant: the record of an earlier run stays until the unit writes its own.
M_Starts(e, phase) ==
    /\ UNCHANGED record
    /\ unit' = [unit EXCEPT ![e][phase] =
                   [step |-> FirstStep(phase), ends |-> tick.seen[e].win.ends, took |-> {}]]

Starts(e, phase) ==
    /\ record' = [record EXCEPT ![e][phase] = "running"]
    /\ unit' = [unit EXCEPT ![e][phase] =
                   [step |-> FirstStep(phase), ends |-> tick.seen[e].win.ends, took |-> {}]]

\* cmd_launch.  A unit that is still active is left alone ("already running").  The
\* kill switch refuses any launch; systemd-run may refuse a new unit.
\* An ssh that fails before the host is reached changes nothing there.
TickLaunches(e) ==
    /\ Current(e) /\ tick.reply = "none" /\ Decision(e) \in Phases
    /\ \/ /\ tick' = [tick EXCEPT !.reply = "lost"]
          /\ UNCHANGED <<record, unit>>
       \/ /\ tick' = [tick EXCEPT !.reply = "refused"]
          /\ UNCHANGED unit
          /\ \/ UNCHANGED record
             \/ /\ ~Active(e, Decision(e))
                /\ record' = [record EXCEPT ![e][Decision(e)] = "failed"]
       \/ /\ \/ tick' = [tick EXCEPT !.reply = "launched"]
             \/ "lostAnswer" \in Faults /\ tick' = [tick EXCEPT !.reply = "lost"]
          /\ IF Active(e, Decision(e)) THEN UNCHANGED <<record, unit>>
             ELSE Starts(e, Decision(e))
    /\ UNCHANGED <<now, edits, event, window, pods, pass, alerted>>

\* cmd_status; a job without a record is a failed one.
TickPolls(e) ==
    /\ Current(e) /\ tick.reply = "none" /\ Decision(e) = "poll"
    /\ LET result == record[e][tick.seen[e].job]
       IN  \E reply \in {"lost", IF result = "none" THEN "failed" ELSE result} :
             tick' = [tick EXCEPT !.reply = reply]
    /\ UNCHANGED <<now, edits, event, host>>

\* launched() and the second half of poll().
TickRecords(e) ==
    LET seen == tick.seen[e]
    IN  /\ Current(e)
        /\ \/ tick.reply \in {"lost", "running"} /\ UNCHANGED event
           \/ tick.reply = "launched" /\ Transition(e, seen.state, Decision(e))
           \/ tick.reply = "refused" /\ Transition(e, "failed", "none")
           \/ tick.reply = "failed" /\ Transition(e, "failed", "none")
           \/ tick.reply = "ok" /\ Transition(e, IF seen.job = "start" THEN "running" ELSE "done", "none")
        /\ TickGoesOn(e)
        /\ UNCHANGED <<now, edits, host>>

\* systemd stops a tick that takes too long (TimeoutStartSec).
TickDies ==
    /\ tick # NoTick
    /\ tick.reply = "launched" => "lostAnswer" \in Faults
    /\ tick' = NoTick
    /\ UNCHANGED <<now, edits, event, host>>

-----------------------------------------------------------------------------
(* The units.                                                              *)

On(p) == pods[p] = "on"

\* A ServerExec reaches the pods it reaches.  Once no pod is on, nothing is left
\* to put back.
SetPods(reached, value) ==
    /\ pods' = [p \in Pods |-> IF p \in reached THEN value ELSE pods[p]]
    /\ alerted' = (alerted /\ \E p \in Pods : pods'[p] = "on")

ToStep(e, phase, step, took) ==
    unit' = [unit EXCEPT ![e][phase] = [@ EXCEPT !.step = step, !.took = took]]

Finish(e, phase, result) ==
    /\ unit' = [unit EXCEPT ![e][phase] = NoUnit]
    /\ record' = [record EXCEPT ![e][phase] = result]

\* A readback may always fall short.  It succeeds only if every Running pod shows
\* the value, in its log or as its setting, and there is one; a pod that is on is
\* Running, another may be restarting.  Lines that another process left in a pod's
\* log are not modelled.
ReadsBack(took, value) ==
    LET good == took \cup {p \in Pods : pods[p] = value}
    IN  good # {} /\ {p \in Pods : On(p)} \subseteq good

FilesMayChange == pass # NoPass => "passOverlap" \in Faults

\* baseline_check: the precheck may refuse.
UnitChecks(e) ==
    /\ unit[e]["start"].step = "check"
    /\ \/ ToStep(e, "start", "on", {}) /\ UNCHANGED record
       \/ Finish(e, "start", "failed")
    /\ UNCHANGED <<now, web, window, pods, pass, alerted>>

UnitSetsOn(e) ==
    /\ unit[e]["start"].step = "on"
    /\ \E reached \in SUBSET Pods :
         SetPods(reached, "on") /\ ToStep(e, "start", "readOn", reached)
    /\ UNCHANGED <<now, web, record, window, pass>>

\* Mutant: a start that does not read back is reported, and left as it is.
M_FallsShort(e) ==
    Finish(e, "start", "failed") /\ UNCHANGED <<window, alerted>>

\* The start is put back before it is reported.
FallsShort(e) ==
    ToStep(e, "start", "off", {}) /\ UNCHANGED <<record, window, alerted>>

UnitReadsOn(e) ==
    /\ unit[e]["start"].step = "readOn"
    /\ \/ FallsShort(e)
       \/ /\ ReadsBack(unit[e]["start"].took, "on") /\ FilesMayChange
          /\ window' = [window EXCEPT ![e] = unit[e]["start"].ends]
          /\ alerted' = FALSE
          /\ Finish(e, "start", "ok")
    /\ UNCHANGED <<now, web, pods, pass>>

\* The window goes first.
UnitRemovesWindow(e) ==
    /\ unit[e]["end"].step = "unwindow" /\ FilesMayChange
    /\ window' = [window EXCEPT ![e] = 0]
    /\ ToStep(e, "end", "off", {})
    /\ UNCHANGED <<now, web, record, pods, pass, alerted>>

UnitSetsOff(e, phase) ==
    /\ unit[e][phase].step = "off"
    /\ \E reached \in SUBSET Pods :
         SetPods(reached, "base") /\ ToStep(e, phase, "readOff", reached)
    /\ UNCHANGED <<now, web, record, window, pass>>

\* A start that gets here has failed either way.
UnitReadsOff(e, phase) ==
    /\ unit[e][phase].step = "readOff"
    /\ \/ /\ ReadsBack(unit[e][phase].took, "base")
          /\ Finish(e, phase, IF phase = "end" THEN "ok" ELSE "failed")
          /\ UNCHANGED alerted
       \/ /\ Finish(e, phase, "failed")
          /\ alerted' = \E p \in Pods : On(p)
    /\ UNCHANGED <<now, web, window, pods, pass>>

-----------------------------------------------------------------------------
(* The assert pass: do_assert.  It lists the windows, then takes them in    *)
(* the order of their ids.                                                 *)

Listed  == {e \in Events : pass.ends[e] # 0}
Turn(e) == e \in Listed /\ \A f \in Listed : e <= f

PassGoesOn(e) ==
    pass' = IF Listed = {e} THEN NoPass
            ELSE [pass EXCEPT !.ends = [@ EXCEPT ![e] = 0], !.step = "next", !.took = {}]

PassBegins ==
    /\ pass = NoPass
    /\ \E e \in Events : window[e] # 0
    /\ pass' = [NoPass EXCEPT !.now = now, !.ends = window]
    /\ UNCHANGED <<now, web, record, unit, window, pods, alerted>>

\* Mutant: no dead-man.
M_DeadManDue(e) == FALSE

DeadManDue(e) == pass.now >= pass.ends[e] + Grace

PassReasserts(e) ==
    /\ Turn(e) /\ pass.step = "next" /\ pass.now < pass.ends[e]
    /\ \E reached \in SUBSET Pods : SetPods(reached, "on")
    /\ PassGoesOn(e)
    /\ UNCHANGED <<now, web, record, unit, window>>

PassSkips(e) ==
    /\ Turn(e) /\ pass.step = "next" /\ pass.now >= pass.ends[e] /\ ~DeadManDue(e)
    /\ PassGoesOn(e)
    /\ UNCHANGED <<now, web, record, unit, window, pods, alerted>>

PassClosesWindow(e) ==
    /\ Turn(e) /\ pass.step = "next" /\ DeadManDue(e)
    /\ window' = [window EXCEPT ![e] = 0]
    /\ pass' = [pass EXCEPT !.step = "off"]
    /\ UNCHANGED <<now, web, record, unit, pods, alerted>>

PassSetsOff(e) ==
    /\ Turn(e) /\ pass.step = "off"
    /\ \E reached \in SUBSET Pods :
         SetPods(reached, "base") /\ pass' = [pass EXCEPT !.step = "read", !.took = reached]
    /\ UNCHANGED <<now, web, record, unit, window>>

PassReadsOff(e) ==
    /\ Turn(e) /\ pass.step = "read"
    /\ \/ /\ ReadsBack(pass.took, "base")
          /\ record' = [record EXCEPT ![e]["end"] = "ok"]
          /\ UNCHANGED alerted
       \/ /\ record' = [record EXCEPT ![e]["end"] = "failed"]
          /\ alerted' = \E p \in Pods : On(p)
    /\ PassGoesOn(e)
    /\ UNCHANGED <<now, web, unit, window, pods>>

PassDies ==
    /\ pass # NoPass /\ "passKilled" \in Faults
    /\ pass' = NoPass
    /\ UNCHANGED <<now, web, record, unit, window, pods, alerted>>

-----------------------------------------------------------------------------
(* The world.                                                              *)

\* A pod comes back at the file's value, with a new log.
PodRestarts(p) ==
    /\ On(p)
    /\ SetPods({p}, "base")
    /\ unit' = [e \in Events |-> [f \in Phases |-> [unit[e][f] EXCEPT !.took = @ \ {p}]]]
    /\ pass' = [pass EXCEPT !.took = @ \ {p}]
    /\ UNCHANGED <<now, web, record, window>>

\* Units and passes are lost, the files stay.
HostRestarts ==
    /\ unit' = [e \in Events |-> [f \in Phases |-> NoUnit]]
    /\ pass' = NoPass
    /\ SetPods(Pods, "base")
    /\ UNCHANGED <<now, web, record, window>>

\* A tick and a pass have a time limit (TimeoutStartSec) and see at most one move
\* of the clock.
Advance ==
    /\ now < MaxTime
    /\ tick # NoTick => tick.now = now
    /\ pass # NoPass => pass.now = now
    /\ (\E e \in Events, f \in Phases : Active(e, f)) => "slowUnit" \in Faults
    /\ now' = now + 1
    /\ UNCHANGED <<web, host>>

UnitStep(e) ==
    \/ UnitChecks(e) \/ UnitSetsOn(e) \/ UnitReadsOn(e) \/ UnitRemovesWindow(e)
    \/ \E f \in Phases : UnitSetsOff(e, f) \/ UnitReadsOff(e, f)

PassStep(e) == \/ PassReasserts(e) \/ PassSkips(e) \/ PassClosesWindow(e)
               \/ PassSetsOff(e) \/ PassReadsOff(e)

TickStep(e) == TickDecides(e) \/ TickLaunches(e) \/ TickPolls(e) \/ TickRecords(e)

Next ==
    \/ \E e \in Events : Edit(e) \/ Cancel(e) \/ TickStep(e) \/ UnitStep(e) \/ PassStep(e)
    \/ TickBegins \/ TickDies \/ PassBegins \/ PassDies
    \/ \E p \in Pods : PodRestarts(p)
    \/ HostRestarts \/ Advance

Spec == Init /\ [][Next]_vars

(***************************************************************************)
(* Fairness.  Time passes; a tick and a unit that began go on; the assert  *)
(* timer fires and a pass that began goes on; and from some time on the    *)
(* game host is not restarted.  Nothing is assumed of the web host's timer *)
(* or of the ssh between the hosts.                                        *)
(***************************************************************************)
Fairness ==
    /\ WF_vars(Advance)
    /\ WF_vars(TickDies \/ \E e \in Events : TickStep(e))
    /\ \A e \in Events : WF_vars(UnitStep(e))
    /\ WF_vars(PassBegins) /\ WF_vars(\E e \in Events : PassStep(e))
    /\ <>[][~HostRestarts]_vars

FairSpec == Spec /\ Fairness

-----------------------------------------------------------------------------
(* Properties.                                                             *)

RowsTyped ==
    /\ event \in [Events -> Row]
    /\ \A e \in Events : event[e].win = NONE => event[e].state = "none" /\ event[e].job = "none"

TickTyped ==
    /\ tick = [now |-> tick.now, seen |-> tick.seen, reply |-> tick.reply]
    /\ tick.now \in 0..MaxTime /\ tick.reply \in Replies
    /\ Todo \subseteq Events /\ tick.seen \in [Todo -> DueRow]

FilesTyped ==
    /\ record \in [Events -> [Phases -> Results]]
    /\ window \in [Events -> Ends \cup {0}]

UnitsTyped == unit \in [Events -> [Phases -> Unit \cup {NoUnit}]]

PassTyped == pass \in [now : 0..MaxTime, ends : [Events -> Ends \cup {0}],
                       step : {"next", "off", "read"}, took : SUBSET Pods]

\* Rows, ticks, records, files, units and passes hold values of their kinds, and a
\* row that is armed, running or launched has an effect (portal_events.effect_*).
TypeOK ==
    /\ now \in 0..MaxTime /\ edits \in 0..MaxEdits
    /\ RowsTyped /\ TickTyped /\ FilesTyped /\ UnitsTyped /\ PassTyped
    /\ pods \in [Pods -> {"base", "on"}]
    /\ alerted \in BOOLEAN

\* No pod is left on: while one is, a window file will bring the dead-man to it, a
\* unit or a pass is about to put it back, or staff were told that putting it
\* back failed.  So the effect cannot outlive its weekend by more than the grace,
\* whatever the web host does (run_live, do_assert).
OnIsCovered ==
    (\E p \in Pods : On(p)) =>
        \/ alerted
        \/ \E e \in Events : \/ window[e] # 0
                             \/ unit[e]["start"].step = "readOn"
                             \/ \E f \in Phases : unit[e][f].step \in {"off", "readOff"}
        \/ pass.step \in {"off", "read"}

Launching(e) == Current(e) /\ tick.reply # "none"

\* Between a start and its end the game host holds the very window the row says,
\* through re-arms, new windows, given-up jobs, restarts and late ticks: the
\* window is frozen from the launch on (FROZEN_WHILE_RUNNING, in_flight).
HostHasTheRowsWindow ==
    \A e \in Events :
        /\ event[e].state = "running" /\ event[e].job = "none"
        /\ now < event[e].win.ends /\ ~Launching(e)
        => window[e] = event[e].win.ends

\* In the end every pod is back at its value of record or staff know that it is
\* not, even if the web host never ticks again (the dead-man of do_assert).
EffectEnds == <>[](alerted \/ \A p \in Pods : ~On(p))

=============================================================================
