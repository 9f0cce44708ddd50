---------------------------- MODULE LoginRewards ----------------------------
(***************************************************************************)
(* The login rewards of one account: Solari for each day played, a weapon  *)
(* for a streak once a week, and an augmented weapon once a period.        *)
(*                                                                         *)
(* The telemetry recorder writes the days played.  The portal reads them   *)
(* through a cache and its claim handler derives what is due, then asks    *)
(* the writer on the game host for one grant at a time, each under a key   *)
(* made from the account, the kind and the period.  The writer's ledger    *)
(* decides whether a key is paid; the portal notes what it is told in a    *)
(* table of its own.  A handler that gives up leaves its writer running.   *)
(*                                                                         *)
(* The unit of time is the day, and no handler or writer outlives a second *)
(* midnight.  A rung of the ramp stands for its Solari.                    *)
(***************************************************************************)
EXTENDS Integers, FiniteSets

CONSTANTS
    Handlers,    \* claim requests the portal may be serving at once
    Launch,      \* the day the rewards open, with a recorder already running
    Horizon,     \* the last day (bound)
    MaxClaims,   \* claims ever made (bound)
    Cycle,       \* DAILY_CYCLE_LEN, the rungs of the ramp
    Week,        \* days of an ISO week; day 1 is a Monday
    Requirement, \* WEEKLY_STREAK_REQUIREMENT
    Period,      \* MONTHLY_PERIOD_LENGTH_DAYS
    Required,    \* MONTHLY_LOGIN_DAYS_REQUIRED
    Grace,       \* MONTHLY_CLAIM_GRACE_DAYS
    Window,      \* days of history the telemetry read API answers with
    DayCap,      \* REWARD_SOLARI_MAX_PER_DAY
    WeekCap      \* REWARD_ITEM_MAX_PER_WEEK

\* A period is whole weeks from the same Monday, cannot be earned within the
\* grace of the one before, and lies with its grace inside the history; a day's
\* cap lets a whole cycle through.
ASSUME RewardsAssumption ==
    /\ {Launch, Horizon, MaxClaims, Cycle, Week, Requirement, Period, Required,
        Grace, Window, DayCap, WeekCap} \subseteq Nat \ {0}
    /\ Launch <= Horizon
    /\ Period % Week = 0 /\ Grace < Required /\ Required <= Period
    /\ Period + Grace <= Window
    /\ Cycle <= DayCap

Days  == 1..Horizon
Kinds == {"daily", "weekly", "monthly"}
Keys  == [kind : Kinds, no : Days]   \* deterministic_idem: no is a day, week or period

VARIABLES
    today,   \* the UTC date everyone reads
    sweep,   \* the day a sweep under way has read, or 0
    logged,  \* portal_login_days: the days recorded
    cache,   \* the portal's cached history and the day it was fetched
    game,    \* ls_reward_claims on the game host: [Keys -> row]
    grants,  \* ls_progression_grants: keys dune-grant.sh has a row for
    paid,    \* how often each key was credited or minted
    mirror,  \* ls_reward_claims in the portal: the rung noted, 0 for no row
    claims,  \* the claim handlers, each with its writer's run
    asks     \* claims made so far

vars == <<today, sweep, logged, cache, game, grants, paid, mirror, claims, asks>>

Row    == [st : {"none", "pending", "applied", "failed"}, made : 0..Horizon, amt : 0..Cycle]
NoRow  == [st |-> "none", made |-> 0, amt |-> 0]
Cached == [at : 0..Horizon, days : SUBSET Days]
Empty  == [at |-> 0, days |-> {}]

Running  == {"sent", "reserved", "minted", "failing"}
Answered == {"applied", "replay", "capped", "refused"}

\* A handler: whether it still waits, its writer's step or answer, the kind, the
\* day it was asked on, today's rung then, the key being granted, the keys after
\* it, and the ledger status the writer's gate returned.
Claim   == [waits : BOOLEAN, op : Running \cup Answered \cup {"lost"}, kind : Kinds,
            asked : 0..Horizon, rung : 0..Cycle, no : Days, left : SUBSET Days,
            saw : {"none", "pending", "applied", "failed"}]
NoClaim == [waits |-> FALSE, op |-> "lost", kind |-> "daily", asked |-> 0, rung |-> 0,
            no |-> 1, left |-> {}, saw |-> "none"]

TypeOK ==
    /\ today \in Days /\ sweep \in 0..Horizon
    /\ logged \subseteq Days
    /\ cache \in Cached
    /\ game \in [Keys -> Row]
    /\ grants \subseteq Keys
    /\ paid \in [Keys -> Nat]
    /\ mirror \in [Keys -> 0..Cycle]
    /\ claims \in [Handlers -> Claim]
    /\ asks \in 0..MaxClaims

-----------------------------------------------------------------------------
(* rewards.py: what a history entitles an account to                       *)

\* The run of days played that ends the day before d.
Prev(H, d) == CHOOSE n \in 0..d : (\A i \in 1..n : d - i \in H) /\ d - n - 1 \notin H

RunEnding(H, d) == IF d \in H THEN Prev(H, d) + 1 ELSE 0

\* Mutant: days played are counted, not the run of them.
M_Current(H, d) == Cardinality(H)

\* The streak shown: it counts today only once today's row is there.
Current(H, d) == IF d \in H THEN Prev(H, d) + 1 ELSE Prev(H, d)

CycleDay(n) == ((n - 1) % Cycle) + 1

\* Mutant: the streak shown is taken for today's number.
M_TodayRung(H, d) == CycleDay(Current(H, d))

TodayRung(H, d) == CycleDay(Prev(H, d) + 1)

\* Days played and not claimed in the cycle that today belongs to.
ClaimPool(H, claimed, d) == {x \in H \ claimed : d - TodayRung(H, d) < x /\ x <= d}

WeekOf(d)   == ((d - 1) \div Week) + 1
PeriodOf(d) == ((d - 1) \div Period) + 1

PeriodDays(p) == ((p - 1) * Period + 1)..(p * Period)
InGrace(d)    == d - (PeriodOf(d) - 1) * Period <= Grace
Unlocked(H, p) == Cardinality(H \cap PeriodDays(p)) >= Required

\* Mutant: the grace does not ask whether the period before was earned.
M_ClaimKey(H, claimed, d) ==
    LET p == PeriodOf(d) IN
    IF Unlocked(H, p) /\ p \notin claimed THEN p
    ELSE IF InGrace(d) /\ p - 1 \notin claimed THEN p - 1
    ELSE 0

\* The period a claim would be recorded under, 0 when nothing is claimable.
ClaimKey(H, claimed, d) ==
    LET p == PeriodOf(d) IN
    IF Unlocked(H, p) /\ p \notin claimed THEN p
    ELSE IF InGrace(d) /\ Unlocked(H, p - 1) /\ p - 1 \notin claimed THEN p - 1
    ELSE 0

ClaimedKeys(kind) == {n \in Days : mirror[[kind |-> kind, no |-> n]] # 0}

-----------------------------------------------------------------------------
(* Time, the recorder and the cached read                                  *)

\* A request, a writer's run or a sweep lasts less than a day, and the cache
\* never serves an entry older than ttl + max_stale.
Midnight ==
    /\ today < Horizon
    /\ sweep \in {0, today}
    /\ \A c \in Handlers : claims[c].asked \in {0, today}
    /\ today' = today + 1
    /\ cache' = IF cache.at < today THEN Empty ELSE cache
    /\ UNCHANGED <<sweep, logged, game, grants, paid, mirror, claims, asks>>

\* The account is online as a sweep reads the clock and the player table.
SweepReads ==
    /\ sweep = 0
    /\ sweep' = today
    /\ UNCHANGED <<today, logged, cache, game, grants, paid, mirror, claims, asks>>

SweepInserts ==
    /\ sweep # 0
    /\ logged' = logged \cup {sweep}
    /\ sweep' = 0
    /\ UNCHANGED <<today, cache, game, grants, paid, mirror, claims, asks>>

\* Mutant: a period's worth of history.
M_Served == {d \in logged : d > today - Period}

\* /login-days answers with the days not before the cutoff.
Served == {d \in logged : d >= today - Window}

FillCache ==
    /\ cache' = [at |-> today, days |-> Served]
    /\ UNCHANGED <<today, sweep, logged, game, grants, paid, mirror, claims, asks>>

-----------------------------------------------------------------------------
(* portal_rewards_claim: from the read of the history to the first grant   *)

Oldest(S) == CHOOSE x \in S : \A y \in S : x <= y

\* The handler asks for the oldest of nos, with the others to follow.
Ask(c, kind, nos, rung) ==
    /\ asks < MaxClaims
    /\ claims[c] = NoClaim
    /\ asks' = asks + 1
    /\ claims' = [claims EXCEPT ![c] =
                    [waits |-> TRUE, op |-> "sent", kind |-> kind, asked |-> today,
                     rung |-> rung, no |-> Oldest(nos), left |-> nos \ {Oldest(nos)},
                     saw |-> "none"]]
    /\ UNCHANGED <<today, sweep, logged, cache, game, grants, paid, mirror>>

ClaimDaily(c) ==
    LET pool == ClaimPool(cache.days, ClaimedKeys("daily"), today) IN
    /\ cache.at # 0 /\ pool # {}
    /\ Ask(c, "daily", pool, TodayRung(cache.days, today))

ClaimWeekly(c) ==
    /\ cache.at # 0
    /\ Current(cache.days, today) >= Requirement
    /\ WeekOf(today) \notin ClaimedKeys("weekly")
    /\ Ask(c, "weekly", {WeekOf(today)}, 0)

ClaimMonthly(c) ==
    LET p == ClaimKey(cache.days, ClaimedKeys("monthly"), today) IN
    /\ cache.at # 0 /\ p # 0
    /\ Ask(c, "monthly", {p}, 0)

-----------------------------------------------------------------------------
(* dune-reward-op.sh, one run for each grant asked for                     *)

Key(c)  == [kind |-> claims[c].kind, no |-> claims[c].no]
At(c, op) == claims[c].op = op

\* Mutant: counted back from tomorrow's rung.
M_Worth(c) == IF claims[c].kind = "daily"
              THEN claims[c].rung - (claims[c].asked - claims[c].no) + 1 ELSE 1

\* What the key is worth: a day its rung, counted back from today's; an item 1.
Worth(c) == IF claims[c].kind = "daily"
            THEN claims[c].rung - (claims[c].asked - claims[c].no) ELSE 1

\* The run goes on to op; its answer is lost on a handler that gave up.
To(c, op) ==
    claims' = [claims EXCEPT ![c] = IF op \in Answered /\ ~@.waits THEN NoClaim
                                    ELSE [@ EXCEPT !.op = op]]

\* Mutant: rolling windows, a day and a week back from now.
M_CapRows(k) ==
    {x \in Keys \ {k} : x.kind = k.kind /\ game[x].st = "applied" /\
        CASE k.kind = "daily"  -> game[x].made >= today - 1
          [] k.kind = "weekly" -> game[x].made > today - Week
          [] OTHER             -> x.no = k.no}

\* Applied rows of the kind, made in the calendar window that now lies in,
\* other than the key's own.
CapRows(k) ==
    {x \in Keys \ {k} : x.kind = k.kind /\ game[x].st = "applied" /\
        CASE k.kind = "daily"  -> game[x].made = today
          [] k.kind = "weekly" -> WeekOf(game[x].made) = WeekOf(today)
          [] OTHER             -> x.no = k.no}

Cap(kind) == CASE kind = "daily" -> DayCap [] kind = "weekly" -> WeekCap [] OTHER -> 1

Capped(c) == Cardinality(CapRows(Key(c))) >= Cap(claims[c].kind)

New(c) == game[Key(c)].st = "none"

\* The key has its row: nothing is changed.  A weekly row counts when applied.
Replays(c) ==
    /\ At(c, "sent")
    /\ IF claims[c].kind = "weekly" THEN game[Key(c)].st = "applied" ELSE ~New(c)
    /\ To(c, "replay")
    /\ UNCHANGED <<today, sweep, logged, cache, game, grants, paid, mirror, asks>>

CapRefuses(c) ==
    /\ At(c, "sent")
    /\ New(c) /\ Capped(c)
    /\ To(c, "capped")
    /\ UNCHANGED <<today, sweep, logged, cache, game, grants, paid, mirror, asks>>

\* Rewards are switched off, or the database, controller or bank said no: the
\* transaction leaves nothing.
Refuses(c) ==
    /\ At(c, "sent")
    /\ To(c, "refused")
    /\ UNCHANGED <<today, sweep, logged, cache, game, grants, paid, mirror, asks>>

\* Daily and monthly: the row and the credit or item in one transaction.
Pays(c) ==
    /\ At(c, "sent") /\ claims[c].kind # "weekly"
    /\ New(c) /\ ~Capped(c)
    /\ game' = [game EXCEPT ![Key(c)] = [st |-> "applied", made |-> today, amt |-> Worth(c)]]
    /\ paid' = [paid EXCEPT ![Key(c)] = @ + 1]
    /\ To(c, "applied")
    /\ UNCHANGED <<today, sweep, logged, cache, grants, mirror, asks>>

\* Mutant: an applied row does not stop the run at the gate.
M_Reserves(c) ==
    /\ At(c, "sent") /\ claims[c].kind = "weekly"
    /\ IF New(c)
       THEN /\ ~Capped(c)
            /\ game' = [game EXCEPT ![Key(c)] = [st |-> "pending", made |-> today, amt |-> 1]]
       ELSE UNCHANGED game
    /\ claims' = [claims EXCEPT ![c] = [@ EXCEPT !.op = "reserved", !.saw = game[Key(c)].st]]
    /\ UNCHANGED <<today, sweep, logged, cache, grants, paid, mirror, asks>>

\* Weekly, phase A: the row is reserved, or taken as an earlier run left it.
Reserves(c) ==
    /\ At(c, "sent") /\ claims[c].kind = "weekly"
    /\ IF New(c)
       THEN /\ ~Capped(c)
            /\ game' = [game EXCEPT ![Key(c)] = [st |-> "pending", made |-> today, amt |-> 1]]
       ELSE /\ game[Key(c)].st # "applied"
            /\ UNCHANGED game
    /\ claims' = [claims EXCEPT ![c] = [@ EXCEPT !.op = "reserved", !.saw = game[Key(c)].st]]
    /\ UNCHANGED <<today, sweep, logged, cache, grants, paid, mirror, asks>>

\* Mutant: the grant has no gate of its own.
M_Mints(c) ==
    /\ At(c, "reserved")
    /\ grants' = grants \cup {Key(c)}
    /\ paid' = [paid EXCEPT ![Key(c)] = @ + 1]
    /\ To(c, "minted") \/ To(c, "failing")
    /\ UNCHANGED <<today, sweep, logged, cache, game, mirror, asks>>

\* Phase B: dune-grant.sh mints unless it has a row for the key.  Its exit may be
\* reported as a failure although the transaction committed.
Mints(c) ==
    /\ At(c, "reserved")
    /\ grants' = grants \cup {Key(c)}
    /\ paid' = [paid EXCEPT ![Key(c)] = @ + IF Key(c) \in grants THEN 0 ELSE 1]
    /\ To(c, "minted") \/ To(c, "failing")
    /\ UNCHANGED <<today, sweep, logged, cache, game, mirror, asks>>

\* Mutant: the exit of the grant script is not looked at.
M_MintFails(c) ==
    /\ At(c, "reserved")
    /\ To(c, "minted")
    /\ UNCHANGED <<today, sweep, logged, cache, game, grants, paid, mirror, asks>>

MintFails(c) ==
    /\ At(c, "reserved")
    /\ To(c, "failing")
    /\ UNCHANGED <<today, sweep, logged, cache, game, grants, paid, mirror, asks>>

\* Phase C: the row is flipped by its id; when the update fails it stays as it is.
Flips(c) ==
    /\ At(c, "minted")
    /\ \/ To(c, "applied") /\ game' = [game EXCEPT ![Key(c)] = [@ EXCEPT !.st = "applied"]]
       \/ To(c, "refused") /\ UNCHANGED game
    /\ UNCHANGED <<today, sweep, logged, cache, grants, paid, mirror, asks>>

\* mark_weekly_failed, best effort, whatever the row says by now.
MarksFailed(c) ==
    /\ At(c, "failing")
    /\ game' = [game EXCEPT ![Key(c)] = [@ EXCEPT !.st = "failed"]] \/ UNCHANGED game
    /\ To(c, "refused")
    /\ UNCHANGED <<today, sweep, logged, cache, grants, paid, mirror, asks>>

\* The run is killed, or its connection is.
OpDies(c) ==
    /\ claims[c].op \in Running
    /\ claims' = [claims EXCEPT ![c] = IF @.waits THEN [@ EXCEPT !.op = "lost"] ELSE NoClaim]
    /\ UNCHANGED <<today, sweep, logged, cache, game, grants, paid, mirror, asks>>

-----------------------------------------------------------------------------
(* portal_rewards_claim: the answers                                       *)

\* Mutant: a refusal that says already claimed is noted as a claim.
M_Granted(c) ==
    LET k == Key(c)  left == claims[c].left IN
    /\ claims[c].waits /\ claims[c].op \in {"applied", "replay", "capped"}
    /\ mirror' = [mirror EXCEPT ![k] = IF @ = 0 THEN Worth(c) ELSE @]
    /\ claims' = [claims EXCEPT ![c] =
                    IF left = {} THEN NoClaim
                    ELSE [@ EXCEPT !.op = "sent", !.no = Oldest(left),
                                   !.left = left \ {Oldest(left)}, !.saw = "none"]]
    /\ UNCHANGED <<today, sweep, logged, cache, game, grants, paid, asks>>

\* A grant that landed is noted, if the local write works, and the next is asked.
Granted(c) ==
    LET k == Key(c)  left == claims[c].left IN
    /\ claims[c].waits /\ claims[c].op \in {"applied", "replay"}
    /\ \/ mirror' = [mirror EXCEPT ![k] = IF @ = 0 THEN Worth(c) ELSE @]
       \/ UNCHANGED mirror
    /\ claims' = [claims EXCEPT ![c] =
                    IF left = {} THEN NoClaim
                    ELSE [@ EXCEPT !.op = "sent", !.no = Oldest(left),
                                   !.left = left \ {Oldest(left)}, !.saw = "none"]]
    /\ UNCHANGED <<today, sweep, logged, cache, game, grants, paid, asks>>

\* A refusal ends the sweep.  So does a timeout, a broken relay or a restart of
\* the portal, at any moment, and then the writer's run goes on by itself.
Stops(c) ==
    /\ claims[c].waits
    /\ claims' = [claims EXCEPT ![c] = IF @.op \in Running
                                       THEN [@ EXCEPT !.waits = FALSE, !.left = {}] ELSE NoClaim]
    /\ UNCHANGED <<today, sweep, logged, cache, game, grants, paid, mirror, asks>>

-----------------------------------------------------------------------------
Init ==
    /\ today = Launch /\ sweep = 0
    /\ logged \in SUBSET (1..(Launch - 1))
    /\ cache = Empty
    /\ game = [k \in Keys |-> NoRow]
    /\ grants = {}
    /\ paid = [k \in Keys |-> 0]
    /\ mirror = [k \in Keys |-> 0]
    /\ claims = [c \in Handlers |-> NoClaim]
    /\ asks = 0

Writer(c) ==
    Replays(c) \/ CapRefuses(c) \/ Refuses(c) \/ Pays(c) \/ Reserves(c)
    \/ Mints(c) \/ MintFails(c) \/ Flips(c) \/ MarksFailed(c) \/ OpDies(c)

Handler(c) == ClaimDaily(c) \/ ClaimWeekly(c) \/ ClaimMonthly(c) \/ Granted(c) \/ Stops(c)

Next ==
    \/ Midnight \/ SweepReads \/ SweepInserts \/ FillCache
    \/ \E c \in Handlers : Writer(c) \/ Handler(c)

Spec == Init /\ [][Next]_vars

-----------------------------------------------------------------------------
(* Properties                                                              *)

\* Whatever is retried, doubled, lost or killed, a day, a week and a period are
\* each paid at most once.  Weekly rows and their mints have gates of their own
\* in two tables, and a run may die between any two of its transactions.
PaidOnce == \A k \in Keys : paid[k] <= 1

\* The ledger tells the truth: an applied row was paid, nothing was paid without
\* a row, and only a weekly row can be left in between.
AppliedIsPaid ==
    \A k \in Keys :
        /\ game[k].st = "applied" => paid[k] = 1
        /\ paid[k] > 0 => game[k].st # "none"
        /\ game[k].st \in {"pending", "failed"} => k.kind = "weekly"

\* The days of the run that day d lies in.
RunAround(d) == {x \in Days : \A y \in Days : (x <= y /\ y <= d) \/ (d <= y /\ y <= x) => y \in logged}

\* A day is paid the rung its run had reached, as long as the run fits the
\* history the portal is given: a late row, a cached history from before midnight
\* and the sweep of several days at once never move a rung.
RungIsEarned ==
    \A k \in Keys : k.kind = "daily" /\ paid[k] > 0 /\ Cardinality(RunAround(k.no)) <= Window
        => k.no \in logged /\ game[k].amt = CycleDay(RunEnding(logged, k.no))

\* The same for every run: the ramp repeats and a longer streak changes nothing.
RampRepeats ==
    \A k \in Keys : k.kind = "daily" /\ paid[k] > 0 => game[k].amt = CycleDay(RunEnding(logged, k.no))

\* A weekly weapon was earned by a full streak that reached its week, or the
\* Sunday before it: never by a streak put together from two broken ones.
WeeklyIsEarned ==
    \A k \in Keys : k.kind = "weekly" /\ paid[k] > 0
        => \E d \in Days : /\ WeekOf(d) = k.no \/ d = (k.no - 1) * Week
                           /\ RunEnding(logged, d) >= Requirement

\* A period's weapon is paid for enough days of that very period, and no later
\* than its grace, give or take the midnight a request may cross.
MonthlyIsEarned ==
    \A k \in Keys : k.kind = "monthly" /\ paid[k] > 0
        => Unlocked(logged, k.no) /\ game[k].made <= k.no * Period + Grace + 1

\* The reward of the period before is not hidden: while its grace lasts, a fresh
\* history offers it as long as it is earned and not noted as claimed, since the
\* new period cannot be unlocked yet and the history still reaches back to it.
EarnedPeriodIsOffered ==
    LET p == PeriodOf(today) - 1 IN
    InGrace(today) /\ Unlocked(logged, p) /\ p \notin ClaimedKeys("monthly")
        => ClaimKey(Served, ClaimedKeys("monthly"), today) = p

\* What the portal shows as claimed was paid on the game host, and for a run that
\* fits the history with the same Solari.
MirrorIsBacked ==
    \A k \in Keys : mirror[k] # 0
        => /\ paid[k] = 1
           /\ k.kind = "daily" /\ Cardinality(RunAround(k.no)) <= Window => mirror[k] = game[k].amt

\* An applied weekly row is only ever undone by a run that had passed the gate
\* before it was applied; a claim made afterwards finds it and stops.
AppliedUndoneOnlyByARacingRun ==
    [][\A k \in Keys : game[k].st = "applied" /\ game'[k].st # "applied"
        => \E c \in Handlers : Key(c) = k /\ At(c, "failing") /\ claims[c].saw # "applied"]_vars

\* A claim is refused for a cap only when a request crossed the boundary of the
\* cap's window: this one did, or a row of an earlier period was made inside it.
CapRefusesOnlyAcrossABoundary ==
    [][\A c \in Handlers : CapRefuses(c) =>
        CASE claims[c].kind = "daily" ->
                \/ claims[c].asked < today
                \/ \E x \in Keys : /\ x.kind = "daily" /\ game[x].made = today
                                  /\ x.no <= today - claims[c].rung
          [] claims[c].kind = "weekly" ->
                \/ WeekOf(claims[c].asked) < WeekOf(today)
                \/ \E x \in Keys : /\ x.kind = "weekly" /\ WeekOf(game[x].made) = WeekOf(today)
                                  /\ x.no < WeekOf(today)
          [] OTHER -> FALSE]_vars
=============================================================================
