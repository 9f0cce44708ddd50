# LastSietch, modelled in TLA+

This directory is a verification project for LastSietch, the control plane of a
Dune: Awakening game server: TLA+ modules written from the source under `src/`,
TLC runs that model-check them on small instances, and TLAPS proofs of what matters
most, for every instance.

    tlc -config StallSafety.cfg MCStall.tla      # one run
    tlc -config EffectsCovered.cfg MCWeekend.tla # another
    tlc -config RewardsPaid.cfg MCRewards.tla
    tlc -config SeventhNight.cfg MCNights.tla
    tlapm StallOrdersProofs.tla                  # one module of proofs

`PROJECT.json` lists the runs, the mutants (small wrong versions of a definition
that a property must catch), the source lines each definition stands for, the
findings and the hazards.

## 1. The system

A browser talks to the portal (`admin-backend`, FastAPI, one process, SQLite file
`admin.db`). The portal has no access to the game database. It asks the relay
(`relay/app.py`), which runs a command on the game host over SSH with a forced
command (`scripts/dune-relay-dispatch.sh`); the command is a shell or Python script
that pipes SQL through `kubectl exec psql` into the game's Postgres. Every hop has a
timeout of its own and none of them ends the work behind it: a relay that gave up
after 45 s leaves a `psql` running. No lock is held across hops. So every write to
the game is built the same way: the portal writes a row first, sends a request with
an idempotency key, and folds the answer back in; timers re-send what is unsettled.

Components and what makes them correct (the full list with reasons is in
`PROJECT.json` under `components`):

| component | state it keeps | operations | must hold |
|---|---|---|---|
| Token Stall (`sietch_nights.py`, `portal_sietch.py`, `sietch-nights-tick.py --deliver`, `do_sn_shop`) | order rows, Token ledger, writer claims, items | place, claim, send, answer, refund, redrive, sweep | paid once; given once or returned; limits and stock; a refund and a grant exclude each other; no order is forgotten |
| Stall role lane (`ack_role`, Cielago's role sync) | the same order rows, Discord roles | queue, add role, ack, refund | as above, without a claim step |
| Evidence and credit (`sietch-nights-tick.py`) | evidence rows per account, ledger per profile | record, credit, knock, award | an evidence is credited once per profile; caps per night |
| Login rewards (`rewards.py`, `portal.py`, `do_daily_solari`, `do_weekly_item`, `do_monthly_augment`) | streak, period key, claims, mirror rows | claim, reserve, mint, flip | one per period, never lost after a crash |
| Grant, guild, gift, Karum, item-transfer, refinery writers | audit rows and the game tables | prepare, apply, undo | idempotent; all or nothing |
| Weekend effects (`event_effects.py`, the runner `event-effects.py`, the worker `event-effect-worker.py`) | event rows, job records, window files, the pods' settings | edit, launch, poll, start, end, re-assert, dead-man | no pod is left on; the game host holds the window the row says; the effect ends without the web host |
| Relay and dispatch | none | route one request | a closed set of verbs |
| Discord bot | tickets, giveaways, votes | Discord handlers | draws once, posts once |
| Telemetry | append-only rows, roll-ups | collect, roll up | a roll-up is idempotent |
| Host operations | flags on disk, pods | watchdog, update, map close | never two restarts at once |
| Read models, front ends, sessions, caches | caches | read | nothing to interleave |

What is hard in this code is nearly always the same: a call that is still running
after its caller gave up, a retry that overtakes it, an answer that comes late or
twice or not at all, a process that dies between "claimed" and "answered", an
operator acting on what a row said a moment ago, and a timer that must in the end
reach every row. The hazards list in `PROJECT.json` names each at its line.

## 2. The Token Stall

### Modules

- `StallPurchase` is the abstract specification: a purchase is paid for once, and
  then completed with the goods given or returned with the goods not given.
- `StallOrders` is the system: the portal's order rows and ledger, the three senders,
  the writer calls and the writer's transaction.
- `MCStall` gives it instances for TLC.
- `StallOrdersProofs` proves what section 6 lists, with the sums of `FoldProofs`.

### State and code

| variable | code |
|---|---|
| `orders` | `portal_sn_orders`. `attempts` only as "0 or more"; `stale` is the comparison of `attempt_at` with `DELIVERING_STALE_S`; `error` by its class; `by` names the refunder of the ledger row |
| `balance`, `refunds` | `SUM(delta)` of `portal_sn_ledger`, and its partial unique index `ux_sn_refund` |
| `bg` | tasks of `_deliver_in_background` that have not claimed yet |
| `batch`, `streak` | the rows the running sweep still has to send, and its sends in a row without an answer |
| `calls` | one writer call each: who waits for it, and how far the writer is |
| `claims`, `goods` | `dune.ls_reward_claims` rows, and how often the goods were put in the game |
| `lateGrants` | a history variable: grants of calls nobody waited for |

The two halves of a call move on their own: `GiveUp`, `PortalRestart` and `SweepDies`
end the waiting half, the `Writer...` actions the running half. The delivery key is
a function of the order (uuid5 of profile, SKU, order id), so the order id stands for
it; the key, SKU and controller that `apply_outcome` wants echoed are then the order's
own, and an answer that does not echo them is the `nocode` answer.

Abstractions: amounts are whole prices, item SQL is one commit, the reasons a writer
refuses for are one answer (`refused`) but for the one given before the key is looked
up (`rejected`); the shop flag and the catalog's opening times only keep actions from
being taken, which every behaviour is free to do anyway; the idempotency key of the
order POST is the choice between `PlaceOrder` and `ReplayOrder`.

### Runs

| run | instance | shows |
|---|---|---|
| `stall_safety` | one buyer, one SKU with limit 1, two orders, three calls, everything may go wrong | `TokensConserved`, `LimitsHold`, `OneSender`, `DeliveredIsGranted`, `UncheckedRefundIsSafe`, `GrantedOnce`, `SettledIsFinal`, and `DoubleGrantExplained`: item and Tokens together have one of three causes |
| `stall_promise` | two buyers, a bank, a RAM-resident and a cosmetic SKU, two orders, two calls; calls end before their senders leave, no override, no deploy | the system implements `StallPurchase`; no blind refund; the writer's own cap holds |
| `stall_settles` | two orders of which one can get through, one call at a time, sweep limit 2 | that one settles in the end |
| `blind_refund` | as `stall_safety`, without override and deploy | **violated**: a refund and then the grant |
| `sweep_starves` | as `stall_settles` with sweep limit 1 | **violated**: the second order is due for ever and never sent |

Bounds. Two orders are enough for a limit, a stock, a queue with a head and a refunded
order followed by a new one. Three calls allow a late call, a retry and the answer to
either while another order is sent; symmetric. `SweepLimit` and `FailsToStop` stand for
10 and 3: what counts is whether the backlog fits. Numbers of retries are not bounded.

Fairness (`FairSpec`): the sweep's timer fires and its loop goes on, and from some time
on it is no longer killed half way; operators do not redrive for ever; every call ends
and every sender has a timeout; 900 s pass. About the game host only this: an order in
`Reachable` that is sent again and again is not for ever met by a closed gate, a
character in game, a failure without a code or an answer that comes too late. Orders
outside `Reachable` have no such luck, which is what the starvation is about. The
portal may restart for ever.

### Findings

1. *A refund can be blind* (`blind_refund`). The comment above `LANES` promises there is
   never a blind refund. The code refunds on a definite refusal of the latest call. If an
   earlier call for the same key timed out but is still running, it can commit after the
   refund. The writer's key does not help: a refused transaction rolls its row back.
   `DoubleGrantExplained` says this, a confirmed refund over a running call, and a
   `rejected` after a deploy that dropped the SKU are the only ways.
2. *The sweep can starve orders* (`sweep_starves`). The tick's text says `--deliver`
   re-sends every queued or reconciling order; it re-sends the ten oldest, and stops
   after three sends without an answer. Enough stuck orders keep the rest from being sent.

## 3. The weekend effects

An event published in the Events Manager changes a live setting on every game pod for
its window. `WeekendEffects` models the four processes that share this, on two hosts,
and `MCWeekend` gives them instances.

| variable | code |
|---|---|
| `event` | `portal_events`, its status, window and effect columns; `at` is `effect_job_at` |
| `tick` | a run of `event-effects.py`: the rows it read and the answer it waits on |
| `record` | `/var/lib/lastsietch-event-effects/<id>.<phase>` |
| `unit` | the transient unit of a start or an end, how far `run_live` is |
| `window` | `/etc/lastsietch/event-effects/<id>`, by the end it holds |
| `pods` | the cvar on each pod |
| `pass` | a run of `do_assert`: the windows it listed and where it is |
| `alerted` | a history variable: staff were told that a pod is still on |

| actions | code |
|---|---|
| `Edit`, `Cancel` | `v2_events_update`, `v2_events_cancel`, `state_after_write`, the compare-and-set of `update_event` |
| `TickBegins`, `TickDecides`, `TickLaunches`, `TickPolls`, `TickRecords`, `TickDies` | `tick`, `decide`, `act`, `launched`, `poll`, `transition`; `cmd_launch` and `cmd_status` at the far end of the ssh |
| `UnitChecks` ... `UnitReadsOff` | `run_live`, one action per command that takes time |
| `PassBegins` ... `PassReadsOff`, `PassDies` | `do_assert` |
| `PodRestarts`, `HostRestarts`, `Advance` | the world |

A tick holds what it read while admins write, an ssh launches and then answers or not,
a unit takes as long as it takes, a set reaches the pods it reaches. What a run lets
happen beyond that is its `Faults`: a lost answer, a unit that outlasts the clock's
step, an admin's write during a tick, a pass overlapping a change of the window files,
a pass killed half way.

Abstractions: all events have the same live effect; its two cvars are one setting; a
setting that someone tuned by hand is a refused precheck; the kill switch is a refused
launch or a pass not taken. A readback goes by the pods' last 20 s of log: `took` keeps
what each reader's own set printed there; lines that another process printed in the same
20 s are not modelled. A launch or a command that the ssh delivers after the runner gave
up on it is not modelled either, nor an exception in the middle of the worker (it would
alert).

### Runs

| run | instance | shows |
|---|---|---|
| `effects_covered` | one event, two pods, one window; lost answers, slow units, edits during ticks | `OnIsCovered`: a pod that is on has a window file, a unit or a pass that will put it back, or staff know. `EffectEnds`: in the end it is off or staff know |
| `effects_window` | two events, one pod, two windows to move between; killed and overlapping passes | `HostHasTheRowsWindow`: while the row says running the host holds that row's end |
| `effects_outlive` | as above with overlapping passes | `OnIsCovered` **violated** |
| `effects_drift` | as above with lost answers | `HostHasTheRowsWindow` **violated** |

Bounds. The clock stops at `MaxTime`, past the end and the grace of every window, so
waiting, starting, a start after the end, the end, the grace and the dead-man all
happen. Two admin writes publish and then withdraw, move, re-arm or cancel. One window
is enough where the question is whether anything is left on, two where the window may
move. Two pods make a partial start or a partial revert. `JobTimeout` is 1, less than a
slow unit takes.

Fairness (`FairSpec`). Time passes, a tick and a unit that began go on (every external
command of theirs has a timeout), the assert timer of the game host fires and its
passes go on, the kill switch stays on, and from some time on the game host is not
rebooted. Of the web host's timer and of the ssh nothing is assumed: that the effect
ends without them is the point.

One more interleaving lies outside these bounds, and outside the theorem of section 6: a
dead-man that closes a window while an end has just been launched writes the end's result
in its place. The row is then done with the unit still to run, and if the event is re-armed
with a later window before that unit gets to its `remove_window`, the unit removes the new
one. It takes an end unit that is minutes slow to start.

### Findings

3. *An effect can outlive its end* (`effects_outlive`). `run_live` removes the window
   first so that the assert timer does not put the effect back, but a pass that has
   already listed the window does not look again. It sets the effect on after the end
   has read it back, and with the file gone no dead-man comes.
4. *A launched start may not count as in flight* (`effects_drift`). When the answer of
   the launch is lost, `effect_job` stays NULL, so the window may still be moved; the
   next launch answers "already running" and the row runs with a window the game host
   does not have. The README's "frozen while it runs or starts" needs the answer.

## 4. The login rewards

A player is paid Solari for each day played, a weapon for a streak once a week, and an
augmented weapon once a 28-day period. `LoginRewards` models one account (two accounts
share nothing) from the recorder that writes its days to the row the portal shows, and
`MCRewards` gives it instances. `LoginRewardsProofs` and `LoginEarnedProofs` prove every
property of its passing run.

| variable | code |
|---|---|
| `today` | the UTC date of every host; the unit of time is the day |
| `sweep`, `logged` | a run of the `login_days` stream between its clock and its insert, and `portal_login_days` |
| `cache` | the entry of `cached_reward_login_days`, with the day it was fetched |
| `game` | `dune.ls_reward_claims`, by key: status, day of `created_at`, amount as a rung |
| `grants`, `paid` | `ls_progression_grants` by key; how often the Solari or the item was given (history) |
| `mirror` | `ls_reward_claims` of the portal, by the rung noted |
| `claims` | each handler of `POST /portal/rewards/claim`, whether it still waits, and how far its writer's run is |

| actions | code |
|---|---|
| `SweepReads`, `SweepInserts`, `FillCache`, `Midnight` | the stream, the read API with its window (`Served`), `ttl_cache`, the clock |
| `ClaimDaily`, `ClaimWeekly`, `ClaimMonthly` | the handler up to its first grant: `compute_streak`, `claim_pool`, `monthly_claim_state` |
| `Replays`, `CapRefuses`, `Refuses`, `Pays` | the one transaction of the daily and monthly writers |
| `Reserves`, `Mints`, `MintFails`, `Flips`, `MarksFailed` | phases A, B and C of the weekly writer, with `dune-grant.sh`'s own gate in between |
| `OpDies`, `Stops` | a writer or its connection is killed; the handler stops at a refusal, times out, or the portal restarts |
| `Granted` | `record_claim`, which may fail, and the next day of the sweep |

Every step of a writer is its own action, so runs of one key overlap as they may: the
portal and the relay both give up after 45 s and neither ends the script. A key is
(kind, period) because the idempotency key is a uuid5 of just these. Abstractions: a
switched-off reward ("deferred"), a full or unopened bank, a missing controller and a
concurrent insert that leaves `_reward_gate` without a row are one answer, `Refuses`;
the item and its augments are not looked at; a request, a writer and a sweep see at most
one midnight each (their timeouts add up to minutes).

### Runs

| run | instance | shows |
|---|---|---|
| `rewards_paid` | two handlers (symmetric), two claims in all, days 1 to 6 opening on day 4 with any history before, cycle and week of 2 days, period of 4 with 3 required and 1 of grace, history of 5 days | `PaidOnce`, `AppliedIsPaid`, `RungIsEarned`, `WeeklyIsEarned`, `MonthlyIsEarned`, `EarnedPeriodIsOffered`, `MirrorIsBacked`, `AppliedUndoneOnlyByARacingRun`, `CapRefusesOnlyAcrossABoundary` |
| `rewards_ramp` | one handler, a history of 3 days and runs longer than that | `RampRepeats` **violated** |

Bounds. Two claims overlap, follow each other over a midnight, or retry what the other
left; a third would only be another retry. A cycle of two days has a first and a last
rung and a way round; six days hold a period, its grace and a full week after it, and a
run that fits the history and goes over two cycles. `DayCap` is `Cycle` as in the code
(7 and 7).

### Findings and remarks

5. *The ramp stops after 60 days* (`rewards_ramp`). The read API answers with 60 days
   unless asked for more, and nobody asks. A player who never misses a day has from then
   on day number 61 every day, which is rung 5, and a flame that stays at 61. `rewards.py`
   says the ramp repeats and the streak keeps counting. For runs that fit the history,
   `RungIsEarned` holds in `rewards_paid`.

Remarks, seen while modelling and no disagreement a run checks: an applied weekly row
*can* be overwritten with `failed` by a run that was past the gate before it was applied
(what `AppliedUndoneOnlyByARacingRun` leaves open); the next claim of that week repairs
it without a second mint, a later week has no way to. The comments at
`dune-reward-op.sh:181` and `:337` promise that a claim of the next day or week is not
rejected over the boundary; the row's time is when it was written, the key is the
portal's, so a claim that crosses the boundary uses up the next window's cap, and that is
the only way (`CapRefusesOnlyAcrossABoundary`). Days of an ended cycle are dropped by
design, and on a Monday the streak that ended on Sunday earns the new week's weapon.

## 5. The Seven Nights: credit, and the role lane

What an account did is *evidence* (`portal_sn_earn`); what a profile is paid is the
*ledger*. Worker, state page and Knock each write evidence and end with a credit pass over
the accounts they believe the profile has. The role lane of the Token Stall spends what is
credited: an order is paid for, and a script beside the Discord bot puts the role on and
reports back.

- `NightCredit` models evidence and credit; `RoleLane` the lane, over a `purse` that
  belongs to somebody else and only grows; `SietchProfiles` the profiles both know.
- `SietchNights` composes them: `purse` is kept equal to the sum of the earn rows.
  `CreditOnlyAdds` says that the composition implements `RoleLane` alone (`LaneSpec`), that
  is, that nothing the credit side does takes back what may have been spent.
- `MCNights` gives the instance. `RoleLaneProofs` proves the lane, `NightCreditProofs` the
  credit side and the composition.

| variable | code |
|---|---|
| `now` | the night, or the hours of grace |
| `link`, `held` | `portal_profile_accounts` not revoked; every profile an account was ever linked to (history), which `portal_account_owners` holds to one |
| `played`, `fit` | the telemetry's login days; `portal_sn_accounts` |
| `earn`, `ledger` | `portal_sn_earn`; the earn rows of `portal_sn_ledger` |
| `tick` | a run of `sietch-nights-tick.py`, between its commits |
| `req` | the state page or Knock each profile has in flight, with the accounts it has read |
| `score`, `base`, `delta`, `gained` | the mirror's Landsraad values; `portal_sn_landsraad_ladder`; `portal_sn_landsraad`; what was really turned in (history) |
| `purse` | the sum of a profile's earn rows |
| `orders`, `spent`, `refunds` | `portal_sn_orders` of the lane, and its debit and refund rows |
| `guild`, `holders`, `granted` | Discord's members and role, and its 204s (history) |
| `run` | a run of `sietch_role_sync.py`: the rows it read and where it is |

| actions | code |
|---|---|
| `TickStarts`, `TickPulls`, `TickCredits`, `TickDies` | `tick`: mirror and Landsraad, one pull and its commit, `credit_all`; killed in between |
| `AsksState`, `Folds` | `portal_sietch_state`: the accounts before the await, `_fold_and_credit` after it |
| `AsksKnock`, `Opens`, `Hits`, `GivesUp` | `portal_sietch_knock`: the position, the accounts before the lock, `_knock_txn` |
| `Links`, `Unlinks` | a link or relink with `finish_legacy_links`; a player's own `unlink_account`, after which the account is free but its owner stays on record |
| `PlaceOrder`, `OperatorRefunds`, `AckRole` in `Reports` | `place_order`, `v2_sietch_refund`, `ack_role` |
| `ReadsQueue`, `Grants`, `Holds`, `Unknown`, `Reports`, `RunDies` | the script's loop, one action per call that takes time, each answer lost or not |
| `Plays`, `TurnsIn`, `TermEnds`, `NightFalls`, `Leaves`, `Joins` | the world |

Abstractions: evidence is taken in an order TLC fixes instead of by id, which only
decides which ref of a capped source gets less; a Knock that is throttled, closed,
ineligible, off the map, stale or a miss is `GivesUp`; spots do not change during the
event; a Knock's storm bonus is off, as the portal passes it; contest and admin awards
are left out (one insert behind a unique index each); the refs that name no spot (the
empty one, the turn-ins', the trail's) are the names `"only"`, `"t"` and `"trail"`; a
mirror row without a Landsraad payload counts as stale. An account revoked by staff is
`Unlinks` too, as far as the credit pass can tell, but the route is not modelled.
`Installed` says that credentials are (`portal_account_owners` exists), which is the
deployed state; without it the same evidence *is* paid to two profiles after a relink.
One run of the role sync at a time is taken for granted, and a role order of a session
without a Discord id is charged and never queued for the script; both are in the
hazards.

### Run

`seven_nights`: two nights, two profiles (symmetric), two accounts of which one is in the
mirror, two doors under a cap they overrun, a trail of two clues, one hidden spot with one
bonus, one ladder of each kind, one role order, and three deeds of players in all.
It checks the caps and the unique refs (`CapsHold`), owners (`PaidToItsOwner`), the trail
(`TrailInOrder`), the bonus (`FirstFinders`), Landsraad (`OfferingsAreReal`), visits
(`NoNightForgotten`), the credit pass (`NothingOwed`), the lane (`RoleOrTokens`,
`DeliveredIsGranted`, `TokensAddUp`) and the refinement (`CreditOnlyAdds`).

Bounds. A deed is a visit, a turn-in, the end of a term, a request, a (re)link or
unlink, an order, a refund or a change of the guild; the worker's ticks, the script's
steps and the midnights are not counted, so with three deeds a request, a relink and a
second request, an unlink, a link and a request, or a turn-in, a term and a turn-in, or
an order, a refund and a leaving member interleave with them in every way. One order is
enough for a queue of one; longer queues and several orders of one buyer are the proofs'
business. The mutants show that every property's case is reached.

## 6. Proofs

`StallOrdersProofs` proves, for any catalog, buyers, number of orders and calls (from
`CatalogAssumption` and `BoundsAssumption` only): `TypeOK`, `OneSender`, `GrantedOnce`,
`DeliveredIsGranted`, `UncheckedRefundIsSafe`, `DoubleGrantExplained`, `LimitsHold`,
`SettledIsFinal` and `TokensConserved`.

The inductive invariant `IInv` adds four things to the properties. `Untried`: an order
with no attempt has no call and no claim, because `begin_delivery` counts the attempt
before the call leaves; this makes an unchecked refund safe. `OpenAlone`: open
transactions exclude each other and a committed row. `AnswersTrue`: an answer still on
its way tells the truth about the claims table, except that a refusal may have been
overtaken by a call given up before. `RefundsSigned`: a refund has an author. The step
cases are grouped by what they touch (a sender's memory, the writer's side of a call,
the sender's side, one row), one lemma each; `NextIInv` has one step per action.
`RowsKept` says what any step may do to a row and gives `SettledIsFinal` and `LimitsHold`.

`TokensConserved` equates a balance with a sum over orders. A step changes one order, so
its sum changes by one term (`SpentAdd`, `SpentSame`), which is what `place_order` and
`refund` add to the ledger (`MoneyMoves`); no balance is negative because a price is only
taken from one that covers it.

`FoldProofs` is what every proof about a sum stands on. The sums are folds of the community
modules: a function chosen to satisfy a recursive equation. The library's induction takes
an operator, so induction is stated over sets here, with no operator parameter:
a set of numbers with zero and every successor is `Nat` (`NatInduct`), a family of subsets
with the empty one and every one-element extension has the whole (`SetInduct`). From these
come that such a function exists, what it returns, that it does not depend on the order,
grows with the set, and that a fold keeps what each step of it keeps.

The last part of `StallOrdersProofs` assumes `~LateCalls`, `~ConfirmRefunds` and `~Deploys`
and proves that the Stall implements `StallPurchase` (`KeepsPromise`) and that no refund is
blind (`NoBlindRefund`). `Calm` is what these three add to `IInv`: every running call has a
waiting sender.

`WeekendEffectsProofs` proves, for any events, windows, pods, timeouts and bounds (from
`EffectsAssumption`): `TypeOK`, and `OnIsCovered` when `Faults` has neither
`"passOverlap"` nor `"passKilled"`. `OnIsCovered` asks only whether something answers for
the pods that are on, which is not inductive: a readback that succeeds gives up its own
answer. `EveryPodAnswered` says for each pod what answers for it, where a readback
answers only for the pods that did not take the value, since it cannot succeed while one
of those is on. `ListedIsOpen` says that a pass has listed no window that is gone, but
the one it is closing, so that what it sets on is covered by the file; this is where the
two excluded faults come in. `ReplyFits` (a launch is only answered where one was
decided on) is what the types need. One lemma per process, one step per action.

`WeekendWindowProofs` proves `HostHasTheRowsWindow` for any events, pods and windows under
`Orderly`: no lost answer, no unit slower than the clock, no admin's write during a tick, a
job timeout, and windows that end within the grace of each other. Without any one of the
faults' exclusions TLC finds a counterexample; the passes may overlap and die as they like.
The property links a row to a file through a job, a record and a unit, so the invariant
`OpenInv` follows that chain: `UnitsWork` (a unit at work was asked for, has no result yet,
is younger than the job timeout, and a start carries its row's end), `StartsHold` (a start
recorded as ok has left the window, though the row does not know yet), `AnswersHold` (what
was polled is still true when it is written down), `RowsHold`. It is only claimed while some
window is `Open`: afterwards dead-men may come, and nothing is left to show. Frames come
first (`WebMoves`, `UnitMoves`, `HostMoves`), then one lemma per action.

`LoginRewardsProofs` proves, for any bounds, caps and number of handlers (from
`RewardsAssumption`): `TypeOK`, `PaidOnce`, `AppliedIsPaid`, the first half of
`MirrorIsBacked` (`NotedClaimsArePaid`) and `AppliedUndoneOnlyByARacingRun`. `PaidOnce`
alone is not inductive, since two tables guard the weekly item. `Gates` says what they say
together: a weekly key is paid exactly when `ls_progression_grants` has it, then the claims
table has a row, and an applied row has a grant; for the other kinds paid and applied are
the same. `RunsKnow` says what a run may rely on at each step: after phase A there is a
row, after the mint there is a grant, an answer "applied" or "replay" is backed by a
payment; and a run in phase B saw a row that was not applied. `OnTheRamp` keeps the days of
a sweep on today's ramp, without which `Worth` has no type. One lemma per action.

`LoginEarnedProofs` proves what depends on the history, for every length of ramp, streak,
week, period, grace and history that `RewardsAssumption` allows. What is paid today was
judged by a cached history, yesterday perhaps.

For periods (`MonthlyIsEarned`, `EarnedPeriodIsOffered`), `Recorded` says that the cache
knows recorded days only and that no day is recorded before it comes; `MonthlyRuns` that a
monthly claim on its way was due on the day it was asked and has seen one midnight at most;
`MonthlyRows` that a row was made in time. Days are never taken back, so what was due stays
due. The offer rests on the calendar: the grace is too short to earn the next period
(`Grace < Required`), and the history reaches back to the first day of the one before
(`Period + Grace <= Window`).

For days and weeks (`RungIsEarned`, `WeeklyIsEarned`, `MirrorIsBacked`) a day more could do
harm: one recorded late, between two others, would join their runs and change the rung of
what is paid already. `CacheKnows` says that this cannot be: days are recorded in their
order, and the cache has every day before one it knows, back to where its history began. So
a rung once right stays right (`RankedStays`), and the streak once reached stays reached
(`StreakStays`). `PoolIsRanked` is the heart: the rungs a claim counts back from today's are
those of the recorded run. Either the run in the cache begins where the recorded one does,
or there is a day before it that only the history's end can hide, and then the run is longer
than the window. `EarnedRuns`, `EarnedRows` and `EarnedNotes` carry this from the claim to
the ledger and to the portal's table. Quotients and remainders are handled once (`DivModOf`,
`DivModIs`, `CycleBack`, `WeekSteps`).

`CapRefusesOnlyAcrossABoundary` counts rows: a claim asked today lies on today's ramp with
every row made today, and a ramp has no more rungs than the cap lets through (`Cycle <=
DayCap`); a week's cap is only filled by a row of another week, which is an earlier one; a
period's key is its own cap.

`RoleLaneProofs` proves, for any buyers, price, limit and purse (from `LaneAssumption`):
`RoleOrTokens`, `DeliveredIsGranted` and `TokensAddUp` of `LaneSpec`. `Settled` says who
settled an order and on whose word; `RunRelies` says what the script's next report stands
on: a positive one on a grant, a negative one on a buyer who, having left, cannot hold the
role unless another order of theirs stands. These hold of every purse that only grows.

`NightCreditProofs` proves, for any nights, profiles, accounts, spots and ladders (finite
sets; `CreditAssumption`, and `SpotAssumption` for what `validate_spot` and the primary key
of the spots say), every property of the `seven_nights` run: `TypeOK`, `CapsHold`,
`PaidToItsOwner`, `TrailInOrder`, `FirstFinders`, `OfferingsAreReal`, `NoNightForgotten`,
`NothingOwed`, `CreditOnlyAdds` and the lane's three. It starts with the credit pass alone, a
fold over evidence: started on a `Sound` ledger (each ref paid once, no night above its
cap) it ends on one, takes nothing away, pays only what has evidence and leaves nothing
`Paid` does not call paid, in whatever order the evidence comes. The inductive invariant
`NInv` then says who may bring evidence when. `Asked`: what a request read before it waited
belonged to its profile once. `Owned`: with credentials an account never has a second
holder. Together they give `Backed`, each row standing on evidence of its payee, though the
links may have changed. `FindsPaid`: a find is paid in the transaction that notes it; a
later pass thus never pays one, so steps that note no find (`Quiet`) cannot disturb the
trail or the bonus. `TrailKept` orders clues pairwise, which unlike `TrailInOrder` says what
the next clue needs. `DaysKept`: a visit is of a day played. `OfferingsKept` adds to what was
counted what the next reading would find (`Pending`), since a reading only moves from one to
the other and a term's end only loses. `NightsImplementLane` shows that a sum over the rows
grows when rows are added, so that the composition is a behaviour of `LaneSpec` and the
lane's theorems hold of it (`LaneHoldsTogether`).

Only model-checked: liveness (`EveryOrderSettles`, `EffectEnds`), which needs fairness and
ENABLED. Every other property of a passing run is a theorem.

## 7. Not modelled, and the plan

`PROJECT.json` has every component with its status and the reason. Not modelled yet: the
Solari cap that bank and wallet SKUs share, the catalog's clock, the restart effects, and
the components below. Left out for good: read models, front ends, the item SQL of the
writers, Discord I/O. They are most of the repository: of its 110 000 lines nearly all
route, query, validate or render, one request at a time, and change no state that two
actors share. What is modelled is where requests, timers, scripts and restarts meet, and
that is a small share of the lines.

In this order:

1. The two-phase operations of the guild, gift, Karum and item-transfer writers, as one
   module: a claim row, an apply, an answer that may be lost.
2. The blueprint market's sale, with its fee between two ledgers.
3. The refinery's write with its undo record.
4. The watchdog against the update orchestrator: never two restarts at once.
5. Two overlapping runs of the role sync, if its timer is ever changed to allow them.
