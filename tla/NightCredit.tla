---------------------------- MODULE NightCredit ----------------------------
(***************************************************************************)
(* How players earn tokens on the Seven Nights.                            *)
(*                                                                         *)
(* What an account did is evidence: rows written once, by the worker's     *)
(* tick, by a page load and by a Knock.  What a profile is paid is a       *)
(* ledger: each of the three ends with a credit pass over the evidence of  *)
(* the accounts linked to a profile, and the night's caps clip it there.   *)
(* Links change while requests wait with a list of accounts they have read *)
(* before; with credentials installed an account never changes its owner.  *)
(*                                                                         *)
(* The unit of time is the night, then the hours of grace; after the close *)
(* nothing begins and what is under way ends as it would have before.      *)
(***************************************************************************)
EXTENDS SietchProfiles, Integers, Sequences, FiniteSets, FiniteSetsExt

CONSTANTS
    Accounts,
    Nobody,       \* no profile
    Installed,    \* credentials are: portal_account_owners fixes every owner
    Veterans,     \* accounts whose level or early login qualifies them
    Mirrored,     \* accounts with a Landsraad row in the mirror
    Nights,       \* number of nights of the event
    Offerings,    \* the night whose offerings count double
    Spots,        \* portal_sn_spots: [id, night, kind, seq, award, bonus]
    VisitAward, StreakAward, KnockCap, RefAward, TrailAward,
    Threshold,    \* LANDSRAAD_T
    FirstN,       \* SEEK_FIRST_N
    Counts,       \* ladders that count turn-ins ("<ladder>#n")
    Points,       \* ladders that carry points
    Gains,        \* points one turn-in may bring
    MaxDeeds      \* visits, turn-ins, terms, requests, links and unlinks ever (bound)

Ladders == Counts \cup Points
Event   == 1..Nights
Grace   == Nights + 1   \* the six hours after the last night

ASSUME CreditAssumption ==
    /\ Nobody \notin Profiles /\ Installed \in BOOLEAN
    /\ Veterans \subseteq Accounts /\ Mirrored \subseteq Accounts
    /\ Nights \in Nat \ {0} /\ Offerings \in Event
    /\ {VisitAward, StreakAward, KnockCap, RefAward, TrailAward, Threshold, FirstN} \subseteq Nat \ {0}
    /\ Gains \subseteq Nat \ {0} /\ MaxDeeds \in Nat
    /\ Counts \cap Points = {} /\ Points # {}
    /\ IsFiniteSet(Profiles) /\ IsFiniteSet(Accounts) /\ IsFiniteSet(Spots) /\ IsFiniteSet(Ladders)

\* validate_spot, and the primary key of portal_sn_spots.  "only", "t" and "trail"
\* stand for the refs that are no spot's: "", "t1" and on, "trail:all".
ASSUME SpotAssumption ==
    \A s \in Spots :
        /\ s.night \in Event /\ s.kind \in {"porch", "clue", "seek"}
        /\ s.award \in Nat \ {0} /\ s.bonus \in Nat /\ s.seq \in Nat
        /\ s.id \notin {"only", "t", "trail"}
        /\ \A t \in Spots : s.id = t.id => s = t

VARIABLES
    now,      \* the night, or Grace
    link,     \* the profile each account is linked to, or Nobody
    held,     \* the profiles each account was ever linked to (history)
    played,   \* telemetry: the nights each account was seen on
    fit,      \* portal_sn_accounts: those the portal knows to qualify
    earn,     \* portal_sn_earn
    ledger,   \* portal_sn_ledger, the earn rows
    tick,     \* the worker's tick: when it began, or 0
    req,      \* the request each profile has in flight
    score,    \* Landsraad: the mirror's value for each account and ladder
    base,     \* the last value folded, or NoBase
    delta,    \* points and turn-ins counted for each account and night
    gained,   \* what the account gained since its first reading (history)
    deeds

nightVars == <<now, link, held, played, fit, earn, ledger, tick, req,
               score, base, delta, gained, deeds>>

Sources == {"visit", "landsraad", "knock", "activity", "streak"}
NoBase  == -1
NoReq   == [step |-> "none", acc |-> Nobody, accs |-> {}, at |-> 0]

TypeOK ==
    /\ now \in 1..Grace /\ tick \in 0..Grace
    /\ link \in [Accounts -> Profiles \cup {Nobody}]
    /\ held \in [Accounts -> SUBSET Profiles]
    /\ played \in [Accounts -> SUBSET Event]
    /\ fit \subseteq Veterans
    /\ \A e \in earn : e.acc \in Accounts /\ e.night \in Event /\ e.source \in Sources /\ e.amt > 0
    /\ \A r \in ledger : /\ r.who \in Profiles /\ r.night \in Event
                         /\ r.source \in Sources /\ r.amt > 0
    /\ \A p \in Profiles : req[p].step \in {"none", "state", "knock", "opens"}
    /\ \A a \in Accounts, l \in Ladders : base[a][l] \in {NoBase} \cup Nat /\ score[a][l] \in Nat
    /\ deeds \in 0..MaxDeeds

-----------------------------------------------------------------------------
(* Evidence                                                                *)

Evidence(a, n, source, ref, amt) ==
    [acc |-> a, night |-> n, source |-> source, ref |-> ref, amt |-> amt]

Visit(a, n) == Evidence(a, n, "visit", <<"only", 0>>, VisitAward)

SameRef(x, y) == x.night = y.night /\ x.source = y.source /\ x.ref = y.ref

\* INSERT OR IGNORE: one row for an account, night, source and ref.
AddEarn(E, es) == E \cup {e \in es : \A x \in E : ~(x.acc = e.acc /\ SameRef(x, e))}

\* Mutant: only the night under way is looked for.
M_RecordLoginDays(E, a, dates, today) == AddEarn(E, {Visit(a, n) : n \in dates \cap {today}})

\* record_login_days: a visit for every night of the event seen, up to tonight.
RecordLoginDays(E, a, dates, today) == AddEarn(E, {Visit(a, n) : n \in {d \in dates : d <= today}})

-----------------------------------------------------------------------------
(* Credit                                                                  *)

Rows(L, p, n, source) == {r \in L : r.who = p /\ r.night = n /\ r.source = source}

Credited(L, p, n, source) == MapThenSumSet(LAMBDA r : r.amt, Rows(L, p, n, source))

Rungs(n) == IF n = Offerings THEN 4 ELSE 2   \* of each ladder, that pay

\* What a night pays at most from a source; activity has no cap.
CapFor(n, source) == CASE source = "visit"     -> VisitAward
                       [] source = "knock"     -> KnockCap
                       [] source = "landsraad" -> Rungs(n) * RefAward
                       [] source = "streak"    -> StreakAward

Row(p, e, amt) == [who |-> p, night |-> e.night, source |-> e.source, ref |-> e.ref, amt |-> amt]

\* Mutant: the cap clips each ref by itself.
M_Clipped(L, p, e) == IF e.source = "activity" THEN e.amt ELSE Min({e.amt, CapFor(e.night, e.source)})

\* What is left of the cap for a piece of evidence.
Clipped(L, p, e) ==
    IF e.source = "activity" THEN e.amt
    ELSE Min({e.amt, CapFor(e.night, e.source) - Credited(L, p, e.night, e.source)})

CreditOne(p, L, e) ==
    IF Clipped(L, p, e) <= 0 \/ \E r \in L : r.who = p /\ SameRef(r, e) THEN L
    ELSE L \cup {Row(p, e, Clipped(L, p, e))}

\* Mutant: the streak is written to the night after the last.
M_CreditStreak(p, L) ==
    IF \A n \in Event : Rows(L, p, n, "visit") # {}
    THEN L \cup {Row(p, [night |-> Grace, source |-> "streak", ref |-> <<"only", 0>>], StreakAward)}
    ELSE L

\* A credited visit on every night pays once more, on the last.
CreditStreak(p, L) ==
    IF \A n \in Event : Rows(L, p, n, "visit") # {}
    THEN L \cup {Row(p, [night |-> Nights, source |-> "streak", ref |-> <<"only", 0>>], StreakAward)}
    ELSE L

\* Mutant: the accounts' rows are made again from the evidence there is now.
M_CreditProfile(L, E, p, accs, F) ==
    IF accs \cap F = {} THEN L
    ELSE CreditStreak(p, FoldSet(LAMBDA e, M : CreditOne(p, M, e), {r \in L : r.who # p},
                                 {e \in E : e.acc \in accs}))

\* credit_profile: nothing unless one of the accounts qualifies; then every ref
\* that has no row yet, one after the other, whichever account it is of.
CreditProfile(L, E, p, accs, F) ==
    IF accs \cap F = {} THEN L
    ELSE CreditStreak(p, FoldSet(LAMBDA e, M : CreditOne(p, M, e), L, {e \in E : e.acc \in accs}))

Linked(p) == {a \in Accounts : link[a] = p}

\* Mutant: a profile is passed over while any of its accounts does not qualify.
M_CreditAll(L, E, F) ==
    FoldSet(LAMBDA p, M : IF Linked(p) \subseteq F THEN CreditProfile(M, E, p, Linked(p), F) ELSE M, L, Profiles)

CreditAll(L, E, F) ==
    FoldSet(LAMBDA p, M : CreditProfile(M, E, p, Linked(p), F), L, Profiles)

-----------------------------------------------------------------------------
(* The world: nights, players, the telemetry, the mirror, links            *)

Deed == deeds < MaxDeeds /\ deeds' = deeds + 1

\* A tick takes minutes and a request seconds: each may see one midnight.
NightFalls ==
    /\ now < Grace
    /\ tick \in {0, now}
    /\ \A p \in Profiles : req[p].step # "none" => req[p].at = now
    /\ now' = now + 1
    /\ UNCHANGED <<link, held, played, fit, earn, ledger, tick, req,
                   score, base, delta, gained, deeds>>

Plays(a) ==
    /\ Deed /\ now \in Event \ played[a]
    /\ played' = [played EXCEPT ![a] = @ \cup {now}]
    /\ UNCHANGED <<now, link, held, fit, earn, ledger, tick, req,
                   score, base, delta, gained>>

TurnsIn(a, won) ==
    LET step(l) == IF l \in Points THEN won ELSE 1
        known(l) == base[a][l] # NoBase IN
    /\ Deed /\ now \in Event
    /\ score'  = [score EXCEPT ![a] = [l \in Ladders |-> @[l] + step(l)]]
    /\ gained' = [gained EXCEPT ![a] = [l \in Ladders |-> @[l] + IF known(l) THEN step(l) ELSE 0]]
    /\ UNCHANGED <<now, link, held, played, fit, earn, ledger, tick, req,
                   base, delta>>

\* A new term starts every ladder again.
TermEnds(a) ==
    /\ Deed /\ \E l \in Ladders : score[a][l] > 0
    /\ score' = [score EXCEPT ![a] = [l \in Ladders |-> 0]]
    /\ UNCHANGED <<now, link, held, played, fit, earn, ledger, tick, req,
                   base, delta, gained>>

\* Mutant: the owner is not looked up.
M_Links(p, a, relink) ==
    /\ Deed /\ link[a] = Nobody
    /\ link' = [b \in Accounts |-> IF b = a THEN p
                                   ELSE IF relink /\ link[b] = p THEN Nobody ELSE link[b]]
    /\ held' = [held EXCEPT ![a] = @ \cup {p}]
    /\ UNCHANGED <<now, played, fit, earn, ledger, tick, req,
                   score, base, delta, gained>>

\* An account nobody holds is linked; a relink gives up the profile's others.
Links(p, a, relink) ==
    /\ Deed /\ link[a] = Nobody
    /\ Installed => held[a] \subseteq {p}
    /\ link' = [b \in Accounts |-> IF b = a THEN p
                                   ELSE IF relink /\ link[b] = p THEN Nobody ELSE link[b]]
    /\ held' = [held EXCEPT ![a] = @ \cup {p}]
    /\ UNCHANGED <<now, played, fit, earn, ledger, tick, req,
                   score, base, delta, gained>>

\* A profile gives up an account of its own; who owned it stays on record.
Unlinks(p, a) ==
    /\ Deed /\ link[a] = p
    /\ link' = [link EXCEPT ![a] = Nobody]
    /\ UNCHANGED <<now, held, played, fit, earn, ledger, tick, req,
                   score, base, delta, gained>>

-----------------------------------------------------------------------------
(* Landsraad: landsraad_observe folds one reading of an account            *)

\* Mutant: a term that ended is counted as a gain.
M_Gain(a, l) == IF base[a][l] = NoBase THEN 0
                ELSE IF score[a][l] > base[a][l] THEN score[a][l] - base[a][l] ELSE base[a][l] - score[a][l]

\* The first reading of a ladder is only its base, and a fall a new base.
Gain(a, l) == IF base[a][l] # NoBase /\ score[a][l] > base[a][l] THEN score[a][l] - base[a][l] ELSE 0

Folded(a, n, shown) ==
    [points |-> delta[a][n].points + MapThenSumSet(LAMBDA l : Gain(a, l), shown \cap Points),
     turns  |-> delta[a][n].turns  + MapThenSumSet(LAMBDA l : Gain(a, l), shown \cap Counts)]

\* One rung for a turn-in, or by points: any, one, two and three thresholds.
RungsWon(n, d) ==
    LET byPoints == Cardinality({k \in 0..3 : d.points > 0 /\ d.points >= k * Threshold})
    IN  Min({Rungs(n), Max({byPoints, d.turns})})

Offered(a, n, d) == {Evidence(a, n, "landsraad", <<"t", i>>, RefAward) : i \in 1..RungsWon(n, d)}

-----------------------------------------------------------------------------
(* sietch-nights-tick.py                                                   *)

\* The mirror shows some ladders of some accounts; a reading without points is none.
Readings == {R \in [Mirrored -> SUBSET Ladders] : \A a \in Mirrored : R[a] = {} \/ R[a] \cap Points # {}}

\* The tick fixes its night and folds the levels and offerings of the rows that are fresh.
TickStarts(R) ==
    LET fresh == {a \in Mirrored : R[a] # {}} IN
    /\ tick = 0
    /\ tick' = now
    /\ IF now \in Event
       THEN /\ earn' = AddEarn(earn, UNION {Offered(a, now, Folded(a, now, R[a])) : a \in fresh})
            /\ delta' = [a \in Accounts |-> IF a \in fresh THEN [delta[a] EXCEPT ![now] = Folded(a, now, R[a])]
                                            ELSE delta[a]]
            /\ base' = [a \in Accounts |-> [l \in Ladders |-> IF a \in fresh /\ l \in R[a] THEN score[a][l]
                                                                ELSE base[a][l]]]
            /\ fit' = fit \cup (fresh \cap Veterans)
       ELSE fresh = {} /\ UNCHANGED <<earn, delta, base, fit>>
    /\ UNCHANGED <<now, link, held, played, ledger, req, score, gained, deeds>>

Visited(a, n) == \E e \in earn : e.acc = a /\ e.night = n /\ e.source = "visit"

\* One pull and its commit, of an account without a visit for the tick's night (a
\* visit noted since it was picked would leave the pull nothing to add).
TickPulls(a) ==
    /\ tick # 0
    /\ ~Visited(a, IF tick \in Event THEN tick ELSE Nights)
    /\ earn' = RecordLoginDays(earn, a, played[a], tick)
    /\ fit' = fit \cup ({a} \cap Veterans)
    /\ UNCHANGED <<now, link, held, played, ledger, tick, req, score, base, delta, gained, deeds>>

\* After the pulls, or those the budget and the relay allowed, everybody is paid.
TickCredits ==
    /\ tick # 0
    /\ ledger' = CreditAll(ledger, earn, fit)
    /\ tick' = 0
    /\ UNCHANGED <<now, link, held, played, fit, earn, req, score, base, delta, gained, deeds>>

TickDies ==
    /\ tick # 0
    /\ tick' = 0
    /\ UNCHANGED <<now, link, held, played, fit, earn, ledger, req, score, base, delta, gained, deeds>>

-----------------------------------------------------------------------------
(* The portal: the state page and the Knock                                *)

\* The session names its profile and an account linked to it.
Asks(p, a, step, accs) ==
    /\ Deed /\ req[p] = NoReq
    /\ req' = [req EXCEPT ![p] = [step |-> step, acc |-> a, accs |-> accs, at |-> now]]
    /\ UNCHANGED <<now, link, held, played, fit, earn, ledger, tick,
                   score, base, delta, gained>>

AsksState(p)    == Linked(p) # {} /\ Asks(p, Nobody, "state", Linked(p))
AsksKnock(p, a) == now \in Event /\ link[a] = p /\ Asks(p, a, "knock", {})

\* The levels and login days gathered meanwhile are folded, some reads failing,
\* and the profile is paid for the accounts it had when the page was asked for.
Folds(p, read) ==
    /\ req[p].step = "state" /\ read \subseteq req[p].accs
    /\ earn' = FoldSet(LAMBDA a, E : RecordLoginDays(E, a, played[a], now), earn, read)
    /\ fit' = fit \cup (read \cap Veterans)
    /\ ledger' = CreditProfile(ledger, earn', p, req[p].accs, fit')
    /\ req' = [req EXCEPT ![p] = NoReq]
    /\ UNCHANGED <<now, link, held, played, tick, score, base, delta, gained, deeds>>

\* After the position was read: the accounts, with the session's, before the lock.
Opens(p) ==
    /\ req[p].step = "knock" /\ now \in Event
    /\ req' = [req EXCEPT ![p] = [@ EXCEPT !.step = "opens", !.accs = Linked(p) \cup {req[p].acc}, !.at = now]]
    /\ UNCHANGED <<now, link, held, played, fit, earn, ledger, tick,
                   score, base, delta, gained, deeds>>

Found(p, s) == \E r \in ledger : /\ r.who = p /\ r.night = s.night
                                 /\ r.source \in {"knock", "activity"} /\ r.ref = <<s.id, 0>>

\* The first clue not found yet.
CurrentClue(L, p, n) ==
    LET left == {s \in Spots : s.night = n /\ s.kind = "clue" /\ ~\E r \in L :
                    r.who = p /\ r.night = n /\ r.source \in {"knock", "activity"} /\ r.ref = <<s.id, 0>>}
    IN  {s \in left : \A t \in left : s.seq <= t.seq}

\* Mutant: any clue not found yet may be knocked at.
M_Open(p, n, s) ==
    /\ s.night = n /\ ~Found(p, s)
    /\ s.kind = "porch" => Credited(ledger, p, n, "knock") < KnockCap

Open(p, n, s) ==
    /\ s.night = n /\ ~Found(p, s)
    /\ s.kind = "porch" => Credited(ledger, p, n, "knock") < KnockCap
    /\ s.kind = "clue"  => s \in CurrentClue(ledger, p, n)

SourceOf(s) == IF s.kind = "porch" THEN "knock" ELSE "activity"

\* Mutant: one more is let in.
M_First(s) ==
    s.kind = "seek" /\ s.bonus > 0 /\
    Cardinality({r.who : r \in {x \in ledger : x.night = s.night /\ x.ref = <<s.id, 0>>}}) <= FirstN

\* The bonus goes to the first who find it.
First(s) ==
    s.kind = "seek" /\ s.bonus > 0 /\
    Cardinality({r.who : r \in {x \in ledger : x.night = s.night /\ x.ref = <<s.id, 0>>}}) < FirstN

\* One knock that hits, in one transaction: evidence and credit for the spot, and
\* for the trail when it was the last clue.
Hits(p, s) ==
    LET n == req[p].at  a == req[p].acc  accs == req[p].accs
        E == AddEarn(earn, {Evidence(a, n, SourceOf(s), <<s.id, 0>>, s.award)} \cup
                           IF First(s) THEN {Evidence(a, n, "activity", <<s.id, 1>>, s.bonus)} ELSE {})
        L == CreditProfile(ledger, E, p, accs, fit)
        last == s.kind = "clue" /\ CurrentClue(L, p, n) = {}
        T == IF last THEN AddEarn(E, {Evidence(a, n, "activity", <<"trail", 0>>, TrailAward)}) ELSE E
    IN
    /\ req[p].step = "opens" /\ accs \cap fit # {} /\ Open(p, n, s)
    /\ earn' = T
    /\ ledger' = IF last THEN CreditProfile(L, T, p, accs, fit) ELSE L
    /\ req' = [req EXCEPT ![p] = NoReq]
    /\ UNCHANGED <<now, link, held, played, fit, tick, score, base, delta, gained, deeds>>

\* Closed, throttled, not eligible, off the map, nothing near, or the portal restarts.
GivesUp(p) ==
    /\ req[p].step # "none"
    /\ req' = [req EXCEPT ![p] = NoReq]
    /\ UNCHANGED <<now, link, held, played, fit, earn, ledger, tick,
                   score, base, delta, gained, deeds>>

-----------------------------------------------------------------------------
NightInit ==
    /\ now = 1
    /\ link \in [Accounts -> Profiles \cup {Nobody}]
    /\ held = [a \in Accounts |-> {link[a]} \cap Profiles]
    /\ played = [a \in Accounts |-> {}]
    /\ fit = {} /\ earn = {} /\ ledger = {}
    /\ tick = 0
    /\ req = [p \in Profiles |-> NoReq]
    /\ score  = [a \in Accounts |-> [l \in Ladders |-> 0]]
    /\ gained = [a \in Accounts |-> [l \in Ladders |-> 0]]
    /\ base   = [a \in Accounts |-> [l \in Ladders |-> NoBase]]
    /\ delta  = [a \in Accounts |-> [n \in Event |-> [points |-> 0, turns |-> 0]]]
    /\ deeds = 0

NightNext ==
    \/ NightFalls
    \/ \E a \in Accounts : Plays(a) \/ TickPulls(a)
    \/ \E a \in Mirrored, won \in Gains : TurnsIn(a, won) \/ TermEnds(a)
    \/ \E p \in Profiles, a \in Accounts, relink \in BOOLEAN : Links(p, a, relink)
    \/ \E p \in Profiles, a \in Accounts : Unlinks(p, a)
    \/ \E R \in Readings : TickStarts(R)
    \/ TickCredits \/ TickDies
    \/ \E p \in Profiles, a \in Accounts : AsksKnock(p, a)
    \/ \E p \in Profiles, read \in SUBSET Accounts : Folds(p, read)
    \/ \E p \in Profiles : AsksState(p) \/ Opens(p) \/ GivesUp(p)
    \/ \E p \in Profiles, s \in Spots : Hits(p, s)

NightSpec == NightInit /\ [][NightNext]_nightVars

-----------------------------------------------------------------------------
(* Properties                                                              *)

\* No night pays a profile more than its caps from any source, and no ref twice:
\* however many accounts, ticks, page loads and Knocks bring the same evidence.
CapsHold ==
    \A r \in ledger :
        /\ r.source # "activity" => Credited(ledger, r.who, r.night, r.source) <= CapFor(r.night, r.source)
        /\ \A x \in ledger : x.who = r.who /\ SameRef(x, r) => x = r

\* With credentials installed, what a profile is paid for was done by an account
\* that was never anybody else's, so nothing is paid to two; and the profile owns
\* an account that qualifies.  A page or a Knock may still hold accounts that were
\* given up while it waited.
PaidToItsOwner ==
    Installed => \A r \in ledger :
        /\ r.source # "streak" =>
              \E e \in earn : SameRef(e, r) /\ held[e.acc] = {r.who}
        /\ \E a \in fit : held[a] = {r.who}

HasRow(p, n, ref) == \E r \in ledger : r.who = p /\ r.night = n /\ r.ref = ref

\* With credentials installed, a clue is paid only after every clue before it, and
\* the trail only after all of them: one profile's Knocks are told apart from the
\* accounts' evidence, and the credit pass cannot bring a later clue in early.
TrailInOrder ==
    Installed => \A p \in Profiles, s, t \in {c \in Spots : c.kind = "clue"} :
        s.night = t.night /\ HasRow(p, s.night, <<s.id, 0>>) =>
            /\ t.seq < s.seq => HasRow(p, s.night, <<t.id, 0>>)
            /\ HasRow(p, s.night, <<"trail", 0>>) => HasRow(p, s.night, <<t.id, 0>>)

\* With credentials installed, the bonus of a hidden spot is paid to the first
\* FirstN profiles to find it and to nobody else, whatever else is paid meanwhile.
FirstFinders ==
    Installed => \A s \in Spots :
        /\ Cardinality({p \in Profiles : HasRow(p, s.night, <<s.id, 1>>)}) <= FirstN
        /\ \A p \in Profiles : HasRow(p, s.night, <<s.id, 1>>) => HasRow(p, s.night, <<s.id, 0>>)

\* The offerings counted over all nights never exceed what was really turned in
\* since the ladder was first read: not when a term ends, when a ladder is missing
\* from a reading, or when the worker dies and folds the same reading again.
OfferingsAreReal ==
    \A a \in Accounts :
        /\ MapThenSumSet(LAMBDA n : delta[a][n].points, Event)
              <= MapThenSumSet(LAMBDA l : gained[a][l], Points)
        /\ MapThenSumSet(LAMBDA n : delta[a][n].turns, Event)
              <= MapThenSumSet(LAMBDA l : gained[a][l], Counts)

\* A tick pulls only accounts without a visit for its night: the others lack no
\* earlier night either, as long as their own days are recorded in order.
NoNightForgotten ==
    \A a \in Accounts : \A n \in Event : Visited(a, n) =>
        \A m \in played[a] : m < n => Visited(a, m)

\* A credit pass that ends leaves nothing owed: every evidence of a profile that
\* qualifies is paid, or its night has paid all it may from that source.
NothingOwed ==
    [][TickCredits => \A p \in Profiles : Linked(p) \cap fit # {} =>
        \A e \in earn : e.acc \in Linked(p) =>
            \/ \E r \in ledger' : r.who = p /\ SameRef(r, e)
            \/ /\ e.source # "activity"
               /\ Credited(ledger', p, e.night, e.source) = CapFor(e.night, e.source)]_nightVars
=============================================================================
