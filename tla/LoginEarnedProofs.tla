-------------------------- MODULE LoginEarnedProofs --------------------------
(***************************************************************************)
(* Theorems of LoginRewards about what is earned, for every history and    *)
(* length of ramp, streak, week, period and grace: a period's weapon, a    *)
(* week's weapon and a day's rung are paid for what was played, a period   *)
(* stays on offer, and a cap only refuses who crossed its boundary.        *)
(*                                                                         *)
(* The claim is judged by a cached history and paid by another host, maybe *)
(* a day later.  The invariants say what survives: days recorded are never *)
(* taken back nor recorded out of their order, the cache has no gap where  *)
(* its history reached, and a claim on its way was due when it was asked.  *)
(***************************************************************************)
EXTENDS LoginRewardsProofs

-----------------------------------------------------------------------------
(* The calendar of periods                                                 *)

\* A day lies after its period's start and not after its end.
LEMMA PeriodBounds ==
    ASSUME NEW d \in Days
    PROVE  /\ PeriodOf(d) \in Nat \ {0}
           /\ (PeriodOf(d) - 1) * Period < d
           /\ d <= PeriodOf(d) * Period
<1>1. d \in Nat \ {0} /\ Period \in Nat \ {0}
  BY RewardsAssumption DEF Days
<1>2. /\ ((d - 1) \div Period) \in Nat
      /\ ((d - 1) \div Period) * Period <= d - 1
      /\ d - 1 < (((d - 1) \div Period) + 1) * Period
  BY <1>1, SMTT(30)
<1> QED BY <1>1, <1>2 DEF PeriodOf

\* Any set of days is finite.
LEMMA DaysFinite == \A S \in SUBSET Days : IsFiniteSet(S)
<1>1. IsFiniteSet(Days)
  BY FS_Interval, RewardsAssumption DEF Days
<1> QED BY <1>1, FS_Subset

\* More days never lock a period.
LEMMA UnlockedGrows ==
    ASSUME NEW H \in SUBSET Days, NEW G \in SUBSET Days, H \subseteq G, NEW p, Unlocked(H, p)
    PROVE  Unlocked(G, p)
<1> DEFINE A == H \cap PeriodDays(p)
           B == G \cap PeriodDays(p)
<1>1. A \subseteq B /\ IsFiniteSet(B)
  BY DaysFinite
<1>2. /\ Cardinality(A) <= Cardinality(B)
      /\ Cardinality(A) \in Nat /\ Cardinality(B) \in Nat
  BY <1>1, FS_Subset, FS_CardinalityType
<1>3. Cardinality(A) >= Required
  BY DEF Unlocked
<1> QED BY <1>2, <1>3, RewardsAssumption DEF Unlocked

-----------------------------------------------------------------------------
(* The inductive invariant of periods                                      *)

\* No day is recorded before it comes, and the cache knows recorded days only.
Recorded ==
    /\ \A d \in logged : d <= today
    /\ sweep <= today
    /\ cache.days \subseteq logged

\* The period's days were played, and day lies in the period or its grace.
Due(no, day) == Unlocked(logged, no) /\ day <= no * Period + Grace

\* A monthly claim on its way asks for one key, due on the day it was asked, and
\* has seen at most one midnight.
MonthlyRuns ==
    \A c \in Handlers : claims[c].kind = "monthly" /\ claims[c].op # "lost" =>
        /\ claims[c].left = {}
        /\ claims[c].asked \in Days /\ today <= claims[c].asked + 1
        /\ Due(claims[c].no, claims[c].asked)

\* A monthly row was made on the last day it was due, or the day after.
MonthlyRows ==
    \A k \in Keys : k.kind = "monthly" /\ game[k].st = "applied"
        => Due(k.no, game[k].made - 1)

PInv == Recorded /\ MonthlyRuns /\ MonthlyRows

-----------------------------------------------------------------------------
(* Frames                                                                  *)

\* A move of one handler that keeps what its monthly claim stands on, and makes
\* no monthly row.
LEMMA RunFrame ==
    ASSUME PInv, NEW c \in Handlers, UNCHANGED <<today, sweep, logged, cache>>,
           \A d \in Handlers \ {c} : claims'[d] = claims[d],
           \/ claims'[c].op = "lost"
           \/ claims'[c].kind # "monthly"
           \/ /\ claims'[c].kind = "monthly" /\ claims'[c].left = {}
              /\ claims'[c].asked \in Days /\ today <= claims'[c].asked + 1
              /\ Due(claims'[c].no, claims'[c].asked)
    PROVE  Recorded' /\ MonthlyRuns'
<1>1. Recorded'
  BY DEF PInv, Recorded
<1>2. \A no, day : Due(no, day)' <=> Due(no, day)
  BY DEF Due, Unlocked, PeriodDays
<1>3. MonthlyRuns'
  <2> SUFFICES ASSUME NEW d \in Handlers, claims'[d].kind = "monthly", claims'[d].op # "lost"
               PROVE  /\ claims'[d].left = {}
                      /\ claims'[d].asked \in Days /\ today' <= claims'[d].asked + 1
                      /\ Unlocked(logged', claims'[d].no)
                      /\ claims'[d].asked <= claims'[d].no * Period + Grace
    BY DEF MonthlyRuns, Due, Unlocked, PeriodDays
  <2>1. CASE d = c
    BY <2>1 DEF Due
  <2>2. CASE d # c
    <3>1. claims'[d] = claims[d]
      BY <2>2
    <3> QED BY <3>1 DEF PInv, MonthlyRuns, Due
  <2> QED BY <2>1, <2>2
<1> QED BY <1>1, <1>3

\* While no day is logged and no monthly row changes, the rows stay justified.
LEMMA RowsFrame ==
    ASSUME PInv, UNCHANGED logged, \A k \in Keys : k.kind = "monthly" => game'[k] = game[k]
    PROVE  MonthlyRows'
<1> SUFFICES ASSUME NEW k \in Keys, k.kind = "monthly", game'[k].st = "applied"
             PROVE  Unlocked(logged', k.no) /\ game'[k].made - 1 <= k.no * Period + Grace
  BY DEF MonthlyRows, Due, Unlocked, PeriodDays
<1>1. game'[k] = game[k]
  OBVIOUS
<1> QED BY <1>1 DEF PInv, MonthlyRows, Due

\* A step of a run: the claim goes on with the same key, or is lost.
LEMMA MovesFrame ==
    ASSUME IInv, PInv, NEW c \in Handlers, NEW op, Moves(c, op), claims[c].op # "lost",
           UNCHANGED <<today, sweep, logged, cache>>
    PROVE  Recorded' /\ MonthlyRuns'
<1>1. \A d \in Handlers \ {c} : claims'[d] = claims[d]
  BY DEF Moves
<1>2. CASE claims'[c].op = "lost"
  BY <1>1, <1>2, RunFrame
<1>3. CASE claims'[c].op # "lost" /\ claims[c].kind # "monthly"
  <2>1. claims'[c].kind # "monthly"
    BY <1>3 DEF Moves
  <2> QED BY <1>1, <2>1, RunFrame
<1>4. CASE claims'[c].op # "lost" /\ claims[c].kind = "monthly"
  <2>1. /\ claims[c].left = {} /\ claims[c].asked \in Days /\ today <= claims[c].asked + 1
        /\ Due(claims[c].no, claims[c].asked)
    BY <1>4 DEF PInv, MonthlyRuns
  <2>2. /\ claims'[c].kind = "monthly" /\ claims'[c].asked = claims[c].asked
        /\ claims'[c].no = claims[c].no /\ claims'[c].left = {}
    BY <1>4, <2>1 DEF Moves
  <2> QED BY <1>1, <2>1, <2>2, RunFrame
<1> QED BY <1>2, <1>3, <1>4

-----------------------------------------------------------------------------
(* The steps                                                               *)

\* The invariant holds at the start.
LEMMA InitPInv == Init => PInv
<1> SUFFICES ASSUME Init PROVE PInv
  OBVIOUS
<1>1. Launch \in Nat \ {0}
  BY RewardsAssumption
<1>2. Recorded
  BY <1>1 DEF Init, Recorded, Empty
<1>3. \A c \in Handlers : claims[c].op = "lost"
  BY NoClaimType DEF Init
<1>4. \A k \in Keys : game[k].st = "none"
  BY DEF Init, NoRow
<1> QED BY <1>2, <1>3, <1>4 DEF PInv, MonthlyRuns, MonthlyRows

\* Days are only added, and a midnight waits for the claims of the day before.
LEMMA CalendarKeepsPInv ==
    ASSUME IInv, PInv, Midnight \/ SweepReads \/ SweepInserts \/ FillCache
    PROVE  PInv'
<1>1. TypeOK /\ TypeOK'
  BY CalendarStep DEF IInv
<1>2. today \in Nat /\ today' \in Nat /\ sweep \in Nat /\ logged \subseteq Nat
  BY <1>1, RewardsAssumption DEF TypeOK, Days
<1>3. UNCHANGED <<game, claims>> /\ logged \subseteq logged'
  BY DEF Midnight, SweepReads, SweepInserts, FillCache
<1>4. Recorded'
  <2>1. CASE Midnight
    <3>1. today' = today + 1 /\ UNCHANGED <<sweep, logged>> /\ cache'.days \in {cache.days, {}}
      BY <2>1 DEF Midnight, Empty
    <3> QED BY <1>2, <3>1 DEF PInv, Recorded
  <2>2. CASE SweepReads
    BY <1>2, <2>2 DEF SweepReads, PInv, Recorded
  <2>3. CASE SweepInserts
    BY <1>2, <2>3 DEF SweepInserts, PInv, Recorded
  <2>4. CASE FillCache
    <3>1. UNCHANGED <<today, sweep, logged>> /\ cache'.days = Served
      BY <2>4 DEF FillCache
    <3>2. Served \subseteq logged
      BY DEF Served
    <3> QED BY <3>1, <3>2 DEF PInv, Recorded
  <2> QED BY <2>1, <2>2, <2>3, <2>4
<1>5. MonthlyRuns'
  <2> SUFFICES ASSUME NEW c \in Handlers, claims[c].kind = "monthly", claims[c].op # "lost"
               PROVE  /\ claims[c].left = {}
                      /\ claims[c].asked \in Days /\ today' <= claims[c].asked + 1
                      /\ Due(claims[c].no, claims[c].asked)'
    BY <1>3 DEF MonthlyRuns, Due, Unlocked, PeriodDays
  <2>1. /\ claims[c].left = {} /\ claims[c].asked \in Days /\ today <= claims[c].asked + 1
        /\ Due(claims[c].no, claims[c].asked)
    BY DEF PInv, MonthlyRuns
  <2>2. Due(claims[c].no, claims[c].asked)'
    <3> DEFINE no == claims[c].no
               day == claims[c].asked
    <3>1. no' = no /\ day' = day
      BY <1>3
    <3>2. Unlocked(logged, no) /\ day <= no * Period + Grace
      BY <2>1 DEF Due
    <3>3. logged \in SUBSET Days /\ logged' \in SUBSET Days
      BY <1>1 DEF TypeOK
    <3> HIDE DEF no, day
    <3>4. Unlocked(logged', no)
      BY <1>3, <3>2, <3>3, UnlockedGrows
    <3> QED BY <3>1, <3>2, <3>4 DEF Due, Unlocked, PeriodDays, no, day
  <2>3. today' <= claims[c].asked + 1
    <3>1. CASE Midnight
      <4>1. claims[c].asked \in {0, today} /\ today' = today + 1
        BY <3>1 DEF Midnight
      <4>2. claims[c].asked # 0
        BY <2>1, RewardsAssumption DEF Days
      <4> QED BY <1>2, <4>1, <4>2
    <3>2. CASE ~Midnight
      BY <2>1, <3>2 DEF SweepReads, SweepInserts, FillCache
    <3> QED BY <3>1, <3>2
  <2> QED BY <2>1, <2>2, <2>3
<1>6. MonthlyRows'
  <2> SUFFICES ASSUME NEW k \in Keys, k.kind = "monthly", game[k].st = "applied"
               PROVE  Unlocked(logged', k.no) /\ game[k].made - 1 <= k.no * Period + Grace
    BY <1>3 DEF MonthlyRows, Due, Unlocked, PeriodDays
  <2>1. Unlocked(logged, k.no) /\ game[k].made - 1 <= k.no * Period + Grace
    BY DEF PInv, MonthlyRows, Due
  <2>2. logged \in SUBSET Days /\ logged' \in SUBSET Days
    BY <1>1 DEF TypeOK
  <2> QED BY <1>3, <2>1, <2>2, UnlockedGrows
<1> QED BY <1>4, <1>5, <1>6 DEF PInv

\* A monthly claim is asked for a period the cached history has unlocked: today's
\* own, or the one before within its grace.
LEMMA ClaimKeyDue ==
    ASSUME TypeOK, Recorded, NEW S, ClaimKey(cache.days, S, today) # 0
    PROVE  Due(ClaimKey(cache.days, S, today), today)
<1> DEFINE p == PeriodOf(today)
           n == ClaimKey(cache.days, S, today)
<1>1. /\ today \in Days /\ logged \in SUBSET Days /\ cache.days \in SUBSET Days
      /\ cache.days \subseteq logged
  BY DEF TypeOK, Cached, Recorded
<1>2. /\ p \in Nat \ {0} /\ (p - 1) * Period < today /\ today <= p * Period
      /\ p * Period \in Nat /\ (p - 1) * Period \in Nat
  <2>1. p \in Nat \ {0} /\ (p - 1) * Period < today /\ today <= p * Period
    BY <1>1, PeriodBounds
  <2>2. \A a, b \in Nat : a * b \in Nat
    OBVIOUS
  <2>3. p \in Nat /\ p - 1 \in Nat /\ Period \in Nat
    BY <2>1, RewardsAssumption
  <2> HIDE DEF p
  <2> QED BY <2>1, <2>2, <2>3
<1>3. today \in Nat /\ Grace \in Nat /\ Period \in Nat
  BY <1>1, RewardsAssumption DEF Days
<1>4. \/ n = p /\ Unlocked(cache.days, p)
      \/ n = p - 1 /\ InGrace(today) /\ Unlocked(cache.days, p - 1)
  BY DEF ClaimKey
<1>5. Unlocked(logged, n)
  BY <1>1, <1>4, UnlockedGrows
<1>6. today <= n * Period + Grace
  <2>1. CASE n = p
    <3>1. n * Period = p * Period
      BY <2>1
    <3> HIDE DEF n, p
    <3> QED BY <1>2, <1>3, <3>1
  <2>2. CASE n = p - 1 /\ InGrace(today)
    <3>1. today - (p - 1) * Period <= Grace /\ n * Period = (p - 1) * Period
      BY <2>2 DEF InGrace
    <3> HIDE DEF n, p
    <3> QED BY <1>2, <1>3, <3>1
  <2> QED BY <1>4, <2>1, <2>2
<1> QED BY <1>5, <1>6 DEF Due

\* A claim is answered or begun: a monthly one begins only when its pass is unlocked.
LEMMA ClaimKeepsPInv ==
    ASSUME IInv, PInv, NEW c \in Handlers, ClaimDaily(c) \/ ClaimWeekly(c) \/ ClaimMonthly(c)
    PROVE  PInv'
<1>1. TypeOK /\ claims \in [Handlers -> Claim] /\ today \in Days
  BY DEF IInv, TypeOK
<1>2. UNCHANGED <<today, sweep, logged, cache, game>>
  BY DEF ClaimDaily, ClaimWeekly, ClaimMonthly, Ask
<1>3. MonthlyRows'
  BY <1>2, RowsFrame
<1>4. ASSUME NEW kind, NEW nos, NEW rung, Ask(c, kind, nos, rung)
      PROVE  /\ \A d \in Handlers \ {c} : claims'[d] = claims[d]
             /\ claims'[c].kind = kind /\ claims'[c].asked = today
             /\ claims'[c].no = Oldest(nos) /\ claims'[c].left = nos \ {Oldest(nos)}
  BY <1>1, <1>4 DEF Ask
<1>5. CASE ClaimDaily(c) \/ ClaimWeekly(c)
  <2>1. claims'[c].kind # "monthly" /\ \A d \in Handlers \ {c} : claims'[d] = claims[d]
    BY <1>4, <1>5 DEF ClaimDaily, ClaimWeekly
  <2> QED BY <1>2, <1>3, <2>1, RunFrame DEF PInv
<1>6. CASE ClaimMonthly(c)
  <2> DEFINE p == ClaimKey(cache.days, ClaimedKeys("monthly"), today)
  <2>1. Due(p, today)
    BY <1>1, <1>6, ClaimKeyDue DEF ClaimMonthly, PInv
  <2>2. Ask(c, "monthly", {p}, 0)
    BY <1>6 DEF ClaimMonthly
  <2> HIDE DEF p
  <2>3. Oldest({p}) = p
    <3>1. p \in {p} /\ \A x \in {p} : x = p
      OBVIOUS
    <3>2. p <= p
      <4>1. p \in Days
        <5>1. ClaimKey(cache.days, ClaimedKeys("monthly"), today) # 0
          BY <1>6 DEF ClaimMonthly
        <5>2. cache.days \in SUBSET Days
          BY <1>1 DEF TypeOK, Cached
        <5> QED BY <1>1, <5>1, <5>2, ClaimKeyType DEF p
      <4> QED BY <4>1, RewardsAssumption DEF Days
    <3> QED BY <3>1, <3>2 DEF Oldest
  <2>4. /\ \A d \in Handlers \ {c} : claims'[d] = claims[d]
        /\ claims'[c].kind = "monthly" /\ claims'[c].asked = today
        /\ claims'[c].no = p /\ claims'[c].left = {}
    BY <1>4, <2>2, <2>3
  <2>5. today <= today + 1
    BY <1>1, RewardsAssumption DEF Days
  <2> QED BY <1>1, <1>2, <1>3, <2>1, <2>4, <2>5, RunFrame DEF PInv
<1> QED BY <1>5, <1>6

\* The only step that makes a monthly row, under a claim that was due when asked.
LEMMA PaysKeepsPInv ==
    ASSUME IInv, PInv, NEW c \in Handlers, Pays(c)
    PROVE  PInv'
<1> DEFINE k == Key(c)
<1>1. TypeOK /\ k \in Keys /\ claims[c] \in Claim
  <2>1. TypeOK /\ k \in Keys
    BY KeyType DEF IInv
  <2> QED BY <2>1 DEF TypeOK
<1>2. /\ claims[c].op = "sent" /\ To(c, "applied") /\ "applied" \in Ops
      /\ UNCHANGED <<today, sweep, logged, cache>>
  BY DEF Pays, At, Ops, Answered
<1>3. Recorded' /\ MonthlyRuns'
  BY <1>1, <1>2, ToMoves, MovesFrame
<1>4. /\ game' = [game EXCEPT ![k] = [st |-> "applied", made |-> today, amt |-> Worth(c)]]
      /\ k.kind = claims[c].kind /\ k.no = claims[c].no
  BY DEF Pays, Key
<1>5. MonthlyRows'
  <2> SUFFICES ASSUME NEW x \in Keys, x.kind = "monthly", game'[x].st = "applied"
               PROVE  Unlocked(logged', x.no) /\ game'[x].made - 1 <= x.no * Period + Grace
    BY DEF MonthlyRows, Due, Unlocked, PeriodDays
  <2>1. CASE x = k
    <3>1. Due(x.no, claims[c].asked) /\ today <= claims[c].asked + 1 /\ claims[c].asked \in Days
      BY <1>2, <1>4, <2>1 DEF PInv, MonthlyRuns
    <3>2. game'[x].made = today
      BY <1>1, <1>4, <2>1 DEF TypeOK
    <3>3. today \in Nat /\ claims[c].asked \in Nat /\ Grace \in Nat /\ x.no * Period \in Int
      <4>1. \A a, b \in Nat : a * b \in Int
        OBVIOUS
      <4>2. x.no \in Nat /\ Period \in Nat
        BY RewardsAssumption DEF Keys, Days
      <4> QED BY <1>1, <3>1, <4>1, <4>2, RewardsAssumption DEF TypeOK, Days
    <3>4. today - 1 <= x.no * Period + Grace
      BY <3>1, <3>3 DEF Due
    <3> QED BY <1>2, <3>1, <3>2, <3>4 DEF Due
  <2>2. CASE x # k
    <3>1. game'[x] = game[x]
      BY <1>1, <1>4, <2>2 DEF TypeOK
    <3> QED BY <1>2, <3>1 DEF PInv, MonthlyRows, Due
  <2> QED BY <2>1, <2>2
<1> QED BY <1>3, <1>5 DEF PInv

\* The other steps of a run make no monthly row: only weekly rows are reserved,
\* flipped or marked.
LEMMA WriterKeepsPInv ==
    ASSUME IInv, PInv, NEW c \in Handlers, Writer(c)
    PROVE  PInv'
<1>1. TypeOK /\ Key(c) \in Keys /\ claims[c] \in Claim /\ claims \in [Handlers -> Claim]
  <2>1. TypeOK /\ Key(c) \in Keys
    BY KeyType DEF IInv
  <2> QED BY <2>1 DEF TypeOK
<1>2. UNCHANGED <<today, sweep, logged, cache>>
  BY DEF Writer, Replays, CapRefuses, Refuses, Pays, Reserves, Mints, MintFails, Flips,
     MarksFailed, OpDies
<1>3. CASE Pays(c)
  BY <1>3, PaysKeepsPInv
<1>4. CASE Reserves(c)
  <2>1. /\ claims[c].kind = "weekly"
        /\ claims' = [claims EXCEPT ![c] =
                        [claims[c] EXCEPT !.op = "reserved", !.saw = game[Key(c)].st]]
    BY <1>4 DEF Reserves
  <2>2. claims'[c].kind # "monthly" /\ \A d \in Handlers \ {c} : claims'[d] = claims[d]
    BY <1>1, <2>1 DEF Claim
  <2>3. \A k \in Keys : k.kind = "monthly" => game'[k] = game[k]
    <3>1. Key(c).kind = "weekly"
      BY <2>1 DEF Key
    <3> QED BY <1>1, <1>4, <3>1 DEF Reserves, TypeOK
  <2> QED BY <1>2, <2>2, <2>3, RunFrame, RowsFrame DEF PInv
<1>5. CASE OpDies(c)
  <2>1. PICK r \in {[claims[c] EXCEPT !.op = "lost"], NoClaim} : claims' = [claims EXCEPT ![c] = r]
    BY <1>5 DEF OpDies
  <2>2. claims'[c].op = "lost" /\ \A d \in Handlers \ {c} : claims'[d] = claims[d]
    BY <1>1, <2>1, NoClaimType DEF Claim
  <2>3. game' = game
    BY <1>5 DEF OpDies
  <2> QED BY <1>2, <2>2, <2>3, RunFrame, RowsFrame DEF PInv
<1>6. ASSUME ~Pays(c), ~Reserves(c), ~OpDies(c) PROVE PInv'
  <2>1. PICK op \in Ops : To(c, op)
    <3>1. {"replay", "capped", "refused", "minted", "failing", "applied"} \subseteq Ops
      BY DEF Ops, Running, Answered
    <3> QED BY <1>6, <3>1 DEF Writer, Replays, CapRefuses, Refuses, Mints, MintFails, Flips, MarksFailed
  <2>2. claims[c].op # "lost"
    BY <1>6 DEF Writer, At, Replays, CapRefuses, Refuses, Mints, MintFails, Flips, MarksFailed
  <2>3. Recorded' /\ MonthlyRuns'
    BY <1>1, <1>2, <2>1, <2>2, ToMoves, MovesFrame
  <2>4. \A k \in Keys : k.kind = "monthly" => game'[k] = game[k]
    <3>1. CASE Flips(c) \/ MarksFailed(c)
      <4>1. claims[c].kind = "weekly"
        BY <3>1 DEF Flips, MarksFailed, At, IInv, RunsKnow
      <4>2. Key(c).kind = "weekly"
        BY <4>1 DEF Key
      <4> QED BY <1>1, <3>1, <4>2 DEF Flips, MarksFailed, TypeOK
    <3>2. CASE ~(Flips(c) \/ MarksFailed(c))
      BY <1>6, <3>2 DEF Writer, Replays, CapRefuses, Refuses, Mints, MintFails
    <3> QED BY <3>1, <3>2
  <2> QED BY <1>2, <2>3, <2>4, RowsFrame DEF PInv
<1> QED BY <1>3, <1>4, <1>5, <1>6

\* The handler's side: a monthly claim has no second key to ask for.
LEMMA AnsweredKeepsPInv ==
    ASSUME IInv, PInv, NEW c \in Handlers, Granted(c) \/ Stops(c)
    PROVE  PInv'
<1>1. claims[c] \in Claim /\ claims \in [Handlers -> Claim]
  BY DEF IInv, TypeOK
<1>2. UNCHANGED <<today, sweep, logged, cache, game>>
  BY DEF Granted, Stops
<1>3. PICK r : claims' = [claims EXCEPT ![c] = r]
  BY DEF Granted, Stops
<1>4. \A d \in Handlers \ {c} : claims'[d] = claims[d]
  BY <1>1, <1>3
<1>5. \/ claims'[c].op = "lost"
      \/ claims'[c].kind # "monthly"
      \/ /\ claims'[c].kind = "monthly" /\ claims'[c].left = {}
         /\ claims'[c].asked \in Days /\ today <= claims'[c].asked + 1
         /\ Due(claims'[c].no, claims'[c].asked)
  <2>1. CASE claims'[c] = NoClaim
    BY <2>1, NoClaimType
  <2>2. CASE Granted(c) /\ claims[c].left # {}
    <3>1. claims[c].op # "lost"
      BY <2>2 DEF Granted
    <3>2. claims[c].kind # "monthly"
      BY <2>2, <3>1 DEF PInv, MonthlyRuns
    <3>3. claims'[c].kind = claims[c].kind
      BY <1>1, <2>2 DEF Granted, Claim
    <3> QED BY <3>2, <3>3
  <2>3. CASE Stops(c) /\ claims[c].op \in Running
    <3> DEFINE new == [claims[c] EXCEPT !.waits = FALSE, !.left = {}]
    <3>1. claims' = [claims EXCEPT ![c] = new]
      BY <2>3 DEF Stops
    <3>2. /\ new.kind = claims[c].kind /\ new.left = {} /\ new.asked = claims[c].asked
          /\ new.no = claims[c].no
      BY <1>1 DEF Claim
    <3> HIDE DEF new
    <3>3. claims'[c] = new
      BY <1>1, <3>1
    <3>4. claims[c].op # "lost"
      BY <2>3 DEF Running
    <3>5. claims[c].kind = "monthly" =>
             /\ claims[c].asked \in Days /\ today <= claims[c].asked + 1
             /\ Due(claims[c].no, claims[c].asked)
      BY <3>4 DEF PInv, MonthlyRuns
    <3> QED BY <3>2, <3>3, <3>5
  <2>4. \/ claims'[c] = NoClaim
        \/ Granted(c) /\ claims[c].left # {}
        \/ Stops(c) /\ claims[c].op \in Running
    BY <1>1 DEF Granted, Stops
  <2> QED BY <2>1, <2>2, <2>3, <2>4
<1> QED BY <1>2, <1>4, <1>5, RunFrame, RowsFrame DEF PInv

\* Every step keeps the invariant.
LEMMA NextKeepsPInv == IInv /\ PInv /\ [Next]_vars => PInv'
<1> SUFFICES ASSUME IInv, PInv, [Next]_vars PROVE PInv'
  OBVIOUS
<1>1. CASE Midnight \/ SweepReads \/ SweepInserts \/ FillCache
  BY <1>1, CalendarKeepsPInv
<1>2. ASSUME NEW c \in Handlers, Writer(c) PROVE PInv'
  BY <1>2, WriterKeepsPInv
<1>3. ASSUME NEW c \in Handlers, Handler(c) PROVE PInv'
  BY <1>3, ClaimKeepsPInv, AnsweredKeepsPInv DEF Handler
<1>4. CASE UNCHANGED vars
  <2>1. UNCHANGED <<today, sweep, logged, cache, game, claims>>
    BY <1>4 DEF vars
  <2> QED BY <2>1 DEF PInv, Recorded, MonthlyRuns, MonthlyRows, Due, Unlocked, PeriodDays
<1> QED BY <1>1, <1>2, <1>3, <1>4 DEF Next

\* And so it always holds.
LEMMA SpecKeepsPInv == Spec => [](IInv /\ PInv)
<1>1. Init => IInv /\ PInv
  BY InitIInv, InitPInv
<1>2. IInv /\ PInv /\ [Next]_vars => IInv' /\ PInv'
  BY NextKeepsIInv, NextKeepsPInv
<1> QED BY <1>1, <1>2, PTL DEF Spec

-----------------------------------------------------------------------------
(* The theorems about periods                                              *)

\* A period's weapon is paid for days of that period, and no later than the day
\* after its grace, however stale the cache and however late the writer.
THEOREM MonthlyWeaponIsEarned == Spec => []MonthlyIsEarned
<1>1. IInv /\ PInv => MonthlyIsEarned
  <2> SUFFICES ASSUME IInv, PInv, NEW k \in Keys, k.kind = "monthly", paid[k] > 0
               PROVE  Unlocked(logged, k.no) /\ game[k].made <= k.no * Period + Grace + 1
    BY DEF MonthlyIsEarned
  <2>1. game[k].st = "applied"
    BY DEF IInv, Gates
  <2>2. Due(k.no, game[k].made - 1)
    BY <2>1 DEF PInv, MonthlyRows
  <2>3. game[k].made \in Nat /\ Grace \in Nat /\ k.no * Period \in Int
    <3>1. \A a, b \in Nat : a * b \in Int
      OBVIOUS
    <3>2. k.no \in Nat /\ Period \in Nat
      BY RewardsAssumption DEF Keys, Days
    <3>3. game[k].made \in Nat
      BY RewardsAssumption DEF IInv, TypeOK, Row
    <3> QED BY <3>1, <3>2, <3>3, RewardsAssumption
  <2> QED BY <2>2, <2>3 DEF Due
<1> QED BY <1>1, SpecKeepsPInv, PTL

\* A period that was earned and not noted as claimed is offered on every day of
\* its grace: the grace is too short to earn the next one, and the telemetry
\* history is long enough to reach back to the period's first day.
THEOREM EarnedPeriodStaysOffered == Spec => []EarnedPeriodIsOffered
<1>1. IInv /\ PInv => EarnedPeriodIsOffered
  <2> DEFINE q == PeriodOf(today)
             p == PeriodOf(today) - 1
             S == ClaimedKeys("monthly")
  <2> SUFFICES ASSUME IInv, PInv, InGrace(today), Unlocked(logged, p), p \notin S
               PROVE  ClaimKey(Served, S, today) = p
    BY DEF EarnedPeriodIsOffered
  <2>1. /\ today \in Days /\ logged \in SUBSET Days /\ \A d \in logged : d <= today
        /\ today \in Nat /\ logged \subseteq Nat
    BY RewardsAssumption DEF IInv, TypeOK, PInv, Recorded, Days
  <2>2. /\ Period \in Nat \ {0} /\ Grace \in Nat /\ Window \in Nat /\ Required \in Nat
        /\ Grace < Required /\ Period + Grace <= Window
    BY RewardsAssumption
  <2>3. q \in Nat \ {0} /\ (q - 1) * Period < today /\ today - (q - 1) * Period <= Grace
    BY <2>1, PeriodBounds DEF InGrace
  <2>4. PICK m \in Nat : m = p * Period /\ (p - 1) * Period = m - Period
                         /\ (q - 1) * Period = m /\ q * Period = m + Period
    <3>1. \A a \in Nat, b \in Nat :
             a * b \in Nat /\ (a - 1) * b = a * b - b /\ (a + 1) * b = a * b + b
      OBVIOUS
    <3>2. p \in Nat /\ p + 1 = q /\ Period \in Nat
      BY <2>2, <2>3
    <3> HIDE DEF p, q
    <3>3. q - 1 = p
      BY <3>2
    <3> QED BY <3>1, <3>2, <3>3
  <2>5. PeriodDays(p) = (m - Period + 1)..m /\ PeriodDays(q) = (m + 1)..(m + Period)
    BY <2>4 DEF PeriodDays
  <2>6. m < today /\ today - m <= Grace
    BY <2>3, <2>4
  <2> HIDE DEF p, q, S
  <2>7. Served \cap PeriodDays(p) = logged \cap PeriodDays(p)
    <3>1. \A d \in (m - Period + 1)..m : d >= today - Window
      BY <2>1, <2>2, <2>6
    <3> QED BY <2>5, <3>1 DEF Served
  <2>8. Unlocked(Served, p)
    BY <2>7 DEF Unlocked
  <2>9. ~Unlocked(Served, q)
    <3>1. Served \cap PeriodDays(q) \subseteq (m + 1)..today
      BY <2>1, <2>2, <2>5 DEF Served
    <3>2. IsFiniteSet((m + 1)..today) /\ Cardinality((m + 1)..today) = today - (m + 1) + 1
      <4>1. m + 1 \in Int /\ today \in Int /\ ~(m + 1 > today)
        BY <2>1, <2>6
      <4> QED BY <4>1, FS_Interval
    <3>3. /\ Cardinality(Served \cap PeriodDays(q)) <= Cardinality((m + 1)..today)
          /\ Cardinality(Served \cap PeriodDays(q)) \in Nat
      BY <3>1, <3>2, FS_Subset, FS_CardinalityType
    <3> QED BY <2>1, <2>2, <2>6, <3>2, <3>3 DEF Unlocked
  <2>10. q - 1 = p
    BY DEF p, q
  <2> QED BY <2>8, <2>9, <2>10 DEF ClaimKey, q, S
<1> QED BY <1>1, SpecKeepsPInv, PTL

-----------------------------------------------------------------------------
(* Quotients, rungs and weeks                                              *)

\* Any number is its quotient's multiple and its remainder.
LEMMA DivModOf ==
    ASSUME NEW P \in Nat \ {0}, NEW a \in Nat
    PROVE  \E q \in Nat : \E r \in 0..(P - 1) : a = q * P + r /\ a \div P = q /\ a % P = r
<1>1. a \div P \in Nat
  BY SMTT(30)
<1>2. a % P \in 0..(P - 1)
  BY SMTT(30)
<1>3. a % P = a - P * (a \div P)
  BY SMTT(30)
<1> DEFINE q == a \div P
           r == a % P
<1>4. q \in Nat /\ r \in 0..(P - 1) /\ r = a - P * q
  BY <1>1, <1>2, <1>3
<1> HIDE DEF q, r
<1>5. P * q \in Nat /\ P * q = q * P
  BY <1>4
<1>6. a = q * P + r
  BY <1>4, <1>5
<1> QED BY <1>4, <1>6 DEF q, r

\* More multiples reach further.
LEMMA MultipleSteps ==
    ASSUME NEW P \in Nat, NEW x \in Nat, NEW y \in Nat, x < y
    PROVE  x * P + P <= y * P
<1>1. PICK z \in Nat : y = x + 1 + z
  <2>1. y - x - 1 \in Nat /\ y = x + 1 + (y - x - 1)
    OBVIOUS
  <2> QED BY <2>1
<1>2. y * P = x * P + P + z * P
  BY <1>1
<1>3. \A i, j \in Nat : i * j \in Nat
  OBVIOUS
<1>4. z * P \in Nat /\ x * P \in Nat
  BY <1>3
<1> QED BY <1>2, <1>4

\* Quotient and remainder are what they are told to be.
LEMMA DivModIs ==
    ASSUME NEW P \in Nat \ {0}, NEW q \in Nat, NEW r \in 0..(P - 1)
    PROVE  (q * P + r) \div P = q /\ (q * P + r) % P = r
<1>1. \A x, y \in Nat : x * y \in Nat
  OBVIOUS
<1>2. PICK m \in Nat : m = q * P
  BY <1>1
<1>3. m + r \in Nat
  BY <1>2
<1>4. PICK s \in Nat : \E t \in 0..(P - 1) :
         m + r = s * P + t /\ (m + r) \div P = s /\ (m + r) % P = t
  BY <1>3, DivModOf
<1>5. PICK t \in 0..(P - 1) : m + r = s * P + t /\ (m + r) \div P = s /\ (m + r) % P = t
  BY <1>4
<1>6. PICK l \in Nat : l = s * P
  BY <1>1
<1>7. ~(s < q)
  <2> SUFFICES ASSUME s < q PROVE FALSE
    OBVIOUS
  <2>1. l + P <= m
    BY <1>2, <1>6, MultipleSteps
  <2> QED BY <1>2, <1>5, <1>6, <2>1
<1>8. ~(q < s)
  <2> SUFFICES ASSUME q < s PROVE FALSE
    OBVIOUS
  <2>1. m + P <= l
    BY <1>2, <1>6, MultipleSteps
  <2> QED BY <1>2, <1>5, <1>6, <2>1
<1>9. s = q
  BY <1>7, <1>8
<1>10. t = r
  BY <1>2, <1>5, <1>6, <1>9
<1> QED BY <1>2, <1>5, <1>9, <1>10

\* Going back within a cycle takes the rung down day by day.
LEMMA CycleBack ==
    ASSUME NEW n \in Nat, NEW j \in Nat, j < CycleDay(n + 1)
    PROVE  j <= n /\ CycleDay(n + 1 - j) = CycleDay(n + 1) - j
<1>1. Cycle \in Nat \ {0}
  BY RewardsAssumption
<1>2. PICK q \in Nat : \E r \in 0..(Cycle - 1) : n = q * Cycle + r /\ n \div Cycle = q /\ n % Cycle = r
  BY <1>1, DivModOf
<1>3. PICK r \in 0..(Cycle - 1) : n = q * Cycle + r /\ n % Cycle = r
  BY <1>2
<1>4. CycleDay(n + 1) = r + 1
  <2>1. (n + 1) - 1 = n
    OBVIOUS
  <2> QED BY <1>3, <2>1 DEF CycleDay
<1>5. j <= r /\ r - j \in 0..(Cycle - 1)
  BY <1>1, <1>4
<1>6. PICK m \in Nat : m = q * Cycle
  <2>1. \A x, y \in Nat : x * y \in Nat
    OBVIOUS
  <2> QED BY <1>1, <2>1
<1>7. (n + 1 - j) - 1 = q * Cycle + (r - j) /\ j <= n
  BY <1>3, <1>5, <1>6
<1>8. (q * Cycle + (r - j)) % Cycle = r - j
  BY <1>1, <1>5, DivModIs
<1> QED BY <1>4, <1>5, <1>7, <1>8 DEF CycleDay

\* The day before is of the same week, or the last of the week before; later days
\* are of later weeks.
LEMMA WeekSteps ==
    ASSUME NEW d \in Days
    PROVE  /\ d - 1 \in Days => WeekOf(d - 1) = WeekOf(d) \/ d - 1 = (WeekOf(d) - 1) * Week
           /\ \A e \in Days : d <= e => WeekOf(d) <= WeekOf(e)
<1>1. Week \in Nat \ {0} /\ d \in Nat \ {0} /\ d - 1 \in Nat
  BY RewardsAssumption DEF Days
<1>2. PICK q \in Nat : \E r \in 0..(Week - 1) : d - 1 = q * Week + r /\ (d - 1) \div Week = q
  BY <1>1, DivModOf
<1>3. PICK r \in 0..(Week - 1) : d - 1 = q * Week + r
  BY <1>2
<1>4. WeekOf(d) = q + 1
  BY <1>2 DEF WeekOf
<1>5. \A x, y \in Nat : x * y \in Nat
  OBVIOUS
<1>6. PICK m \in Nat : m = q * Week
  BY <1>1, <1>5
<1>7. ASSUME d - 1 \in Days PROVE WeekOf(d - 1) = WeekOf(d) \/ d - 1 = (WeekOf(d) - 1) * Week
  <2>1. CASE r = 0
    BY <1>3, <1>4, <1>6, <2>1
  <2>2. CASE r # 0
    <3>1. r - 1 \in 0..(Week - 1) /\ (d - 1) - 1 = q * Week + (r - 1)
      BY <1>1, <1>3, <1>6, <2>2
    <3>2. ((d - 1) - 1) \div Week = q
      BY <1>1, <3>1, DivModIs
    <3> QED BY <1>4, <3>2 DEF WeekOf
  <2> QED BY <2>1, <2>2
<1>8. ASSUME NEW e \in Days, d <= e PROVE WeekOf(d) <= WeekOf(e)
  <2>1. e - 1 \in Nat /\ d - 1 <= e - 1
    BY <1>1, <1>8, RewardsAssumption DEF Days
  <2>2. PICK s \in Nat : \E t \in 0..(Week - 1) : e - 1 = s * Week + t /\ (e - 1) \div Week = s
    BY <1>1, <2>1, DivModOf
  <2>3. PICK t \in 0..(Week - 1) : e - 1 = s * Week + t
    BY <2>2
  <2>4. WeekOf(e) = s + 1
    BY <2>2 DEF WeekOf
  <2>5. ~(s < q)
    <3> SUFFICES ASSUME s < q PROVE FALSE
      OBVIOUS
    <3>1. PICK z \in Nat : q = s + 1 + z
      <4>1. q - s - 1 \in Nat /\ q = s + 1 + (q - s - 1)
        OBVIOUS
      <4> QED BY <4>1
    <3>2. q * Week = s * Week + Week + z * Week
      BY <1>1, <3>1
    <3>3. z * Week \in Nat /\ s * Week \in Nat
      BY <1>1, <1>5
    <3> QED BY <1>1, <1>3, <1>6, <2>1, <2>3, <3>2, <3>3
  <2> QED BY <1>4, <2>4, <2>5
<1> QED BY <1>7, <1>8

-----------------------------------------------------------------------------
(* Runs of days                                                            *)

\* There is no other.
LEMMA PrevIs ==
    ASSUME NEW H \in SUBSET Days, NEW d \in Days, NEW n \in 0..d,
           \A i \in 1..n : d - i \in H, d - n - 1 \notin H
    PROVE  Prev(H, d) = n
<1> DEFINE m == Prev(H, d)
<1>1. /\ m \in 0..d /\ d - m - 1 \notin H
      /\ \A i \in 1..m : d - i \in H
  BY PrevRun
<1> HIDE DEF m
<1>2. d \in Nat
  BY RewardsAssumption DEF Days
<1>3. ~(m < n)
  <2> SUFFICES ASSUME m < n PROVE FALSE
    OBVIOUS
  <2>1. m + 1 \in 1..n /\ d - (m + 1) = d - m - 1
    BY <1>1, <1>2
  <2> QED BY <1>1, <2>1
<1>4. ~(n < m)
  <2> SUFFICES ASSUME n < m PROVE FALSE
    OBVIOUS
  <2>1. n + 1 \in 1..m /\ d - (n + 1) = d - n - 1
    BY <1>1, <1>2
  <2> QED BY <1>1, <2>1
<1>5. m = n
  BY <1>1, <1>2, <1>3, <1>4
<1> QED BY <1>5 DEF m

\* More days recorded never shorten a run.
LEMMA PrevGrows ==
    ASSUME NEW G \in SUBSET Days, NEW H \in SUBSET G, NEW d \in Days
    PROVE  Prev(H, d) <= Prev(G, d)
<1> DEFINE m == Prev(G, d)
           n == Prev(H, d)
<1>1. H \in SUBSET Days /\ d \in Nat
  BY RewardsAssumption DEF Days
<1>2. /\ m \in 0..d /\ d - m - 1 \notin G
      /\ n \in 0..d /\ \A i \in 1..n : d - i \in H
  BY <1>1, PrevRun
<1> HIDE DEF m, n
<1>3. ~(m < n)
  <2> SUFFICES ASSUME m < n PROVE FALSE
    OBVIOUS
  <2>1. m + 1 \in 1..n /\ d - (m + 1) = d - m - 1
    BY <1>1, <1>2
  <2> QED BY <1>2, <2>1
<1>4. n <= m
  BY <1>1, <1>2, <1>3
<1> QED BY <1>4 DEF m, n

-----------------------------------------------------------------------------
(* What a day and a week were worth                                        *)

\* RunAround of a set of recorded days.
Around(L, x) == {z \in Days : \A y \in Days : (z <= y /\ y <= x) \/ (x <= y /\ y <= z) => y \in L}

\* The rung that the run ending at x had reached, unless the run outgrows the history.
Ranked(L, x, amt) ==
    /\ x \in L
    /\ Cardinality(Around(L, x)) <= Window => amt = CycleDay(RunEnding(L, x))

\* A full streak that reached the week, or the last day before it.
Streak(L, no) ==
    \E d \in Days : /\ WeekOf(d) = no \/ d = (no - 1) * Week
                    /\ RunEnding(L, d) >= Requirement

\* A later day moves no rung: it neither shortens a run nor lies before its days.
LEMMA RankedStays ==
    ASSUME NEW L \in SUBSET Days, NEW s \in Days, \A d \in L : d <= s,
           NEW x, NEW amt, Ranked(L, x, amt)
    PROVE  Ranked(L \cup {s}, x, amt)
<1> DEFINE M == L \cup {s}
           n == Prev(L, x)
<1>1. x \in L /\ x \in Days /\ x \in M /\ M \in SUBSET Days
  BY DEF Ranked
<1>2. x \in Nat /\ s \in Nat /\ x <= s
  BY <1>1, RewardsAssumption DEF Days
<1>3. n \in 0..x /\ (\A i \in 1..n : x - i \in L) /\ x - n - 1 \notin L
  BY <1>1, PrevRun
<1>4. x - n - 1 \notin M
  BY <1>2, <1>3
<1>5. Prev(M, x) = n
  <2>1. \A i \in 1..n : x - i \in M
    BY <1>3
  <2> HIDE DEF M, n
  <2> QED BY <1>1, <1>3, <1>4, <2>1, PrevIs
<1>6. RunEnding(M, x) = RunEnding(L, x)
  BY <1>1, <1>5 DEF RunEnding
<1>7. /\ Cardinality(Around(L, x)) <= Cardinality(Around(M, x))
      /\ Cardinality(Around(L, x)) \in Nat /\ Cardinality(Around(M, x)) \in Nat
  <2>1. Around(L, x) \subseteq Around(M, x) /\ Around(M, x) \in SUBSET Days
    BY DEF Around
  <2>2. IsFiniteSet(Around(M, x))
    BY <2>1, DaysFinite
  <2> QED BY <2>1, <2>2, FS_Subset, FS_CardinalityType
<1>8. Window \in Nat
  BY RewardsAssumption
<1>9. Cardinality(Around(M, x)) <= Window => Cardinality(Around(L, x)) <= Window
  BY <1>7, <1>8
<1> QED BY <1>1, <1>6, <1>9 DEF Ranked

\* A streak is never taken back.
LEMMA StreakStays ==
    ASSUME NEW M \in SUBSET Days, NEW L \in SUBSET M, NEW no, Streak(L, no)
    PROVE  Streak(M, no)
<1>1. PICK d \in Days : /\ WeekOf(d) = no \/ d = (no - 1) * Week
                        /\ RunEnding(L, d) >= Requirement
  BY DEF Streak
<1>2. Requirement \in Nat \ {0} /\ d \in Nat
  BY RewardsAssumption DEF Days
<1>3. d \in L /\ RunEnding(L, d) = Prev(L, d) + 1
  BY <1>1, <1>2 DEF RunEnding
<1>4. Prev(L, d) <= Prev(M, d) /\ Prev(L, d) \in Nat /\ Prev(M, d) \in Nat
  <2>1. L \in SUBSET Days
    OBVIOUS
  <2> QED BY <1>2, <2>1, PrevGrows, PrevRun
<1>5. RunEnding(M, d) = Prev(M, d) + 1
  BY <1>3 DEF RunEnding
<1>6. RunEnding(M, d) >= Requirement
  BY <1>1, <1>2, <1>3, <1>4, <1>5
<1> QED BY <1>1, <1>6 DEF Streak

-----------------------------------------------------------------------------
(* The inductive invariant of what was earned                              *)

\* While the row of a day is on its way, no later day is recorded; and the cache has
\* every day recorded before one it knows, as far back as the history it read reached.
CacheKnows ==
    /\ sweep # 0 => \A d \in logged : d <= sweep
    /\ cache.at <= today
    /\ \A d \in cache.days, y \in logged : y < d /\ y >= cache.at - Window => y \in cache.days

\* What a claim on its way stands on.
EarnedBy(L, day, r) ==
    /\ r.asked \in Days /\ r.asked <= day
    /\ r.kind = "daily" => \A x \in r.left \cup {r.no} : Ranked(L, x, r.rung - (r.asked - x))
    /\ r.kind = "weekly" => r.left = {} /\ r.no = WeekOf(r.asked) /\ Streak(L, r.no)

EarnedRuns == \A c \in Handlers : claims[c].op # "lost" => EarnedBy(logged, today, claims[c])

\* What a row of the ledger stands on.
EarnedRow(L, k, row) ==
    /\ k.kind = "daily" /\ row.st = "applied" => k.no <= row.made /\ Ranked(L, k.no, row.amt)
    /\ k.kind = "weekly" /\ row.st # "none" =>
          row.made \in Days /\ k.no <= WeekOf(row.made) /\ Streak(L, k.no)

EarnedRows  == \A k \in Keys : EarnedRow(logged, k, game[k])
EarnedNotes == \A k \in Keys : k.kind = "daily" /\ mirror[k] # 0 => Ranked(logged, k.no, mirror[k])

EInv == CacheKnows /\ EarnedRuns /\ EarnedRows /\ EarnedNotes

-----------------------------------------------------------------------------
(* What a claim asks for                                                   *)

\* The pool counts back from today's rung, and a day of it is worth what its run had
\* reached: the days before it that the cache does not know lie before the history.
LEMMA PoolIsRanked ==
    ASSUME TypeOK, Recorded, CacheKnows, NEW S, NEW x \in ClaimPool(cache.days, S, today)
    PROVE  Ranked(logged, x, TodayRung(cache.days, today) - (today - x))
<1> DEFINE H == cache.days
           n == Prev(H, today)
           r == CycleDay(n + 1)
           j == today - x
           f == today - n - 1
           at == cache.at
<1>1. /\ today \in Days /\ today \in Nat \ {0} /\ logged \in SUBSET Days /\ H \in SUBSET logged
      /\ H \in SUBSET Days /\ x \in Days /\ x \in Nat /\ at \in Nat /\ at <= today
      /\ Window \in Nat \ {0} /\ Horizon \in Nat /\ today <= Horizon /\ Days \subseteq Nat \ {0}
  BY RewardsAssumption DEF TypeOK, Recorded, Cached, CacheKnows, Days, ClaimPool
<1>2. n \in 0..today /\ (\A i \in 1..n : today - i \in H) /\ f \notin H
  BY <1>1, PrevRun
<1>3. x \in H /\ x <= today /\ today - r < x /\ TodayRung(H, today) = r
  BY DEF ClaimPool, TodayRung
<1>4. r \in Nat
  <2>1. TodayRung(H, today) \in 1..Cycle
    BY <1>1, TodayRungType
  <2> QED BY <1>3, <2>1, RewardsAssumption
<1> HIDE DEF n, r, H, at
<1>5. j \in Nat /\ j < r
  BY <1>1, <1>3, <1>4
<1>6. j <= n /\ CycleDay(n + 1 - j) = r - j
  <2>1. n \in Nat
    BY <1>1, <1>2
  <2> HIDE DEF j
  <2> QED BY <1>5, <2>1, CycleBack DEF r
<1>7. ASSUME NEW y \in (f + 1)..(today - 1) PROVE y \in H
  <2>1. today - y \in 1..n /\ y = today - (today - y)
    BY <1>1, <1>2, <1>7
  <2> QED BY <1>2, <2>1
<1>8. x \in (f + 1)..today
  BY <1>1, <1>2, <1>5, <1>6
<1>9. CASE f \notin logged
  <2>1. n - j \in 0..x /\ x - (n - j) - 1 = f
    BY <1>1, <1>2, <1>5, <1>6
  <2>2. \A i \in 1..(n - j) : x - i \in logged
    <3> SUFFICES ASSUME NEW i \in 1..(n - j) PROVE x - i \in logged
      OBVIOUS
    <3>1. x - i \in (f + 1)..(today - 1)
      BY <1>1, <1>2, <1>5, <1>6
    <3> QED BY <1>1, <1>7, <3>1
  <2>3. Prev(logged, x) = n - j
    <3> HIDE DEF j, f
    <3> QED BY <1>1, <1>9, <2>1, <2>2, PrevIs
  <2>4. RunEnding(logged, x) = n + 1 - j
    <3>1. (n - j) + 1 = n + 1 - j
      BY <1>1, <1>2
    <3> QED BY <1>1, <1>3, <2>3, <3>1 DEF RunEnding
  <2> QED BY <1>1, <1>3, <1>6, <2>4 DEF Ranked, H
<1>10. CASE f \in logged
  <2>1. f < at - Window
    <3>1. f < x
      BY <1>8, <1>1, <1>2
    <3>2. f >= at - Window => f \in H
      BY <1>3, <1>10, <3>1 DEF CacheKnows, H, at
    <3> QED BY <1>1, <1>2, <3>2
  <2> DEFINE A == f..(at - 1)
  <2>2. A \subseteq Around(logged, x)
    <3> SUFFICES ASSUME NEW z \in A PROVE z \in Around(logged, x)
      OBVIOUS
    <3>1. f \in Nat \ {0} /\ z \in Nat /\ f <= z /\ z <= at - 1
      <4>1. f \in Nat \ {0}
        BY <1>1, <1>10
      <4> HIDE DEF f
      <4> QED BY <1>1, <4>1
    <3>2. z \in Days
      <4> HIDE DEF f
      <4>1. z \in 1..Horizon
        BY <1>1, <3>1
      <4> QED BY <4>1 DEF Days
    <3>3. ASSUME NEW y \in Days, (z <= y /\ y <= x) \/ (x <= y /\ y <= z) PROVE y \in logged
      <4>1. y \in Nat /\ f <= y /\ y <= today /\ (y = today => y = x)
        BY <1>1, <1>8, <3>1, <3>3
      <4>2. y = f \/ y = x \/ y \in (f + 1)..(today - 1)
        BY <1>1, <1>2, <4>1
      <4> QED BY <1>1, <1>3, <1>7, <1>10, <4>2
    <3> QED BY <3>2, <3>3 DEF Around
  <2>3. IsFiniteSet(A) /\ Cardinality(A) = at - f
    <3>1. f \in Int /\ at - 1 \in Int /\ ~(f > at - 1)
      BY <1>1, <1>2, <2>1
    <3>2. IsFiniteSet(A) /\ Cardinality(A) = (at - 1) - f + 1
      <4> HIDE DEF f
      <4> QED BY <3>1, FS_Interval
    <3> QED BY <1>1, <1>2, <3>2
  <2>4. /\ Cardinality(A) <= Cardinality(Around(logged, x))
        /\ Cardinality(Around(logged, x)) \in Nat
    <3>1. IsFiniteSet(Around(logged, x))
      BY DaysFinite DEF Around
    <3> QED BY <2>2, <3>1, FS_Subset, FS_CardinalityType
  <2>5. ~(Cardinality(Around(logged, x)) <= Window)
    <3> HIDE DEF A
    <3> QED BY <1>1, <1>2, <2>1, <2>3, <2>4
  <2> QED BY <1>1, <1>3, <2>5 DEF Ranked
<1> QED BY <1>9, <1>10

\* A streak shown today reaches this week, or the last day before it when today's row
\* is not there yet.
LEMMA StreakIsShown ==
    ASSUME TypeOK, Recorded, Current(cache.days, today) >= Requirement
    PROVE  Streak(logged, WeekOf(today))
<1> DEFINE H == cache.days
           n == Prev(H, today)
<1>1. /\ today \in Days /\ today \in Nat \ {0} /\ logged \in SUBSET Days /\ H \in SUBSET logged
      /\ H \in SUBSET Days /\ Requirement \in Nat \ {0} /\ Horizon \in Nat /\ today <= Horizon
  BY RewardsAssumption DEF TypeOK, Recorded, Cached, Days
<1>2. n \in 0..today /\ (\A i \in 1..n : today - i \in H) /\ today - n - 1 \notin H
  BY <1>1, PrevRun
<1>3. Streak(H, WeekOf(today))
  <2>1. CASE today \in H
    <3>1. RunEnding(H, today) >= Requirement
      BY <2>1 DEF Current, RunEnding
    <3> QED BY <1>1, <3>1 DEF Streak
  <2>2. CASE today \notin H
    <3>1. n >= Requirement
      BY <2>2 DEF Current
    <3> HIDE DEF n, H
    <3>2. n - 1 \in Nat /\ 1 \in 1..n /\ n \in Nat
      BY <1>1, <1>2, <3>1
    <3>3. today - 1 \in H /\ today - 1 \in Days
      BY <1>1, <1>2, <3>2
    <3>4. n - 1 \in 0..(today - 1)
      BY <1>1, <1>2, <3>2
    <3>5. \A i \in 1..(n - 1) : (today - 1) - i \in H
      <4> SUFFICES ASSUME NEW i \in 1..(n - 1) PROVE (today - 1) - i \in H
        OBVIOUS
      <4>1. i + 1 \in 1..n /\ (today - 1) - i = today - (i + 1)
        BY <1>1, <3>2
      <4> QED BY <1>2, <4>1
    <3>6. (today - 1) - (n - 1) - 1 \notin H
      <4>1. (today - 1) - (n - 1) - 1 = today - n - 1
        BY <1>1, <3>2
      <4> QED BY <1>2, <4>1
    <3>7. Prev(H, today - 1) = n - 1
      <4> DEFINE d == today - 1
                 m == n - 1
      <4>1. /\ H \in SUBSET Days /\ d \in Days /\ m \in 0..d
            /\ (\A i \in 1..m : d - i \in H) /\ d - m - 1 \notin H
        BY <1>1, <3>3, <3>4, <3>5, <3>6
      <4> HIDE DEF d, m
      <4>2. Prev(H, d) = m
        BY <4>1, PrevIs
      <4> QED BY <4>2 DEF d, m
    <3>8. RunEnding(H, today - 1) = n
      <4>1. (n - 1) + 1 = n
        BY <3>2
      <4> QED BY <3>3, <3>7, <4>1 DEF RunEnding
    <3>9. WeekOf(today - 1) = WeekOf(today) \/ today - 1 = (WeekOf(today) - 1) * Week
      BY <1>1, <3>3, WeekSteps
    <3> QED BY <3>1, <3>3, <3>8, <3>9 DEF Streak
  <2> QED BY <2>1, <2>2
<1> QED BY <1>1, <1>3, StreakStays

-----------------------------------------------------------------------------
(* Frames                                                                  *)

\* A claim that goes on with one of its days stands on what it stood on.
LEMMA EarnedPart ==
    ASSUME NEW L, NEW day, NEW r, NEW s, EarnedBy(L, day, r),
           s.kind = r.kind, s.asked = r.asked, s.rung = r.rung,
           s.no \in r.left \cup {r.no}, s.left \subseteq r.left
    PROVE  EarnedBy(L, day, s)
<1>1. \A x \in s.left \cup {s.no} : x \in r.left \cup {r.no}
  OBVIOUS
<1>2. r.left = {} => s.left = {} /\ s.no = r.no
  OBVIOUS
<1> QED BY <1>1, <1>2 DEF EarnedBy

\* A later day recorded leaves every claim and row what it stood on.
LEMMA EarnedStays ==
    ASSUME NEW L \in SUBSET Days, NEW s \in Days, \A d \in L : d <= s
    PROVE  /\ \A day, r : EarnedBy(L, day, r) => EarnedBy(L \cup {s}, day, r)
           /\ \A k, row : EarnedRow(L, k, row) => EarnedRow(L \cup {s}, k, row)
           /\ \A x, amt : Ranked(L, x, amt) => Ranked(L \cup {s}, x, amt)
<1>1. \A x, amt : Ranked(L, x, amt) => Ranked(L \cup {s}, x, amt)
  BY RankedStays
<1>2. \A no : Streak(L, no) => Streak(L \cup {s}, no)
  <2>1. L \cup {s} \in SUBSET Days /\ L \in SUBSET (L \cup {s})
    OBVIOUS
  <2> QED BY <2>1, StreakStays
<1>3. \A day, r : EarnedBy(L, day, r) => EarnedBy(L \cup {s}, day, r)
  BY <1>1, <1>2 DEF EarnedBy
<1>4. \A k, row : EarnedRow(L, k, row) => EarnedRow(L \cup {s}, k, row)
  BY <1>1, <1>2 DEF EarnedRow
<1> QED BY <1>1, <1>3, <1>4

\* A move of one handler to nothing or to a claim that is earned.
LEMMA EarnedFrame ==
    ASSUME EInv, NEW c \in Handlers, UNCHANGED <<today, sweep, logged, cache>>,
           \A d \in Handlers \ {c} : claims'[d] = claims[d],
           claims'[c].op = "lost" \/ EarnedBy(logged, today, claims'[c])
    PROVE  CacheKnows' /\ EarnedRuns'
<1>1. CacheKnows'
  BY DEF EInv, CacheKnows
<1>2. EarnedRuns'
  <2> SUFFICES ASSUME NEW d \in Handlers, claims'[d].op # "lost"
               PROVE  EarnedBy(logged', today', claims'[d])
    BY DEF EarnedRuns
  <2>1. logged' = logged /\ today' = today
    OBVIOUS
  <2>2. CASE d = c
    BY <2>1, <2>2
  <2>3. CASE d # c
    <3>1. claims'[d] = claims[d]
      BY <2>3
    <3>2. EarnedBy(logged, today, claims[d])
      BY <3>1 DEF EInv, EarnedRuns
    <3> QED BY <2>1, <3>1, <3>2
  <2> QED BY <2>2, <2>3
<1> QED BY <1>1, <1>2

\* A step of a run.
LEMMA EarnedMoves ==
    ASSUME EInv, NEW c \in Handlers, NEW op, Moves(c, op), claims[c].op # "lost",
           UNCHANGED <<today, sweep, logged, cache>>
    PROVE  CacheKnows' /\ EarnedRuns'
<1>1. \A d \in Handlers \ {c} : claims'[d] = claims[d]
  BY DEF Moves
<1>2. EarnedBy(logged, today, claims[c])
  BY DEF EInv, EarnedRuns
<1>3. CASE claims'[c].op = "lost"
  BY <1>1, <1>3, EarnedFrame
<1>4. CASE claims'[c].op # "lost"
  <2>1. /\ claims'[c].kind = claims[c].kind /\ claims'[c].asked = claims[c].asked
        /\ claims'[c].rung = claims[c].rung /\ claims'[c].left \subseteq claims[c].left
        /\ claims'[c].no \in claims[c].left \cup {claims[c].no}
    BY <1>4 DEF Moves
  <2>2. EarnedBy(logged, today, claims'[c])
    BY <1>2, <2>1, EarnedPart
  <2> QED BY <1>1, <2>2, EarnedFrame
<1> QED BY <1>3, <1>4

\* The ledger but for one row, and the portal's table.
LEMMA EarnedRowsFrame ==
    ASSUME EInv, UNCHANGED logged, NEW k \in Keys,
           \A x \in Keys \ {k} : game'[x] = game[x],
           game'[k] = game[k] \/ EarnedRow(logged, k, game'[k])
    PROVE  EarnedRows'
<1> SUFFICES ASSUME NEW x \in Keys PROVE EarnedRow(logged', x, game'[x])
  BY DEF EarnedRows
<1>1. EarnedRow(logged, x, game[x])
  BY DEF EInv, EarnedRows
<1> QED BY <1>1

\* While the days and the portal's table stay, so do its notes.
LEMMA EarnedNotesFrame ==
    ASSUME EInv, UNCHANGED <<logged, mirror>>
    PROVE  EarnedNotes'
<1> SUFFICES ASSUME NEW k \in Keys, k.kind = "daily", mirror'[k] # 0
             PROVE  Ranked(logged', k.no, mirror'[k])
  BY DEF EarnedNotes
<1>1. Ranked(logged, k.no, mirror[k])
  BY DEF EInv, EarnedNotes
<1> QED BY <1>1

-----------------------------------------------------------------------------
(* The steps                                                               *)

\* The invariant holds at the start.
LEMMA InitEInv == Init => EInv
<1> SUFFICES ASSUME Init PROVE EInv
  OBVIOUS
<1>1. Launch \in Nat \ {0}
  BY RewardsAssumption
<1>2. CacheKnows
  BY <1>1 DEF Init, CacheKnows, Empty
<1>3. \A c \in Handlers : claims[c].op = "lost"
  BY NoClaimType DEF Init
<1>4. \A k \in Keys : game[k].st = "none" /\ mirror[k] = 0
  BY DEF Init, NoRow
<1>5. EarnedRuns
  BY <1>3 DEF EarnedRuns
<1>6. EarnedRows /\ EarnedNotes
  BY <1>4 DEF EarnedRows, EarnedRow, EarnedNotes
<1> QED BY <1>2, <1>5, <1>6 DEF EInv

\* Days are recorded in their order, and a history is read whole.
LEMMA CalendarKeepsEInv ==
    ASSUME IInv, PInv, EInv, Midnight \/ SweepReads \/ SweepInserts \/ FillCache
    PROVE  EInv'
<1>1. /\ today \in Nat /\ today' \in Nat /\ sweep \in Nat /\ logged \in SUBSET Days
      /\ logged \subseteq Nat /\ cache.at \in Nat /\ cache.days \subseteq logged
      /\ Days \subseteq Nat \ {0} /\ sweep <= today /\ \A d \in logged : d <= today
  <2>1. TypeOK /\ TypeOK'
    BY CalendarStep DEF IInv
  <2> QED BY <2>1, RewardsAssumption DEF TypeOK, Days, Cached, PInv, Recorded
<1>2. UNCHANGED <<game, claims, mirror>>
  BY DEF Midnight, SweepReads, SweepInserts, FillCache
<1>3. today <= today'
  BY <1>1 DEF Midnight, SweepReads, SweepInserts, FillCache
<1>4. /\ \A day, r : EarnedBy(logged, day, r) => EarnedBy(logged', day, r)
      /\ \A k, row : EarnedRow(logged, k, row) => EarnedRow(logged', k, row)
      /\ \A x, amt : Ranked(logged, x, amt) => Ranked(logged', x, amt)
  <2>1. CASE SweepInserts
    <3>1. sweep \in Days /\ (\A d \in logged : d <= sweep) /\ logged' = logged \cup {sweep}
      <4>1. sweep \in 0..Horizon /\ sweep # 0
        BY <2>1 DEF SweepInserts, IInv, TypeOK
      <4>2. sweep \in Days
        BY <4>1, RewardsAssumption DEF Days
      <4> QED BY <2>1, <4>2 DEF SweepInserts, EInv, CacheKnows
    <3> QED BY <1>1, <3>1, EarnedStays
  <2>2. CASE ~SweepInserts
    <3>1. logged' = logged
      BY <2>2 DEF Midnight, SweepReads, FillCache
    <3> QED BY <3>1
  <2> QED BY <2>1, <2>2
<1>5. EarnedRuns'
  <2> SUFFICES ASSUME NEW c \in Handlers, claims[c].op # "lost"
               PROVE  EarnedBy(logged', today', claims[c])
    BY <1>2 DEF EarnedRuns
  <2>1. EarnedBy(logged, today, claims[c])
    BY DEF EInv, EarnedRuns
  <2>2. claims[c].asked <= today'
    <3>1. claims[c].asked \in Days /\ claims[c].asked <= today
      BY <2>1 DEF EarnedBy
    <3>2. claims[c].asked \in Nat
      BY <1>1, <3>1
    <3> QED BY <1>1, <1>3, <3>1, <3>2
  <2>3. EarnedBy(logged, today', claims[c])
    BY <2>1, <2>2 DEF EarnedBy
  <2> QED BY <1>4, <2>3
<1>6. EarnedRows'
  BY <1>2, <1>4 DEF EInv, EarnedRows
<1>7. EarnedNotes'
  BY <1>2, <1>4 DEF EInv, EarnedNotes
<1>8. CacheKnows'
  <2>1. CASE Midnight
    <3>1. /\ today' = today + 1 /\ UNCHANGED <<sweep, logged>>
          /\ cache' = cache \/ cache' = Empty
      BY <2>1 DEF Midnight
    <3>2. Empty.days = {} /\ Empty.at = 0
      BY DEF Empty
    <3>3. CASE cache' = Empty
      BY <1>1, <3>1, <3>2, <3>3 DEF EInv, CacheKnows
    <3>4. CASE cache' = cache
      <4>1. CacheKnows
        BY DEF EInv
      <4>2. cache.at <= today'
        BY <1>1, <3>1, <4>1 DEF CacheKnows
      <4> QED BY <3>1, <3>4, <4>1, <4>2 DEF CacheKnows
    <3> QED BY <3>1, <3>3, <3>4
  <2>2. CASE SweepReads
    BY <1>1, <2>2 DEF SweepReads, EInv, CacheKnows
  <2>3. CASE SweepInserts
    <3>1. /\ sweep' = 0 /\ logged' = logged \cup {sweep} /\ UNCHANGED <<today, cache>>
          /\ \A d \in logged : d <= sweep
      BY <2>3 DEF SweepInserts, EInv, CacheKnows
    <3>2. \A d \in cache.days : ~(sweep < d)
      <4> SUFFICES ASSUME NEW d \in cache.days PROVE ~(sweep < d)
        OBVIOUS
      <4>1. d \in Nat /\ d <= sweep /\ sweep \in Nat
        BY <1>1, <3>1
      <4> QED BY <4>1
    <3> QED BY <1>1, <3>1, <3>2 DEF EInv, CacheKnows
  <2>4. CASE FillCache
    <3>1. UNCHANGED <<today, sweep, logged>> /\ cache'.days = Served /\ cache'.at = today
      BY <2>4 DEF FillCache
    <3>2. \A y \in logged : y >= today - Window => y \in Served
      BY DEF Served
    <3> QED BY <1>1, <3>1, <3>2 DEF EInv, CacheKnows
  <2> QED BY <2>1, <2>2, <2>3, <2>4
<1> QED BY <1>5, <1>6, <1>7, <1>8 DEF EInv

\* A claim begins with what the cached history says is due.
LEMMA ClaimKeepsEInv ==
    ASSUME IInv, PInv, EInv, NEW c \in Handlers, ClaimDaily(c) \/ ClaimWeekly(c) \/ ClaimMonthly(c)
    PROVE  EInv'
<1>1. /\ TypeOK /\ claims \in [Handlers -> Claim] /\ today \in Days /\ today <= today
      /\ Recorded /\ CacheKnows /\ cache.days \in SUBSET Days
  BY RewardsAssumption DEF IInv, TypeOK, PInv, EInv, Cached, Days
<1>2. UNCHANGED <<today, sweep, logged, cache, game, mirror>>
  BY DEF ClaimDaily, ClaimWeekly, ClaimMonthly, Ask
<1>3. EarnedRows' /\ EarnedNotes'
  BY <1>2 DEF EInv, EarnedRows, EarnedNotes
<1>4. ASSUME NEW kind, NEW nos, NEW rung, Ask(c, kind, nos, rung)
      PROVE  /\ \A d \in Handlers \ {c} : claims'[d] = claims[d]
             /\ claims'[c].kind = kind /\ claims'[c].asked = today /\ claims'[c].rung = rung
             /\ claims'[c].no = Oldest(nos) /\ claims'[c].left = nos \ {Oldest(nos)}
  BY <1>1, <1>4 DEF Ask
<1>5. \A d \in Handlers \ {c} : claims'[d] = claims[d]
  BY <1>4 DEF ClaimDaily, ClaimWeekly, ClaimMonthly
<1>6. EarnedBy(logged, today, claims'[c])
  <2>1. CASE ClaimDaily(c)
    <3> DEFINE pool == ClaimPool(cache.days, ClaimedKeys("daily"), today)
               rung == TodayRung(cache.days, today)
    <3>1. Ask(c, "daily", pool, rung) /\ pool # {} /\ pool \in SUBSET Days
      BY <1>1, <2>1 DEF ClaimDaily, ClaimPool
    <3>2. \A x \in pool : Ranked(logged, x, rung - (today - x))
      BY <1>1, PoolIsRanked
    <3> HIDE DEF pool, rung
    <3>3. Oldest(pool) \in pool
      BY <3>1, OldestType
    <3>4. /\ claims'[c].kind = "daily" /\ claims'[c].asked = today /\ claims'[c].rung = rung
          /\ claims'[c].no = Oldest(pool) /\ claims'[c].left = pool \ {Oldest(pool)}
      BY <1>4, <3>1
    <3>5. \A x \in claims'[c].left \cup {claims'[c].no} : x \in pool
      BY <3>3, <3>4
    <3> QED BY <1>1, <3>2, <3>4, <3>5 DEF EarnedBy
  <2>2. CASE ClaimWeekly(c)
    <3> DEFINE w == WeekOf(today)
    <3>1. Ask(c, "weekly", {w}, 0) /\ Streak(logged, w)
      BY <1>1, <2>2, StreakIsShown DEF ClaimWeekly
    <3>2. Oldest({w}) = w
      <4>1. w \in Days
        BY <1>1, WeekType
      <4> HIDE DEF w
      <4>2. Oldest({w}) \in {w}
        BY <4>1, OldestType
      <4> QED BY <4>2
    <3> HIDE DEF w
    <3>3. /\ claims'[c].kind = "weekly" /\ claims'[c].asked = today
          /\ claims'[c].no = w /\ claims'[c].left = {}
      BY <1>4, <3>1, <3>2
    <3> QED BY <1>1, <3>1, <3>3 DEF EarnedBy, w
  <2>3. CASE ClaimMonthly(c)
    <3>1. PICK p : Ask(c, "monthly", {p}, 0)
      BY <2>3 DEF ClaimMonthly
    <3>2. claims'[c].kind = "monthly" /\ claims'[c].asked = today
      BY <1>4, <3>1
    <3> QED BY <1>1, <3>2 DEF EarnedBy
  <2> QED BY <2>1, <2>2, <2>3
<1> QED BY <1>2, <1>3, <1>5, <1>6, EarnedFrame DEF EInv

\* The step that pays a day: its row keeps what the claim stood on.
LEMMA PaysKeepsEInv ==
    ASSUME IInv, EInv, NEW c \in Handlers, Pays(c)
    PROVE  EInv'
<1> DEFINE k == Key(c)
           row == [st |-> "applied", made |-> today, amt |-> Worth(c)]
<1>1. TypeOK /\ k \in Keys /\ claims[c] \in Claim /\ game \in [Keys -> Row] /\ OnTheRamp
  <2>1. TypeOK /\ k \in Keys
    BY KeyType DEF IInv
  <2> QED BY <2>1 DEF TypeOK, IInv
<1>2. /\ claims[c].op = "sent" /\ To(c, "applied") /\ "applied" \in Ops
      /\ UNCHANGED <<today, sweep, logged, cache, mirror>>
      /\ claims[c].kind # "weekly" /\ game' = [game EXCEPT ![k] = row]
      /\ k.kind = claims[c].kind /\ k.no = claims[c].no
  BY DEF Pays, At, Ops, Answered, Key
<1>3. CacheKnows' /\ EarnedRuns'
  BY <1>1, <1>2, ToMoves, EarnedMoves
<1>4. EarnedRow(logged, k, row)
  <2> SUFFICES ASSUME claims[c].kind = "daily" PROVE k.no <= today /\ Ranked(logged, k.no, Worth(c))
    BY <1>2 DEF EarnedRow
  <2>1. EarnedBy(logged, today, claims[c])
    BY <1>2 DEF EInv, EarnedRuns
  <2>2. Ranked(logged, claims[c].no, claims[c].rung - (claims[c].asked - claims[c].no))
    BY <2>1 DEF EarnedBy
  <2>3. claims[c].no <= claims[c].asked /\ claims[c].asked <= today /\ claims[c].asked \in Days
    BY <1>1, <1>2, <2>1 DEF OnTheRamp, EarnedBy
  <2>4. claims[c].no \in Nat /\ claims[c].asked \in Nat /\ today \in Nat
    BY <1>1, <2>3, RewardsAssumption DEF Claim, TypeOK, Days
  <2>5. Worth(c) = claims[c].rung - (claims[c].asked - claims[c].no)
    BY DEF Worth
  <2> QED BY <1>2, <2>2, <2>3, <2>4, <2>5
<1> HIDE DEF k, row
<1>5. game'[k] = row /\ \A x \in Keys \ {k} : game'[x] = game[x]
  BY <1>1, <1>2
<1>6. EarnedRows'
  BY <1>1, <1>2, <1>4, <1>5, EarnedRowsFrame
<1>7. EarnedNotes'
  BY <1>2, EarnedNotesFrame
<1> QED BY <1>3, <1>6, <1>7 DEF EInv

\* Weekly, phase A: the row is made in the week that was asked for, or later.
LEMMA ReservesKeepsEInv ==
    ASSUME IInv, EInv, NEW c \in Handlers, Reserves(c)
    PROVE  EInv'
<1> DEFINE k == Key(c)
           new == [claims[c] EXCEPT !.op = "reserved", !.saw = game[k].st]
           row == [st |-> "pending", made |-> today, amt |-> 1]
<1>1. /\ TypeOK /\ k \in Keys /\ claims \in [Handlers -> Claim] /\ claims[c] \in Claim
      /\ game \in [Keys -> Row] /\ today \in Days
  <2>1. TypeOK /\ k \in Keys
    BY KeyType DEF IInv
  <2> QED BY <2>1 DEF TypeOK
<1>2. /\ claims[c].kind = "weekly" /\ claims[c].op = "sent" /\ k.kind = "weekly"
      /\ k.no = claims[c].no /\ UNCHANGED <<today, sweep, logged, cache, mirror>>
      /\ claims' = [claims EXCEPT ![c] = new]
      /\ game' = game \/ game' = [game EXCEPT ![k] = row]
  BY DEF Reserves, At, Key
<1>3. EarnedBy(logged, today, claims[c])
  BY <1>2 DEF EInv, EarnedRuns
<1>4. /\ new.kind = claims[c].kind /\ new.asked = claims[c].asked /\ new.rung = claims[c].rung
      /\ new.no = claims[c].no /\ new.left = claims[c].left
  BY <1>1 DEF Claim
<1>5. EarnedRow(logged, k, row)
  <2>1. /\ claims[c].asked \in Days /\ claims[c].asked <= today
        /\ claims[c].no = WeekOf(claims[c].asked) /\ Streak(logged, claims[c].no)
    BY <1>2, <1>3 DEF EarnedBy
  <2>2. WeekOf(claims[c].asked) <= WeekOf(today)
    BY <1>1, <2>1, WeekSteps
  <2> QED BY <1>1, <1>2, <2>1, <2>2 DEF EarnedRow
<1> HIDE DEF k, row, new
<1>6. EarnedBy(logged, today, new)
  BY <1>3, <1>4, EarnedPart
<1>7. claims'[c] = new /\ \A d \in Handlers \ {c} : claims'[d] = claims[d]
  BY <1>1, <1>2
<1>8. CacheKnows' /\ EarnedRuns'
  BY <1>2, <1>6, <1>7, EarnedFrame
<1>9. /\ game'[k] = game[k] \/ game'[k] = row
      /\ \A x \in Keys \ {k} : game'[x] = game[x]
  BY <1>1, <1>2
<1>10. EarnedRows'
  BY <1>1, <1>2, <1>5, <1>9, EarnedRowsFrame
<1>11. EarnedNotes'
  BY <1>2, EarnedNotesFrame
<1> QED BY <1>8, <1>10, <1>11 DEF EInv

\* The other steps of a run pay no day: only a weekly row is flipped or marked, and
\* it keeps the day it was made.
LEMMA WriterKeepsEInv ==
    ASSUME IInv, EInv, NEW c \in Handlers, Writer(c)
    PROVE  EInv'
<1> DEFINE k == Key(c)
<1>1. /\ TypeOK /\ k \in Keys /\ claims[c] \in Claim /\ claims \in [Handlers -> Claim]
      /\ game \in [Keys -> Row]
  <2>1. TypeOK /\ k \in Keys
    BY KeyType DEF IInv
  <2> QED BY <2>1 DEF TypeOK
<1>2. UNCHANGED <<today, sweep, logged, cache, mirror>>
  BY DEF Writer, Replays, CapRefuses, Refuses, Pays, Reserves, Mints, MintFails, Flips,
     MarksFailed, OpDies
<1>3. EarnedNotes'
  BY <1>2, EarnedNotesFrame
<1>4. CASE Pays(c)
  BY <1>4, PaysKeepsEInv
<1>5. CASE Reserves(c)
  BY <1>5, ReservesKeepsEInv
<1>6. CASE OpDies(c)
  <2>1. PICK r \in {[claims[c] EXCEPT !.op = "lost"], NoClaim} : claims' = [claims EXCEPT ![c] = r]
    BY <1>6 DEF OpDies
  <2>2. claims'[c].op = "lost" /\ \A d \in Handlers \ {c} : claims'[d] = claims[d]
    BY <1>1, <2>1, NoClaimType DEF Claim
  <2>3. game' = game
    BY <1>6 DEF OpDies
  <2> QED BY <1>1, <1>2, <1>3, <2>2, <2>3, EarnedFrame, EarnedRowsFrame DEF EInv
<1>7. ASSUME ~Pays(c), ~Reserves(c), ~OpDies(c) PROVE EInv'
  <2>1. PICK op \in Ops : To(c, op)
    <3>1. {"replay", "capped", "refused", "minted", "failing", "applied"} \subseteq Ops
      BY DEF Ops, Running, Answered
    <3> QED BY <1>7, <3>1 DEF Writer, Replays, CapRefuses, Refuses, Mints, MintFails, Flips, MarksFailed
  <2>2. claims[c].op # "lost"
    BY <1>7 DEF Writer, At, Replays, CapRefuses, Refuses, Mints, MintFails, Flips, MarksFailed
  <2>3. CacheKnows' /\ EarnedRuns'
    BY <1>1, <1>2, <2>1, <2>2, ToMoves, EarnedMoves
  <2>4. \A x \in Keys \ {k} : game'[x] = game[x]
    <3> HIDE DEF k
    <3>1. game' = game \/ \E st \in {"applied", "failed"} : game' = [game EXCEPT ![k] = [@ EXCEPT !.st = st]]
      BY <1>7 DEF Writer, Replays, CapRefuses, Refuses, Mints, MintFails, Flips, MarksFailed, k
    <3> QED BY <1>1, <3>1
  <2>5. game'[k] = game[k] \/ EarnedRow(logged, k, game'[k])
    <3>1. CASE Flips(c) \/ MarksFailed(c)
      <4>1. claims[c].kind = "weekly" /\ game[k].st # "none" /\ k.kind = "weekly"
        BY <3>1 DEF Flips, MarksFailed, At, IInv, RunsKnow, Key
      <4> HIDE DEF k
      <4>2. game' = game \/ \E st \in {"applied", "failed"} : game' = [game EXCEPT ![k] = [@ EXCEPT !.st = st]]
        BY <3>1 DEF Flips, MarksFailed, k
      <4>3. game'[k] = game[k] \/ game'[k].made = game[k].made
        BY <1>1, <4>2 DEF Row
      <4>4. EarnedRow(logged, k, game[k])
        BY <1>1 DEF EInv, EarnedRows
      <4> QED BY <4>1, <4>3, <4>4 DEF EarnedRow
    <3>2. CASE ~(Flips(c) \/ MarksFailed(c))
      BY <1>7, <3>2 DEF Writer, Replays, CapRefuses, Refuses, Mints, MintFails
    <3> QED BY <3>1, <3>2
  <2>6. EarnedRows'
    <3> HIDE DEF k
    <3> QED BY <1>1, <1>2, <2>4, <2>5, EarnedRowsFrame
  <2> QED BY <1>3, <2>3, <2>6 DEF EInv
<1> QED BY <1>4, <1>5, <1>6, <1>7

\* A grant that landed is noted at what its day was worth, and the next day of the
\* claim is asked for.
LEMMA GrantedKeepsEInv ==
    ASSUME IInv, EInv, NEW c \in Handlers, Granted(c)
    PROVE  EInv'
<1> DEFINE k == Key(c)
<1>1. TypeOK /\ k \in Keys /\ mirror \in [Keys -> 0..Cycle]
  <2>1. TypeOK /\ k \in Keys
    BY KeyType DEF IInv
  <2> QED BY <2>1 DEF TypeOK
<1>2. /\ claims[c].op # "lost" /\ UNCHANGED <<today, sweep, logged, cache, game>>
      /\ mirror' = [mirror EXCEPT ![k] = IF @ = 0 THEN Worth(c) ELSE @] \/ mirror' = mirror
      /\ k.kind = claims[c].kind /\ k.no = claims[c].no
  BY DEF Granted, Key
<1>3. CacheKnows' /\ EarnedRuns'
  BY <1>1, <1>2, GrantedMoves, EarnedMoves
<1>4. EarnedRows'
  BY <1>2 DEF EInv, EarnedRows
<1>5. k.kind = "daily" => Ranked(logged, k.no, Worth(c))
  <2>1. EarnedBy(logged, today, claims[c])
    BY <1>2 DEF EInv, EarnedRuns
  <2> QED BY <1>2, <2>1 DEF EarnedBy, Worth
<1>6. EarnedNotes'
  <2> SUFFICES ASSUME NEW x \in Keys, x.kind = "daily", mirror'[x] # 0
               PROVE  Ranked(logged', x.no, mirror'[x])
    BY DEF EarnedNotes
  <2>1. mirror[x] # 0 => Ranked(logged, x.no, mirror[x])
    BY DEF EInv, EarnedNotes
  <2> HIDE DEF k
  <2>2. mirror'[x] = mirror[x] \/ (x = k /\ mirror'[x] = Worth(c))
    <3>1. PICK n : mirror' = [mirror EXCEPT ![k] = n] /\ n \in {mirror[k], Worth(c)}
      BY <1>1, <1>2
    <3> QED BY <1>1, <3>1
  <2> QED BY <1>2, <1>5, <2>1, <2>2
<1> QED BY <1>3, <1>4, <1>6 DEF EInv

\* A handler that gives up leaves its run with the key it has.
LEMMA StopsKeepsEInv ==
    ASSUME IInv, EInv, NEW c \in Handlers, Stops(c)
    PROVE  EInv'
<1> DEFINE new == [claims[c] EXCEPT !.waits = FALSE, !.left = {}]
<1>1. claims[c] \in Claim /\ claims \in [Handlers -> Claim]
  BY DEF IInv, TypeOK
<1>2. /\ UNCHANGED <<today, sweep, logged, cache, game, mirror>>
      /\ claims' = [claims EXCEPT ![c] = IF claims[c].op \in Running THEN new ELSE NoClaim]
  BY DEF Stops
<1>3. EarnedRows' /\ EarnedNotes'
  BY <1>2 DEF EInv, EarnedRows, EarnedNotes
<1>4. /\ new.kind = claims[c].kind /\ new.asked = claims[c].asked /\ new.rung = claims[c].rung
      /\ new.no = claims[c].no /\ new.left = {}
  BY <1>1 DEF Claim
<1> HIDE DEF new
<1>5. \A d \in Handlers \ {c} : claims'[d] = claims[d]
  BY <1>1, <1>2
<1>6. claims'[c].op = "lost" \/ EarnedBy(logged, today, claims'[c])
  <2>1. CASE claims[c].op \in Running
    <3>1. EarnedBy(logged, today, claims[c])
      BY <2>1 DEF EInv, EarnedRuns, Running
    <3>2. EarnedBy(logged, today, new)
      BY <1>4, <3>1, EarnedPart
    <3>3. claims'[c] = new
      BY <1>1, <1>2, <2>1
    <3> QED BY <3>2, <3>3
  <2>2. CASE claims[c].op \notin Running
    <3>1. claims'[c] = NoClaim
      BY <1>1, <1>2, <2>2
    <3> QED BY <3>1, NoClaimType
  <2> QED BY <2>1, <2>2
<1> QED BY <1>2, <1>3, <1>5, <1>6, EarnedFrame DEF EInv

\* Every step keeps the invariant.
LEMMA NextKeepsEInv == IInv /\ PInv /\ EInv /\ [Next]_vars => EInv'
<1> SUFFICES ASSUME IInv, PInv, EInv, [Next]_vars PROVE EInv'
  OBVIOUS
<1>1. CASE Midnight \/ SweepReads \/ SweepInserts \/ FillCache
  BY <1>1, CalendarKeepsEInv
<1>2. ASSUME NEW c \in Handlers, Writer(c) PROVE EInv'
  BY <1>2, WriterKeepsEInv
<1>3. ASSUME NEW c \in Handlers, Handler(c) PROVE EInv'
  BY <1>3, ClaimKeepsEInv, GrantedKeepsEInv, StopsKeepsEInv DEF Handler
<1>4. CASE UNCHANGED vars
  <2>1. UNCHANGED <<today, sweep, logged, cache, game, mirror, claims>>
    BY <1>4 DEF vars
  <2> QED BY <2>1 DEF EInv, CacheKnows, EarnedRuns, EarnedRows, EarnedNotes
<1> QED BY <1>1, <1>2, <1>3, <1>4 DEF Next

\* And so it always holds.
LEMMA SpecKeepsEInv == Spec => [](IInv /\ PInv /\ EInv)
<1>1. Init => IInv /\ PInv /\ EInv
  BY InitIInv, InitPInv, InitEInv
<1>2. IInv /\ PInv /\ EInv /\ [Next]_vars => IInv' /\ PInv' /\ EInv'
  BY NextKeepsIInv, NextKeepsPInv, NextKeepsEInv
<1> QED BY <1>1, <1>2, PTL DEF Spec

-----------------------------------------------------------------------------
(* The theorems about days and weeks                                       *)

\* A day is paid the rung its run had reached, for every history, ramp and window: a
\* late row, a stale cache and a sweep of several days never move a rung.
THEOREM DayIsPaidItsRung == Spec => []RungIsEarned
<1>1. IInv /\ EInv => RungIsEarned
  <2> SUFFICES ASSUME IInv, EInv, NEW k \in Keys, k.kind = "daily", paid[k] > 0,
                      Cardinality(RunAround(k.no)) <= Window
               PROVE  k.no \in logged /\ game[k].amt = CycleDay(RunEnding(logged, k.no))
    BY DEF RungIsEarned
  <2>1. game[k].st = "applied"
    BY DEF IInv, Gates
  <2>2. Ranked(logged, k.no, game[k].amt)
    BY <2>1 DEF EInv, EarnedRows, EarnedRow
  <2>3. RunAround(k.no) = Around(logged, k.no)
    BY DEF RunAround, Around
  <2> QED BY <2>2, <2>3 DEF Ranked
<1> QED BY <1>1, SpecKeepsEInv, PTL

\* A week's weapon stands on a full streak that reached the week or its eve, however
\* stale the history it was judged by and however late it was minted.
THEOREM WeeksWeaponIsEarned == Spec => []WeeklyIsEarned
<1>1. IInv /\ EInv => WeeklyIsEarned
  <2> SUFFICES ASSUME IInv, EInv, NEW k \in Keys, k.kind = "weekly", paid[k] > 0
               PROVE  Streak(logged, k.no)
    BY DEF WeeklyIsEarned, Streak
  <2>1. k \in grants
    BY DEF IInv, Gates
  <2>2. game[k].st # "none"
    BY <2>1 DEF IInv, Gates
  <2> QED BY <2>2 DEF EInv, EarnedRows, EarnedRow
<1> QED BY <1>1, SpecKeepsEInv, PTL

\* What the portal shows as claimed was paid, and for a run that fits the history with
\* the same Solari: both were judged by histories, maybe by different ones.
THEOREM NotesMatchTheLedger == Spec => []MirrorIsBacked
<1>1. IInv /\ EInv => MirrorIsBacked
  <2> SUFFICES ASSUME IInv, EInv, NEW k \in Keys, mirror[k] # 0
               PROVE  /\ paid[k] = 1
                      /\ k.kind = "daily" /\ Cardinality(RunAround(k.no)) <= Window
                            => mirror[k] = game[k].amt
    BY DEF MirrorIsBacked
  <2>1. paid[k] = 1
    BY DEF IInv, NotedIsPaid
  <2>2. ASSUME k.kind = "daily", Cardinality(RunAround(k.no)) <= Window
        PROVE  mirror[k] = game[k].amt
    <3>1. game[k].st = "applied"
      BY <2>1, <2>2 DEF IInv, Gates
    <3>2. Ranked(logged, k.no, game[k].amt)
      BY <2>2, <3>1 DEF EInv, EarnedRows, EarnedRow
    <3>3. Ranked(logged, k.no, mirror[k])
      BY <2>2 DEF EInv, EarnedNotes
    <3>4. RunAround(k.no) = Around(logged, k.no)
      BY DEF RunAround, Around
    <3> QED BY <2>2, <3>2, <3>3, <3>4 DEF Ranked
  <2> QED BY <2>1, <2>2
<1> QED BY <1>1, SpecKeepsEInv, PTL

-----------------------------------------------------------------------------
(* The caps                                                                *)

\* Of the days on today's ramp, a full cap has no room for the one that is asked for.
LEMMA DailyCapCrosses ==
    ASSUME IInv, EInv, NEW c \in Handlers, claims[c].op # "lost", claims[c].kind = "daily", Capped(c)
    PROVE  \/ claims[c].asked < today
           \/ \E x \in Keys : /\ x.kind = "daily" /\ game[x].made = today
                             /\ x.no <= today - claims[c].rung
<1> SUFFICES ASSUME ~(claims[c].asked < today),
                    \A x \in Keys : x.kind = "daily" /\ game[x].made = today
                                       => ~(x.no <= today - claims[c].rung)
             PROVE  FALSE
  OBVIOUS
<1> DEFINE k == Key(c)
           no == claims[c].no
           rung == claims[c].rung
           Ramp == (today - rung + 1)..today
           Day(n) == [kind |-> "daily", no |-> n]
           B == {Day(n) : n \in Ramp \ {no}}
<1>1. /\ TypeOK /\ k \in Keys /\ k = Day(no) /\ claims[c] \in Claim /\ today \in Nat /\ no \in Nat
      /\ rung \in Nat /\ rung <= Cycle /\ Cycle \in Nat /\ DayCap \in Nat /\ Cycle <= DayCap
  <2>1. TypeOK /\ k \in Keys
    BY KeyType DEF IInv
  <2>2. claims[c] \in Claim /\ today \in Days
    BY <2>1 DEF TypeOK
  <2> QED BY <2>1, <2>2, RewardsAssumption DEF Claim, Days, Key
<1>2. claims[c].asked = today
  <2>1. EarnedBy(logged, today, claims[c])
    BY DEF EInv, EarnedRuns
  <2>2. claims[c].asked \in Nat /\ claims[c].asked <= today
    BY <2>1, RewardsAssumption DEF EarnedBy, Days
  <2> QED BY <1>1, <2>2
<1>3. no \in Ramp
  <2>1. claims[c].asked - rung < no /\ no <= claims[c].asked
    BY DEF IInv, OnTheRamp
  <2> HIDE DEF no, rung
  <2> QED BY <1>1, <1>2, <2>1
<1> HIDE DEF no, rung, k
<1>4. IsFiniteSet(Ramp) /\ Cardinality(Ramp) = rung
  <2>1. today - rung + 1 \in Int /\ today \in Int /\ ~(today - rung + 1 > today)
    BY <1>1, <1>3
  <2>2. IsFiniteSet(Ramp) /\ Cardinality(Ramp) = today - (today - rung + 1) + 1
    BY <2>1, FS_Interval
  <2> QED BY <1>1, <2>2
<1> HIDE DEF Ramp
<1>5. IsFiniteSet(Ramp \ {no}) /\ Cardinality(Ramp \ {no}) = rung - 1
  BY <1>3, <1>4, FS_RemoveElement
<1>6. IsFiniteSet(B) /\ Cardinality(B) <= rung - 1 /\ Cardinality(B) \in Nat
  <2> DEFINE f == [n \in Ramp \ {no} |-> Day(n)]
  <2>1. f \in Surjection(Ramp \ {no}, B)
    BY DEF Surjection
  <2> HIDE DEF f, B
  <2>2. IsFiniteSet(B) /\ Cardinality(B) <= Cardinality(Ramp \ {no})
    BY <1>5, <2>1, FS_Surjection
  <2> QED BY <1>5, <2>2, FS_CardinalityType
<1>7. CapRows(k) \subseteq B
  <2> SUFFICES ASSUME NEW x \in CapRows(k) PROVE x \in B
    OBVIOUS
  <2>1. x \in Keys /\ x # k /\ x.kind = "daily" /\ game[x].st = "applied" /\ game[x].made = today
    BY <1>1 DEF CapRows
  <2>2. x.no \in Nat /\ x = Day(x.no)
    BY <2>1, RewardsAssumption DEF Keys, Days
  <2>3. x.no <= today
    BY <2>1 DEF EInv, EarnedRows, EarnedRow
  <2>4. ~(x.no <= today - rung)
    BY <2>1 DEF rung
  <2>5. x.no \in Ramp
    BY <1>1, <2>2, <2>3, <2>4 DEF Ramp
  <2> QED BY <1>1, <2>1, <2>2, <2>5
<1>8. Cardinality(CapRows(k)) >= DayCap
  BY DEF Capped, Cap, k
<1>9. Cardinality(CapRows(k)) <= Cardinality(B) /\ Cardinality(CapRows(k)) \in Nat
  BY <1>6, <1>7, FS_Subset, FS_CardinalityType
<1> QED BY <1>1, <1>6, <1>8, <1>9

\* The row that fills a week's cap is of an earlier week, if the claim is of this one.
LEMMA WeeklyCapCrosses ==
    ASSUME IInv, EInv, NEW c \in Handlers, claims[c].op # "lost", claims[c].kind = "weekly", Capped(c)
    PROVE  \/ WeekOf(claims[c].asked) < WeekOf(today)
           \/ \E x \in Keys : /\ x.kind = "weekly" /\ WeekOf(game[x].made) = WeekOf(today)
                             /\ x.no < WeekOf(today)
<1>1. TypeOK /\ today \in Days /\ claims[c].no \in Days /\ WeekOf(today) \in Nat
  <2>1. TypeOK /\ today \in Days
    BY DEF IInv, TypeOK
  <2>2. WeekOf(today) \in Days
    BY <2>1, WeekType
  <2> QED BY <2>1, <2>2, RewardsAssumption DEF TypeOK, Claim, Days
<1>2. /\ claims[c].asked \in Days /\ claims[c].asked <= today
      /\ claims[c].no = WeekOf(claims[c].asked)
  <2>1. EarnedBy(logged, today, claims[c])
    BY DEF EInv, EarnedRuns
  <2> QED BY <2>1 DEF EarnedBy
<1>3. WeekOf(claims[c].asked) <= WeekOf(today) /\ WeekOf(claims[c].asked) \in Nat
  <2>1. claims[c].no \in Nat
    BY <1>1, RewardsAssumption DEF Days
  <2> QED BY <1>1, <1>2, <2>1, WeekSteps
<1>4. PICK x \in CapRows(Key(c)) : TRUE
  <2>1. Key(c).kind = "weekly"
    BY DEF Key
  <2>2. Cardinality(CapRows(Key(c))) >= WeekCap /\ WeekCap \in Nat \ {0}
    BY RewardsAssumption DEF Capped, Cap
  <2>3. CapRows(Key(c)) # {}
    BY <2>2, FS_EmptySet
  <2> QED BY <2>3
<1>5. /\ x \in Keys /\ x # Key(c) /\ x.kind = "weekly" /\ game[x].st = "applied"
      /\ WeekOf(game[x].made) = WeekOf(today)
  BY <1>4 DEF CapRows, Key
<1>6. x.no <= WeekOf(today) /\ x.no \in Nat /\ x.no # claims[c].no
  <2>1. x.no <= WeekOf(game[x].made)
    BY <1>5 DEF EInv, EarnedRows, EarnedRow
  <2>2. x.no \in Nat /\ x.no # claims[c].no
    BY <1>5, RewardsAssumption DEF Keys, Key, Days
  <2> QED BY <1>5, <2>1, <2>2
<1>7. CASE WeekOf(claims[c].asked) = WeekOf(today)
  <2>1. x.no < WeekOf(today)
    BY <1>1, <1>2, <1>6, <1>7
  <2> QED BY <1>5, <2>1
<1>8. CASE WeekOf(claims[c].asked) # WeekOf(today)
  BY <1>1, <1>3, <1>8
<1> QED BY <1>7, <1>8

\* No other row has a period's number, so its cap never refuses.
LEMMA MonthlyNeverCapped ==
    ASSUME IInv, NEW c \in Handlers, claims[c].kind = "monthly"
    PROVE  ~Capped(c)
<1>1. Key(c).kind = "monthly" /\ Key(c).no = claims[c].no /\ Key(c) \in Keys
  BY KeyType DEF Key, IInv
<1>2. \A x \in Keys : x.kind = "monthly" /\ x.no = Key(c).no => x = Key(c)
  BY <1>1 DEF Keys
<1>3. CapRows(Key(c)) = {}
  BY <1>1, <1>2 DEF CapRows
<1> QED BY <1>1, <1>3, FS_EmptySet DEF Capped, Cap

\* A claim is refused for a cap only when a request crossed the boundary of the cap's
\* window, whatever the caps, as long as a day's lets a whole cycle through.
THEOREM CapsRefuseAcrossBoundaries == Spec => CapRefusesOnlyAcrossABoundary
<1> DEFINE Crossed(c) ==
        CASE claims[c].kind = "daily" ->
                \/ claims[c].asked < today
                \/ \E x \in Keys : /\ x.kind = "daily" /\ game[x].made = today
                                  /\ x.no <= today - claims[c].rung
          [] claims[c].kind = "weekly" ->
                \/ WeekOf(claims[c].asked) < WeekOf(today)
                \/ \E x \in Keys : /\ x.kind = "weekly" /\ WeekOf(game[x].made) = WeekOf(today)
                                  /\ x.no < WeekOf(today)
          [] OTHER -> FALSE
<1>1. IInv /\ EInv => \A c \in Handlers : CapRefuses(c) => Crossed(c)
  <2> SUFFICES ASSUME IInv, EInv, NEW c \in Handlers, CapRefuses(c) PROVE Crossed(c)
    OBVIOUS
  <2>1. claims[c].op # "lost" /\ Capped(c)
    BY DEF CapRefuses, At
  <2>2. claims[c].kind \in {"daily", "weekly", "monthly"}
    BY DEF IInv, TypeOK, Claim, Kinds
  <2>3. CASE claims[c].kind = "daily"
    BY <2>1, <2>3, DailyCapCrosses
  <2>4. CASE claims[c].kind = "weekly"
    BY <2>1, <2>4, WeeklyCapCrosses
  <2>5. CASE claims[c].kind = "monthly"
    BY <2>1, <2>5, MonthlyNeverCapped
  <2> QED BY <2>2, <2>3, <2>4, <2>5
<1>2. IInv /\ EInv => [\A c \in Handlers : CapRefuses(c) => Crossed(c)]_vars
  BY <1>1
<1> QED BY <1>2, SpecKeepsEInv, PTL DEF CapRefusesOnlyAcrossABoundary
=============================================================================
