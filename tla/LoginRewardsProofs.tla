------------------------- MODULE LoginRewardsProofs -------------------------
(***************************************************************************)
(* Theorems of LoginRewards: types, no key paid twice, a ledger that tells *)
(* the truth, and who may undo an applied row, for every history, number   *)
(* of handlers and length of streak, week and period.                      *)
(*                                                                         *)
(* A weekly key has two gates, its row and its grant, that different       *)
(* transactions of different runs write; a daily or monthly key has one.   *)
(* The invariant says how the gates hang together, and what each run under *)
(* way may rely on at the step it has reached.                             *)
(***************************************************************************)
EXTENDS LoginRewards, FiniteSetTheorems, WellFoundedInduction, TLAPS

-----------------------------------------------------------------------------
(* The calendar and the ramp                                               *)

\* The number of a day's stretch of P days is one of the days before it.
LEMMA DivType ==
    ASSUME NEW d \in Nat \ {0}, NEW P \in Nat \ {0}
    PROVE  ((d - 1) \div P) + 1 \in 1..d
  BY SMTT(20)

\* A place within P days is one of the P.
LEMMA ModType ==
    ASSUME NEW d \in Nat, NEW P \in Nat \ {0}
    PROVE  (d % P) + 1 \in 1..P
  BY SMTT(20)

\* A set of numbers has a least one.
LEMMA LeastNat ==
    ASSUME NEW T \in SUBSET Nat, T # {}
    PROVE  \E x \in T : \A y \in T : x <= y
<1>1. PICK x \in T : \A y \in T : ~ (<<y, x>> \in OpToRel(<, Nat))
  BY WFMin, NatLessThanWellFounded, Zenon
<1>2. \A y \in T : ~(y < x)
  BY <1>1 DEF OpToRel
<1> QED BY <1>2

\* The run of days before a day ends somewhere, for days start at 1.
LEMMA PrevRun ==
    ASSUME NEW H \in SUBSET Days, NEW d \in Days
    PROVE  /\ Prev(H, d) \in 0..d
           /\ \A i \in 1..Prev(H, d) : d - i \in H
           /\ d - Prev(H, d) - 1 \notin H
<1> USE RewardsAssumption DEF Days
<1> DEFINE T == {n \in 0..d : d - n - 1 \notin H}
<1>1. d - 1 \in T
  OBVIOUS
<1>2. T \in SUBSET Nat
  OBVIOUS
<1>3. PICK n \in T : \A m \in T : n <= m
  BY <1>1, <1>2, LeastNat
<1>4. \A i \in 1..n : d - i \in H
  <2> SUFFICES ASSUME NEW i \in 1..n PROVE d - i \in H
    OBVIOUS
  <2>1. i - 1 \in 0..d /\ ~(n <= i - 1)
    BY <1>3
  <2>2. i - 1 \notin T
    BY <1>3, <2>1
  <2>3. d - (i - 1) - 1 = d - i
    OBVIOUS
  <2> QED BY <2>1, <2>2, <2>3
<1>5. n \in 0..d /\ d - n - 1 \notin H
  BY <1>3
<1> QED BY <1>4, <1>5 DEF Prev

\* Its length is a day's number at most.
LEMMA PrevType ==
    ASSUME NEW H \in SUBSET Days, NEW d \in Days
    PROVE  Prev(H, d) \in 0..d
  BY PrevRun

\* The rung of a day lies on the ladder.
LEMMA TodayRungType ==
    ASSUME NEW H \in SUBSET Days, NEW d \in Days
    PROVE  TodayRung(H, d) \in 1..Cycle
<1>1. Prev(H, d) \in Nat
  BY PrevType, RewardsAssumption DEF Days
<1>2. Cycle \in Nat \ {0}
  BY RewardsAssumption
<1>3. (Prev(H, d) + 1) - 1 = Prev(H, d)
  BY <1>1
<1> QED BY <1>1, <1>2, <1>3, ModType DEF TodayRung, CycleDay

\* The number of a week is a day's at most.
LEMMA WeekType ==
    ASSUME NEW d \in Days
    PROVE  WeekOf(d) \in Days
<1>1. d \in Nat \ {0} /\ Week \in Nat \ {0} /\ d <= Horizon
  BY RewardsAssumption DEF Days
<1>2. ((d - 1) \div Week) + 1 \in 1..d
  BY <1>1, DivType
<1> QED BY <1>1, <1>2, RewardsAssumption DEF WeekOf, Days

\* The number of a period is a day's at most.
LEMMA PeriodType ==
    ASSUME NEW d \in Days
    PROVE  PeriodOf(d) \in Days
<1>1. d \in Nat \ {0} /\ Period \in Nat \ {0} /\ d <= Horizon
  BY RewardsAssumption DEF Days
<1>2. ((d - 1) \div Period) + 1 \in 1..d
  BY <1>1, DivType
<1> QED BY <1>1, <1>2, RewardsAssumption DEF PeriodOf, Days

\* No period comes before the first: nobody played then.
LEMMA ClaimKeyType ==
    ASSUME NEW H \in SUBSET Days, NEW S, NEW d \in Days, ClaimKey(H, S, d) # 0
    PROVE  ClaimKey(H, S, d) \in Days
<1> DEFINE p == PeriodOf(d)
<1>1. p \in Days
  BY PeriodType
<1>2. CASE p = 1
  <2>1. PeriodDays(0) = {x \in Int : 1 - Period <= x /\ x <= 0}
    BY RewardsAssumption DEF PeriodDays
  <2>2. H \cap PeriodDays(0) = {}
    BY <2>1, RewardsAssumption DEF Days
  <2>3. ~Unlocked(H, 0)
    BY <2>2, FS_EmptySet, RewardsAssumption DEF Unlocked
  <2>4. p - 1 = 0
    BY <1>2
  <2>5. ClaimKey(H, S, d) \in {p, 0}
    BY <2>3, <2>4 DEF ClaimKey
  <2> QED BY <1>1, <2>5
<1>3. CASE p # 1
  <2>1. p - 1 \in Days
    BY <1>1, <1>3, RewardsAssumption DEF Days
  <2>2. ClaimKey(H, S, d) \in {p, p - 1, 0}
    BY DEF ClaimKey
  <2> QED BY <1>1, <2>1, <2>2
<1> QED BY <1>2, <1>3

-----------------------------------------------------------------------------
(* The inductive invariant                                                 *)

\* A weekly key: minted once, never without a row, and applied only when minted.
\* The other keys: paid in the transaction that applies them.
Gates ==
    \A k \in Keys :
        /\ k.kind = "weekly" =>
              /\ paid[k] = IF k \in grants THEN 1 ELSE 0
              /\ k \in grants => game[k].st # "none"
              /\ game[k].st = "applied" => k \in grants
        /\ k.kind # "weekly" =>
              /\ game[k].st \in {"none", "applied"}
              /\ paid[k] = IF game[k].st = "applied" THEN 1 ELSE 0

\* What a run knows of its key at each step.
RunsKnow ==
    \A c \in Handlers :
        /\ claims[c].op \in {"reserved", "minted", "failing"} =>
              /\ claims[c].kind = "weekly" /\ claims[c].saw # "applied"
              /\ game[Key(c)].st # "none"
        /\ claims[c].op = "minted" => Key(c) \in grants
        /\ claims[c].op \in {"applied", "replay"} => paid[Key(c)] = 1

\* What a daily claim asks for lies on today's ramp, so it is worth a rung.
OnTheRamp ==
    \A c \in Handlers : claims[c].op # "lost" /\ claims[c].kind = "daily" =>
        \A n \in claims[c].left \cup {claims[c].no} :
            claims[c].asked - claims[c].rung < n /\ n <= claims[c].asked

\* What the portal shows as claimed was paid on the game host.
NotedIsPaid == \A k \in Keys : mirror[k] # 0 => paid[k] = 1

IInv == TypeOK /\ Gates /\ RunsKnow /\ OnTheRamp /\ NotedIsPaid

-----------------------------------------------------------------------------
(* How a step moves a handler, and what it leaves to the others            *)

Ops == Running \cup Answered \cup {"lost"}

\* Handler c goes on to op, with the same key unless it begins another grant, or
\* forgets what it was doing; the others stay.
Moves(c, op) ==
    /\ claims' \in [Handlers -> Claim]
    /\ \A d \in Handlers \ {c} : claims'[d] = claims[d]
    /\ \/ claims'[c].op = "lost"
       \/ /\ claims'[c].op = op
          /\ claims'[c].kind = claims[c].kind
          /\ claims'[c].asked = claims[c].asked /\ claims'[c].rung = claims[c].rung
          /\ claims'[c].no \in claims[c].left \cup {claims[c].no}
          /\ claims'[c].left \subseteq claims[c].left
          /\ claims'[c].no = claims[c].no \/ op = "sent"
          /\ claims'[c].saw = claims[c].saw \/ op \in {"sent", "reserved"}

\* Nothing that was granted, paid or reserved is forgotten.
Grows ==
    /\ grants \subseteq grants'
    /\ \A k \in Keys : /\ paid[k] = 1 => paid'[k] = 1
                       /\ game[k].st # "none" => game'[k].st # "none"

\* A claim that is not there is typed.
LEMMA NoClaimType == NoClaim \in Claim /\ NoClaim.op = "lost"
<1>1. Horizon \in Nat \ {0} /\ Cycle \in Nat \ {0}
  BY RewardsAssumption
<1>2. 1 \in Days /\ 0 \in 0..Horizon /\ 0 \in 0..Cycle
  BY <1>1 DEF Days
<1>3. "lost" \in Running \cup Answered \cup {"lost"} /\ "daily" \in Kinds
  BY DEF Kinds
<1>4. NoClaim \in Claim
  BY <1>2, <1>3 DEF NoClaim, Claim
<1>5. NoClaim.op = "lost"
  BY DEF NoClaim
<1> QED BY <1>4, <1>5

\* A claim's key is one of the rewards'.
LEMMA KeyType ==
    ASSUME TypeOK, NEW c \in Handlers
    PROVE  Key(c) \in Keys
  BY DEF TypeOK, Key, Keys, Claim, Kinds

\* A run goes on to its next step or to its answer.
LEMMA ToMoves ==
    ASSUME TypeOK, NEW c \in Handlers, NEW op \in Ops, To(c, op)
    PROVE  Moves(c, op)
<1> DEFINE new == [claims[c] EXCEPT !.op = op]
<1>1. claims[c] \in Claim
  BY DEF TypeOK
<1>2. /\ new \in Claim /\ new.op = op /\ new.kind = claims[c].kind
      /\ new.asked = claims[c].asked /\ new.rung = claims[c].rung
      /\ new.no = claims[c].no /\ new.left = claims[c].left /\ new.saw = claims[c].saw
  BY <1>1 DEF Claim, Ops
<1> HIDE DEF new
<1>3. claims' = [claims EXCEPT ![c] = IF op \in Answered /\ ~claims[c].waits THEN NoClaim ELSE new]
  BY DEF To, new
<1>4. claims \in [Handlers -> Claim]
  BY DEF TypeOK
<1>5. CASE op \in Answered /\ ~claims[c].waits
  <2>1. claims' = [claims EXCEPT ![c] = NoClaim]
    BY <1>3, <1>5
  <2> QED BY <2>1, <1>4, NoClaimType DEF Moves
<1>6. CASE ~(op \in Answered /\ ~claims[c].waits)
  <2>1. claims' = [claims EXCEPT ![c] = new]
    BY <1>3, <1>6
  <2>2. claims'[c] = new
    BY <2>1, <1>4
  <2>3. claims' \in [Handlers -> Claim] /\ \A d \in Handlers \ {c} : claims'[d] = claims[d]
    BY <2>1, <1>2, <1>4
  <2> QED BY <2>2, <2>3, <1>2 DEF Moves
<1> QED BY <1>5, <1>6

\* A claim that goes on within its ladder stays on the ramp.
LEMMA RampMoves ==
    ASSUME TypeOK, OnTheRamp, NEW c \in Handlers, NEW op \in Ops, Moves(c, op), claims[c].op # "lost"
    PROVE  OnTheRamp'
<1> SUFFICES ASSUME NEW d \in Handlers, claims'[d].op # "lost", claims'[d].kind = "daily",
                    NEW n \in claims'[d].left \cup {claims'[d].no}
             PROVE  claims'[d].asked - claims'[d].rung < n /\ n <= claims'[d].asked
  BY DEF OnTheRamp
<1>1. CASE d # c
  <2>1. claims'[d] = claims[d]
    BY <1>1 DEF Moves
  <2> QED BY <2>1 DEF OnTheRamp
<1>2. CASE d = c
  <2>1. /\ claims[c].kind = "daily" /\ n \in claims[c].left \cup {claims[c].no}
        /\ claims'[c].asked = claims[c].asked /\ claims'[c].rung = claims[c].rung
    BY <1>2 DEF Moves
  <2>2. claims[c].asked - claims[c].rung < n /\ n <= claims[c].asked
    BY <2>1 DEF OnTheRamp
  <2> QED BY <1>2, <2>1, <2>2
<1> QED BY <1>1, <1>2

\* A claim that goes on knows what its new step takes for granted.
LEMMA KnowMoves ==
    ASSUME TypeOK, RunsKnow, Grows, NEW c \in Handlers, NEW op \in Ops, Moves(c, op),
           op \in {"reserved", "minted", "failing"} =>
              claims[c].kind = "weekly" /\ claims'[c].saw # "applied" /\ game'[Key(c)].st # "none",
           op = "minted" => Key(c) \in grants',
           op \in {"applied", "replay"} => paid'[Key(c)] = 1
    PROVE  RunsKnow'
<1> SUFFICES ASSUME NEW d \in Handlers
             PROVE  /\ claims'[d].op \in {"reserved", "minted", "failing"} =>
                          /\ claims'[d].kind = "weekly" /\ claims'[d].saw # "applied"
                          /\ game'[Key(d)'].st # "none"
                    /\ claims'[d].op = "minted" => Key(d)' \in grants'
                    /\ claims'[d].op \in {"applied", "replay"} => paid'[Key(d)'] = 1
  BY DEF RunsKnow
<1>1. CASE d # c
  <2>1. claims'[d] = claims[d] /\ Key(d)' = Key(d)
    BY <1>1 DEF Moves, Key
  <2>2. Key(d) \in Keys
    BY KeyType
  <2>3. /\ claims[d].op \in {"reserved", "minted", "failing"} =>
              /\ claims[d].kind = "weekly" /\ claims[d].saw # "applied"
              /\ game[Key(d)].st # "none"
        /\ claims[d].op = "minted" => Key(d) \in grants
        /\ claims[d].op \in {"applied", "replay"} => paid[Key(d)] = 1
    BY DEF RunsKnow
  <2>4. PICK k \in Keys : k = Key(d)
    BY <2>2
  <2>5. /\ k \in grants => k \in grants'
        /\ paid[k] = 1 => paid'[k] = 1
        /\ game[k].st # "none" => game'[k].st # "none"
    BY DEF Grows
  <2> QED BY <2>1, <2>3, <2>4, <2>5
<1>2. CASE d = c
  <2>1. CASE claims'[c].op = "lost"
    BY <1>2, <2>1
  <2>2. CASE claims'[c].op # "lost"
    <3>1. /\ claims'[c].op = op /\ claims'[c].kind = claims[c].kind
          /\ claims'[c].no = claims[c].no \/ op = "sent"
      BY <2>2 DEF Moves
    <3>2. op # "sent" => Key(c)' = Key(c)
      BY <3>1 DEF Key
    <3> QED BY <1>2, <3>1, <3>2
  <2> QED BY <2>1, <2>2
<1> QED BY <1>1, <1>2

\* What is left of the invariant once a handler has moved and the ledgers' gates hold.
LEMMA MoveKeeps ==
    ASSUME IInv, NEW c \in Handlers, NEW op \in Ops, Moves(c, op),
           claims[c].op # "lost" \/ claims'[c].op = "lost",
           UNCHANGED <<today, sweep, logged, cache, asks>>,
           game' \in [Keys -> Row], grants' \subseteq Keys, paid' \in [Keys -> Nat],
           mirror' \in [Keys -> 0..Cycle],
           Gates', Grows, NotedIsPaid',
           op \in {"reserved", "minted", "failing"} =>
              claims[c].kind = "weekly" /\ claims'[c].saw # "applied" /\ game'[Key(c)].st # "none",
           op = "minted" => Key(c) \in grants',
           op \in {"applied", "replay"} => paid'[Key(c)] = 1
    PROVE  IInv'
<1>1. TypeOK /\ RunsKnow /\ OnTheRamp
  BY DEF IInv
<1>2. TypeOK'
  BY <1>1 DEF TypeOK, Moves
<1>3. RunsKnow'
  BY <1>1, KnowMoves
<1>4. OnTheRamp'
  <2>1. CASE claims[c].op # "lost"
    BY <1>1, <2>1, RampMoves
  <2>2. CASE claims'[c].op = "lost"
    <3> SUFFICES ASSUME NEW d \in Handlers, claims'[d].op # "lost", claims'[d].kind = "daily",
                        NEW n \in claims'[d].left \cup {claims'[d].no}
                 PROVE  claims'[d].asked - claims'[d].rung < n /\ n <= claims'[d].asked
      BY DEF OnTheRamp
    <3>1. claims'[d] = claims[d]
      BY <2>2 DEF Moves
    <3> QED BY <1>1, <3>1 DEF OnTheRamp
  <2> QED BY <2>1, <2>2
<1> QED BY <1>2, <1>3, <1>4 DEF IInv

\* A move that leaves the ledgers and the portal's table as they are.
LEMMA QuietMove ==
    ASSUME IInv, NEW c \in Handlers, NEW op \in Ops, Moves(c, op),
           claims[c].op # "lost" \/ claims'[c].op = "lost",
           UNCHANGED <<today, sweep, logged, cache, game, grants, paid, mirror, asks>>,
           op \in {"reserved", "minted", "failing"} =>
              claims[c].kind = "weekly" /\ claims'[c].saw # "applied" /\ game[Key(c)].st # "none",
           op = "minted" => Key(c) \in grants,
           op \in {"applied", "replay"} => paid[Key(c)] = 1
    PROVE  IInv'
<1>1. TypeOK /\ Gates /\ NotedIsPaid
  BY DEF IInv
<1>2. /\ game' \in [Keys -> Row] /\ grants' \subseteq Keys /\ paid' \in [Keys -> Nat]
      /\ mirror' \in [Keys -> 0..Cycle]
  BY <1>1 DEF TypeOK
<1>3. Gates' /\ NotedIsPaid'
  BY <1>1 DEF Gates, NotedIsPaid
<1>4. Grows
  BY DEF Grows
<1> QED BY <1>2, <1>3, <1>4, MoveKeeps

\* The oldest of some days is one of them.
LEMMA OldestType ==
    ASSUME NEW S \in SUBSET Days, S # {}
    PROVE  Oldest(S) \in S
<1>1. S \in SUBSET Nat
  BY RewardsAssumption DEF Days
<1> QED BY <1>1, LeastNat DEF Oldest

\* A day on the ramp is worth one of its rungs.
LEMMA WorthType ==
    ASSUME IInv, NEW c \in Handlers, claims[c].op # "lost"
    PROVE  Worth(c) \in 0..Cycle
<1>1. claims[c] \in Claim /\ OnTheRamp
  BY DEF IInv, TypeOK
<1>2. /\ claims[c].no \in Nat /\ claims[c].asked \in Nat
      /\ claims[c].rung \in Nat /\ claims[c].rung <= Cycle /\ Cycle \in Nat \ {0}
  BY <1>1, RewardsAssumption DEF Claim, Days
<1>3. CASE claims[c].kind = "daily"
  <2>1. claims[c].asked - claims[c].rung < claims[c].no /\ claims[c].no <= claims[c].asked
    BY <1>1, <1>3 DEF OnTheRamp
  <2> QED BY <1>2, <1>3, <2>1 DEF Worth
<1>4. CASE claims[c].kind # "daily"
  BY <1>2, <1>4 DEF Worth
<1> QED BY <1>3, <1>4

-----------------------------------------------------------------------------
(* Time, the recorder, and a claim that begins                             *)

\* The invariant holds at the start.
LEMMA InitIInv == Init => IInv
<1> SUFFICES ASSUME Init PROVE IInv
  OBVIOUS
<1>1. Launch \in Nat \ {0} /\ Horizon \in Nat \ {0} /\ Launch <= Horizon
      /\ Cycle \in Nat \ {0} /\ MaxClaims \in Nat \ {0}
  BY RewardsAssumption
<1>2. today \in Days /\ sweep \in 0..Horizon /\ logged \subseteq Days /\ asks \in 0..MaxClaims
  BY <1>1 DEF Init, Days
<1>3. cache \in Cached
  BY <1>1 DEF Init, Empty, Cached
<1>4. NoRow \in Row
  BY <1>1 DEF NoRow, Row
<1>5. game \in [Keys -> Row] /\ \A k \in Keys : game[k].st = "none"
  BY <1>4 DEF Init, NoRow
<1>6. /\ grants = {} /\ paid \in [Keys -> Nat] /\ mirror \in [Keys -> 0..Cycle]
      /\ \A k \in Keys : paid[k] = 0 /\ mirror[k] = 0
  BY <1>1 DEF Init
<1>7. claims \in [Handlers -> Claim] /\ \A c \in Handlers : claims[c].op = "lost"
  BY NoClaimType DEF Init
<1>8. TypeOK
  BY <1>2, <1>3, <1>5, <1>6, <1>7 DEF TypeOK
<1>9. Gates /\ NotedIsPaid
  BY <1>5, <1>6 DEF Gates, NotedIsPaid
<1>10. RunsKnow /\ OnTheRamp
  BY <1>7 DEF RunsKnow, OnTheRamp
<1> QED BY <1>8, <1>9, <1>10 DEF IInv

\* Time, the recorder and the cache touch neither a claim nor a ledger.
LEMMA CalendarStep ==
    ASSUME IInv, Midnight \/ SweepReads \/ SweepInserts \/ FillCache
    PROVE  IInv'
<1>1. TypeOK
  BY DEF IInv
<1>2. UNCHANGED <<game, grants, paid, mirror, claims, asks>>
  BY DEF Midnight, SweepReads, SweepInserts, FillCache
<1>3. Horizon \in Nat \ {0}
  BY RewardsAssumption
<1>4. today \in Days /\ today \in 0..Horizon /\ sweep \in 0..Horizon /\ logged \subseteq Days
  BY <1>1, <1>3 DEF TypeOK, Days
<1>5. /\ game' \in [Keys -> Row] /\ grants' \subseteq Keys /\ paid' \in [Keys -> Nat]
      /\ mirror' \in [Keys -> 0..Cycle] /\ claims' \in [Handlers -> Claim]
      /\ asks' \in 0..MaxClaims
  BY <1>1, <1>2 DEF TypeOK
<1>6. today' \in Days /\ sweep' \in 0..Horizon /\ logged' \subseteq Days
  <2>1. CASE Midnight
    <3>1. today' = today + 1 /\ today < Horizon /\ UNCHANGED <<sweep, logged>>
      BY <2>1 DEF Midnight
    <3> QED BY <1>3, <1>4, <3>1 DEF Days
  <2>2. CASE SweepReads
    BY <1>4, <2>2 DEF SweepReads
  <2>3. CASE SweepInserts
    <3>1. /\ sweep # 0 /\ logged' = logged \cup {sweep} /\ sweep' = 0 /\ today' = today
      BY <2>3 DEF SweepInserts
    <3>2. sweep \in Days
      BY <1>3, <1>4, <3>1 DEF Days
    <3> QED BY <1>3, <1>4, <3>1, <3>2
  <2>4. CASE FillCache
    BY <1>4, <2>4 DEF FillCache
  <2> QED BY <2>1, <2>2, <2>3, <2>4
<1>7. cache' \in Cached
  <2>1. Empty \in Cached /\ cache \in Cached
    BY <1>1, <1>3 DEF Empty, Cached, TypeOK
  <2>2. Served \in SUBSET Days
    BY <1>4 DEF Served
  <2>3. [at |-> today, days |-> Served] \in Cached
    BY <1>4, <2>2 DEF Cached
  <2>4. cache' \in {Empty, cache, [at |-> today, days |-> Served]}
    BY DEF Midnight, SweepReads, SweepInserts, FillCache
  <2> QED BY <2>1, <2>3, <2>4
<1>8. TypeOK'
  BY <1>5, <1>6, <1>7 DEF TypeOK
<1>9. Gates' /\ RunsKnow' /\ OnTheRamp' /\ NotedIsPaid'
  <2>1. \A c \in Handlers : Key(c)' = Key(c)
    BY <1>2 DEF Key
  <2> QED BY <1>2, <2>1 DEF IInv, Gates, RunsKnow, OnTheRamp, NotedIsPaid
<1> QED BY <1>8, <1>9 DEF IInv

\* Asking keeps the invariant.
LEMMA AskStep ==
    ASSUME IInv, NEW c \in Handlers, NEW kind \in Kinds, NEW nos \in SUBSET Days, nos # {},
           NEW rung \in 0..Cycle,
           kind = "daily" => \A n \in nos : today - rung < n /\ n <= today,
           Ask(c, kind, nos, rung)
    PROVE  IInv'
<1> DEFINE new == [waits |-> TRUE, op |-> "sent", kind |-> kind, asked |-> today,
                   rung |-> rung, no |-> Oldest(nos), left |-> nos \ {Oldest(nos)},
                   saw |-> "none"]
<1>1. TypeOK
  BY DEF IInv
<1>2. Oldest(nos) \in nos
  BY OldestType
<1>3. today \in 0..Horizon
  BY <1>1, RewardsAssumption DEF TypeOK, Days
<1>4. new \in Claim
  BY <1>2, <1>3 DEF Claim, Running
<1>5. /\ new.op = "sent" /\ new.kind = kind /\ new.asked = today /\ new.rung = rung
      /\ new.left \cup {new.no} \subseteq nos
  BY <1>2
<1>6. claims' = [claims EXCEPT ![c] = new] /\ asks < MaxClaims /\ asks' = asks + 1
      /\ UNCHANGED <<today, sweep, logged, cache, game, grants, paid, mirror>>
  BY DEF Ask
<1> HIDE DEF new
<1>7. claims' \in [Handlers -> Claim] /\ claims'[c] = new
      /\ \A d \in Handlers \ {c} : claims'[d] = claims[d]
  BY <1>1, <1>4, <1>6 DEF TypeOK
<1>8. asks' \in 0..MaxClaims
  BY <1>1, <1>6, RewardsAssumption DEF TypeOK
<1>9. TypeOK'
  BY <1>1, <1>6, <1>7, <1>8 DEF TypeOK
<1>10. Gates' /\ NotedIsPaid'
  BY <1>6 DEF IInv, Gates, NotedIsPaid
<1>11. RunsKnow'
  <2>1. \A d \in Handlers \ {c} : Key(d)' = Key(d)
    BY <1>7 DEF Key
  <2> QED BY <1>5, <1>6, <1>7, <2>1 DEF IInv, RunsKnow
<1>12. OnTheRamp'
  BY <1>5, <1>7 DEF IInv, OnTheRamp
<1> QED BY <1>9, <1>10, <1>11, <1>12 DEF IInv

\* So does opening any of the three claims.
LEMMA ClaimStep ==
    ASSUME IInv, NEW c \in Handlers, ClaimDaily(c) \/ ClaimWeekly(c) \/ ClaimMonthly(c)
    PROVE  IInv'
<1>1. today \in Days /\ cache.days \in SUBSET Days /\ 0 \in 0..Cycle
  BY RewardsAssumption DEF IInv, TypeOK, Cached
<1>2. CASE ClaimDaily(c)
  <2> DEFINE pool == ClaimPool(cache.days, ClaimedKeys("daily"), today)
             rung == TodayRung(cache.days, today)
  <2>1. rung \in 0..Cycle
    BY <1>1, TodayRungType, RewardsAssumption
  <2>2. pool \in SUBSET Days /\ \A n \in pool : today - rung < n /\ n <= today
    BY <1>1 DEF ClaimPool
  <2>3. pool # {} /\ Ask(c, "daily", pool, rung)
    BY <1>2 DEF ClaimDaily
  <2> HIDE DEF pool, rung
  <2>4. "daily" \in Kinds
    BY DEF Kinds
  <2> QED BY <2>1, <2>2, <2>3, <2>4, AskStep
<1>3. CASE ClaimWeekly(c)
  <2>1. {WeekOf(today)} \in SUBSET Days
    BY <1>1, WeekType
  <2>2. Ask(c, "weekly", {WeekOf(today)}, 0) /\ "weekly" \in Kinds
    BY <1>3 DEF ClaimWeekly, Kinds
  <2> QED BY <1>1, <2>1, <2>2, AskStep
<1>4. CASE ClaimMonthly(c)
  <2> DEFINE p == ClaimKey(cache.days, ClaimedKeys("monthly"), today)
  <2>1. p # 0 /\ Ask(c, "monthly", {p}, 0) /\ "monthly" \in Kinds
    BY <1>4 DEF ClaimMonthly, Kinds
  <2>2. {p} \in SUBSET Days
    BY <1>1, <2>1, ClaimKeyType
  <2> HIDE DEF p
  <2> QED BY <1>1, <2>1, <2>2, AskStep
<1> QED BY <1>2, <1>3, <1>4

-----------------------------------------------------------------------------
(* The writer's runs                                                       *)

\* Answers without a transaction: the key has its row, a cap, or something said no.
LEMMA AnswerStep ==
    ASSUME IInv, NEW c \in Handlers, Replays(c) \/ CapRefuses(c) \/ Refuses(c)
    PROVE  IInv'
<1>1. TypeOK /\ Key(c) \in Keys
  BY KeyType DEF IInv
<1>2. /\ claims[c].op = "sent"
      /\ UNCHANGED <<today, sweep, logged, cache, game, grants, paid, mirror, asks>>
  BY DEF Replays, CapRefuses, Refuses, At
<1>3. CASE Replays(c)
  <2>1. To(c, "replay") /\ "replay" \in Ops
    BY <1>3 DEF Replays, Ops, Answered
  <2>2. IF claims[c].kind = "weekly" THEN game[Key(c)].st = "applied" ELSE game[Key(c)].st # "none"
    BY <1>3 DEF Replays, New
  <2>3. Key(c).kind = claims[c].kind
    BY DEF Key
  <2>4. paid[Key(c)] = 1
    BY <1>1, <2>2, <2>3 DEF IInv, Gates
  <2> QED BY <1>1, <1>2, <2>1, <2>4, ToMoves, QuietMove
<1>4. CASE CapRefuses(c)
  <2>1. To(c, "capped") /\ "capped" \in Ops
    BY <1>4 DEF CapRefuses, Ops, Answered
  <2> QED BY <1>1, <1>2, <2>1, ToMoves, QuietMove
<1>5. CASE Refuses(c)
  <2>1. To(c, "refused") /\ "refused" \in Ops
    BY <1>5 DEF Refuses, Ops, Answered
  <2> QED BY <1>1, <1>2, <2>1, ToMoves, QuietMove
<1> QED BY <1>3, <1>4, <1>5

\* The one transaction of a daily or monthly grant.
LEMMA PaysStep ==
    ASSUME IInv, NEW c \in Handlers, Pays(c)
    PROVE  IInv'
<1> DEFINE k == Key(c)
           row == [st |-> "applied", made |-> today, amt |-> Worth(c)]
<1>1. TypeOK /\ k \in Keys /\ k.kind # "weekly"
  BY KeyType DEF IInv, Pays, Key
<1>2. claims[c].op = "sent" /\ game[k].st = "none" /\ To(c, "applied") /\ "applied" \in Ops
  BY DEF Pays, At, New, Ops, Answered
<1>3. today \in 0..Horizon /\ Worth(c) \in 0..Cycle
  BY <1>1, <1>2, WorthType, RewardsAssumption DEF TypeOK, Days
<1>4. row \in Row /\ row.st = "applied"
  BY <1>3 DEF Row
<1>5. /\ game' = [game EXCEPT ![k] = row] /\ paid' = [paid EXCEPT ![k] = @ + 1]
      /\ UNCHANGED <<today, sweep, logged, cache, grants, mirror, asks>>
  BY DEF Pays
<1> HIDE DEF k, row
<1>6. game \in [Keys -> Row] /\ paid \in [Keys -> Nat]
  BY <1>1 DEF TypeOK
<1>7. /\ game' \in [Keys -> Row] /\ game'[k] = row
      /\ \A x \in Keys \ {k} : game'[x] = game[x]
  BY <1>1, <1>4, <1>5, <1>6
<1>8. /\ paid' \in [Keys -> Nat] /\ paid'[k] = paid[k] + 1
      /\ \A x \in Keys \ {k} : paid'[x] = paid[x]
  BY <1>1, <1>5, <1>6
<1>9. paid[k] = 0 /\ paid'[k] = 1
  BY <1>1, <1>2, <1>8 DEF IInv, Gates
<1>10. Gates'
  <2> SUFFICES ASSUME NEW x \in Keys
               PROVE  /\ x.kind = "weekly" =>
                            /\ paid'[x] = IF x \in grants' THEN 1 ELSE 0
                            /\ x \in grants' => game'[x].st # "none"
                            /\ game'[x].st = "applied" => x \in grants'
                      /\ x.kind # "weekly" =>
                            /\ game'[x].st \in {"none", "applied"}
                            /\ paid'[x] = IF game'[x].st = "applied" THEN 1 ELSE 0
    BY DEF Gates
  <2>1. CASE x = k
    BY <1>1, <1>4, <1>7, <1>9, <2>1
  <2>2. CASE x # k
    BY <1>5, <1>7, <1>8, <2>2 DEF IInv, Gates
  <2> QED BY <2>1, <2>2
<1>11. Grows
  BY <1>4, <1>5, <1>7, <1>8, <1>9 DEF Grows
<1>12. NotedIsPaid'
  BY <1>5, <1>11 DEF IInv, NotedIsPaid, Grows
<1>13. Moves(c, "applied")
  BY <1>1, <1>2, ToMoves
<1>14. grants' \subseteq Keys /\ mirror' \in [Keys -> 0..Cycle]
  BY <1>1, <1>5 DEF TypeOK
<1>15. paid'[Key(c)] = 1
  BY <1>9 DEF k
<1> QED BY <1>2, <1>5, <1>7, <1>8, <1>10, <1>11, <1>12, <1>13, <1>14, <1>15, MoveKeeps

\* A weekly row that changes between two other statuses than none moves no gate,
\* if it is applied only once it was granted.
LEMMA RowStep ==
    ASSUME IInv, NEW c \in Handlers, NEW op \in Ops, Moves(c, op), claims[c].op # "lost",
           claims[c].kind = "weekly", NEW row \in Row,
           game' = [game EXCEPT ![Key(c)] = row],
           row.st # "none", row.st = "applied" => Key(c) \in grants,
           UNCHANGED <<today, sweep, logged, cache, grants, paid, mirror, asks>>,
           op \in {"reserved", "minted", "failing"} => claims'[c].saw # "applied",
           op = "minted" => Key(c) \in grants,
           op \in {"applied", "replay"} => paid[Key(c)] = 1
    PROVE  IInv'
<1> DEFINE k == Key(c)
<1>1. TypeOK /\ k \in Keys /\ k.kind = "weekly"
  BY KeyType DEF IInv, Key
<1> HIDE DEF k
<1>2. /\ game' \in [Keys -> Row] /\ game'[k] = row
      /\ \A x \in Keys \ {k} : game'[x] = game[x]
  BY <1>1 DEF TypeOK, k
<1>3. Gates'
  <2> SUFFICES ASSUME NEW x \in Keys
               PROVE  /\ x.kind = "weekly" =>
                            /\ paid'[x] = IF x \in grants' THEN 1 ELSE 0
                            /\ x \in grants' => game'[x].st # "none"
                            /\ game'[x].st = "applied" => x \in grants'
                      /\ x.kind # "weekly" =>
                            /\ game'[x].st \in {"none", "applied"}
                            /\ paid'[x] = IF game'[x].st = "applied" THEN 1 ELSE 0
    BY DEF Gates
  <2>1. CASE x = k
    <3>1. paid[k] = IF k \in grants THEN 1 ELSE 0
      BY <1>1 DEF IInv, Gates
    <3>2. row.st = "applied" => k \in grants
      BY DEF k
    <3> QED BY <1>1, <1>2, <2>1, <3>1, <3>2
  <2>2. CASE x # k
    BY <1>2, <2>2 DEF IInv, Gates
  <2> QED BY <2>1, <2>2
<1>4. Grows
  BY <1>2 DEF Grows
<1>5. NotedIsPaid'
  BY DEF IInv, NotedIsPaid
<1>6. /\ grants' \subseteq Keys /\ paid' \in [Keys -> Nat]
      /\ mirror' \in [Keys -> 0..Cycle]
  BY <1>1 DEF TypeOK
<1>7. game'[Key(c)].st # "none"
  BY <1>2 DEF k
<1> QED BY <1>2, <1>3, <1>4, <1>5, <1>6, <1>7, MoveKeeps

\* The first of the weekly grant's three transactions.
LEMMA ReservesStep ==
    ASSUME IInv, NEW c \in Handlers, Reserves(c)
    PROVE  IInv'
<1> DEFINE k == Key(c)
           new == [claims[c] EXCEPT !.op = "reserved", !.saw = game[k].st]
           row == [st |-> "pending", made |-> today, amt |-> 1]
<1>1. TypeOK /\ k \in Keys /\ claims[c] \in Claim /\ game[k] \in Row
  <2>1. TypeOK /\ k \in Keys
    BY KeyType DEF IInv
  <2> QED BY <2>1 DEF TypeOK
<1>2. /\ claims[c].op = "sent" /\ claims[c].kind = "weekly"
      /\ claims' = [claims EXCEPT ![c] = new]
      /\ UNCHANGED <<today, sweep, logged, cache, grants, paid, mirror, asks>>
  BY DEF Reserves, At
<1>3. game[k].st \in {"none", "pending", "applied", "failed"}
  BY <1>1 DEF Row
<1>4. /\ new \in Claim /\ new.op = "reserved" /\ new.saw = game[k].st
      /\ new.kind = claims[c].kind /\ new.asked = claims[c].asked
      /\ new.rung = claims[c].rung /\ new.no = claims[c].no /\ new.left = claims[c].left
  <2> HIDE DEF k
  <2> QED BY <1>1, <1>3 DEF Claim, Running
<1>5. "reserved" \in Ops
  BY DEF Ops, Running
<1> HIDE DEF new
<1>6. claims'[c] = new
  BY <1>1, <1>2 DEF TypeOK
<1>7. Moves(c, "reserved")
  <2>1. claims' \in [Handlers -> Claim] /\ \A d \in Handlers \ {c} : claims'[d] = claims[d]
    BY <1>1, <1>2, <1>4 DEF TypeOK
  <2> QED BY <1>4, <1>6, <2>1 DEF Moves
<1>8. CASE game[k].st = "none"
  <2>1. game' = [game EXCEPT ![Key(c)] = row]
    BY <1>8 DEF Reserves, New
  <2>2. today \in 0..Horizon /\ 1 \in 0..Cycle
    BY <1>1, RewardsAssumption DEF TypeOK, Days
  <2>3. row \in Row /\ row.st = "pending"
    BY <2>2 DEF Row
  <2>4. claims'[c].saw # "applied"
    BY <1>4, <1>6, <1>8
  <2> HIDE DEF row
  <2> QED BY <1>2, <1>5, <1>7, <2>1, <2>3, <2>4, RowStep
<1>9. CASE game[k].st # "none"
  <2>1. game' = game /\ game[k].st # "applied"
    BY <1>9 DEF Reserves, New
  <2>2. claims'[c].saw # "applied"
    BY <1>4, <1>6, <2>1
  <2> QED BY <1>2, <1>5, <1>7, <1>9, <2>1, <2>2, QuietMove
<1> QED BY <1>8, <1>9

\* The second: the grant's own gate.
LEMMA MintsStep ==
    ASSUME IInv, NEW c \in Handlers, Mints(c)
    PROVE  IInv'
<1> DEFINE k == Key(c)
<1>1. TypeOK /\ k \in Keys
  BY KeyType DEF IInv
<1>2. /\ claims[c].op = "reserved"
      /\ grants' = grants \cup {k}
      /\ paid' = [paid EXCEPT ![k] = @ + IF k \in grants THEN 0 ELSE 1]
      /\ UNCHANGED <<today, sweep, logged, cache, game, mirror, asks>>
  BY DEF Mints, At
<1>3. PICK op \in {"minted", "failing"} : To(c, op)
  BY DEF Mints
<1>4. claims[c].kind = "weekly" /\ claims[c].saw # "applied" /\ game[k].st # "none"
  BY <1>2 DEF IInv, RunsKnow
<1>5. k.kind = "weekly"
  BY <1>4 DEF Key
<1>6. op \in Ops /\ op \notin Answered
  BY <1>3 DEF Ops, Running, Answered
<1>7. Moves(c, op)
  BY <1>1, <1>3, <1>6, ToMoves
<1>8. claims'[c].saw = claims[c].saw
  <2>1. claims' = [claims EXCEPT ![c] = [claims[c] EXCEPT !.op = op]]
    BY <1>3, <1>6 DEF To
  <2>2. claims[c] \in Claim /\ claims'[c] = [claims[c] EXCEPT !.op = op]
    BY <1>1, <2>1 DEF TypeOK
  <2> QED BY <2>2 DEF Claim
<1>9. paid[k] = IF k \in grants THEN 1 ELSE 0
  BY <1>1, <1>5 DEF IInv, Gates
<1> HIDE DEF k
<1>10. /\ paid' \in [Keys -> Nat] /\ paid'[k] = 1
       /\ \A x \in Keys \ {k} : paid'[x] = paid[x]
  BY <1>1, <1>2, <1>9 DEF TypeOK
<1>11. Gates'
  <2> SUFFICES ASSUME NEW x \in Keys
               PROVE  /\ x.kind = "weekly" =>
                            /\ paid'[x] = IF x \in grants' THEN 1 ELSE 0
                            /\ x \in grants' => game'[x].st # "none"
                            /\ game'[x].st = "applied" => x \in grants'
                      /\ x.kind # "weekly" =>
                            /\ game'[x].st \in {"none", "applied"}
                            /\ paid'[x] = IF game'[x].st = "applied" THEN 1 ELSE 0
    BY DEF Gates
  <2>1. CASE x = k
    BY <1>2, <1>4, <1>5, <1>10, <2>1
  <2>2. CASE x # k
    BY <1>2, <1>10, <2>2 DEF IInv, Gates
  <2> QED BY <2>1, <2>2
<1>12. Grows
  BY <1>2, <1>10 DEF Grows
<1>13. NotedIsPaid'
  BY <1>2, <1>12 DEF IInv, NotedIsPaid, Grows
<1>14. /\ game' \in [Keys -> Row] /\ grants' \subseteq Keys /\ mirror' \in [Keys -> 0..Cycle]
  BY <1>1, <1>2 DEF TypeOK
<1>15. /\ game'[Key(c)].st # "none" /\ Key(c) \in grants'
       /\ claims'[c].saw # "applied"
  BY <1>2, <1>4, <1>8 DEF k
<1> QED
  BY <1>2, <1>3, <1>4, <1>6, <1>7, <1>10, <1>11, <1>12, <1>13, <1>14, <1>15, MoveKeeps

\* So does a mint that fails.
LEMMA MintFailsStep ==
    ASSUME IInv, NEW c \in Handlers, MintFails(c)
    PROVE  IInv'
<1>1. TypeOK
  BY DEF IInv
<1>2. /\ claims[c].op = "reserved" /\ To(c, "failing")
      /\ UNCHANGED <<today, sweep, logged, cache, game, grants, paid, mirror, asks>>
  BY DEF MintFails, At
<1>3. claims[c].kind = "weekly" /\ claims[c].saw # "applied" /\ game[Key(c)].st # "none"
  BY <1>2 DEF IInv, RunsKnow
<1>4. "failing" \in Ops /\ "failing" \notin Answered
  BY DEF Ops, Running, Answered
<1>5. Moves(c, "failing")
  BY <1>1, <1>2, <1>4, ToMoves
<1>6. claims'[c].saw = claims[c].saw
  <2>1. claims' = [claims EXCEPT ![c] = [claims[c] EXCEPT !.op = "failing"]]
    BY <1>2, <1>4 DEF To
  <2>2. claims[c] \in Claim /\ claims'[c] = [claims[c] EXCEPT !.op = "failing"]
    BY <1>1, <2>1 DEF TypeOK
  <2> QED BY <2>2 DEF Claim
<1> QED BY <1>2, <1>3, <1>4, <1>5, <1>6, QuietMove

\* The third, or the best effort of a run whose grant failed.
LEMMA FlipsOrFails ==
    ASSUME IInv, NEW c \in Handlers, Flips(c) \/ MarksFailed(c)
    PROVE  IInv'
<1>1. TypeOK /\ Key(c) \in Keys
  BY KeyType DEF IInv
<1>2. /\ claims[c].op \in {"minted", "failing"}
      /\ UNCHANGED <<today, sweep, logged, cache, grants, paid, mirror, asks>>
  BY DEF Flips, MarksFailed, At
<1>3. claims[c].kind = "weekly" /\ game[Key(c)].st # "none"
  BY <1>2 DEF IInv, RunsKnow
<1>4. {"applied", "refused"} \subseteq Ops
  BY DEF Ops, Answered
<1>5. game[Key(c)] \in Row
  BY <1>1 DEF TypeOK
<1>6. CASE To(c, "applied") /\ Flips(c)
  <2> DEFINE row == [game[Key(c)] EXCEPT !.st = "applied"]
  <2>2. Key(c) \in grants
    BY <1>6 DEF Flips, At, IInv, RunsKnow
  <2>3. paid[Key(c)] = 1
    <3>1. Key(c).kind = "weekly"
      BY <1>3 DEF Key
    <3> QED BY <1>1, <2>2, <3>1 DEF IInv, Gates
  <2>4. row \in Row /\ row.st = "applied"
    BY <1>5 DEF Row
  <2>5. Moves(c, "applied")
    BY <1>1, <1>4, <1>6, ToMoves
  <2>6. CASE game' = [game EXCEPT ![Key(c)] = row]
    <3> HIDE DEF row
    <3> QED BY <1>2, <1>3, <1>4, <2>2, <2>3, <2>4, <2>5, <2>6, RowStep
  <2>7. CASE game' = game
    BY <1>2, <1>4, <2>3, <2>5, <2>7, QuietMove
  <2>8. game' = [game EXCEPT ![Key(c)] = row] \/ game' = game
    BY <1>6 DEF Flips
  <2> QED BY <2>6, <2>7, <2>8
<1>7. CASE To(c, "refused") /\ game' = game
  <2>1. Moves(c, "refused")
    BY <1>1, <1>4, <1>7, ToMoves
  <2> QED BY <1>2, <1>4, <1>7, <2>1, QuietMove
<1>8. CASE MarksFailed(c) /\ game' # game
  <2> DEFINE row == [game[Key(c)] EXCEPT !.st = "failed"]
  <2>1. game' = [game EXCEPT ![Key(c)] = row] /\ To(c, "refused")
    BY <1>8 DEF MarksFailed
  <2>2. row \in Row /\ row.st = "failed"
    BY <1>5 DEF Row
  <2>3. Moves(c, "refused")
    BY <1>1, <1>4, <2>1, ToMoves
  <2> HIDE DEF row
  <2> QED BY <1>2, <1>3, <1>4, <2>1, <2>2, <2>3, RowStep
<1>9. \/ To(c, "applied") /\ Flips(c)
      \/ To(c, "refused") /\ game' = game
      \/ MarksFailed(c) /\ game' # game
  BY DEF Flips, MarksFailed
<1> QED BY <1>6, <1>7, <1>8, <1>9

\* So does a run that dies.
LEMMA OpDiesStep ==
    ASSUME IInv, NEW c \in Handlers, OpDies(c)
    PROVE  IInv'
<1> DEFINE new == [claims[c] EXCEPT !.op = "lost"]
<1>1. claims[c] \in Claim /\ claims \in [Handlers -> Claim]
  BY DEF IInv, TypeOK
<1>2. new \in Claim /\ new.op = "lost"
  BY <1>1 DEF Claim
<1> HIDE DEF new
<1>3. PICK r \in {new, NoClaim} : claims' = [claims EXCEPT ![c] = r]
  BY DEF OpDies, new
<1>4. claims' \in [Handlers -> Claim] /\ claims'[c].op = "lost"
  BY <1>1, <1>2, <1>3, NoClaimType
<1>5. Moves(c, "lost") /\ "lost" \in Ops
  BY <1>1, <1>3, <1>4 DEF Moves, Ops
<1>6. UNCHANGED <<today, sweep, logged, cache, game, grants, paid, mirror, asks>>
  BY DEF OpDies
<1> QED BY <1>4, <1>5, <1>6, QuietMove

-----------------------------------------------------------------------------
(* The handler's side of a run                                             *)

\* An answered claim goes on with the oldest day that is left, or ends.
LEMMA GrantedMoves ==
    ASSUME TypeOK, NEW c \in Handlers, Granted(c)
    PROVE  Moves(c, "sent")
<1> DEFINE left == claims[c].left
           next == Oldest(left)
           new == [claims[c] EXCEPT !.op = "sent", !.no = next, !.left = left \ {next},
                                    !.saw = "none"]
<1>1. claims[c] \in Claim /\ claims \in [Handlers -> Claim]
  BY DEF TypeOK
<1>2. claims' = [claims EXCEPT ![c] = IF left = {} THEN NoClaim ELSE new]
  BY DEF Granted
<1>3. CASE left = {}
  <2>1. claims' = [claims EXCEPT ![c] = NoClaim]
    BY <1>2, <1>3
  <2> QED BY <1>1, <2>1, NoClaimType DEF Moves
<1>4. CASE left # {}
  <2>1. left \in SUBSET Days
    BY <1>1 DEF Claim
  <2>2. next \in left
    BY <1>4, <2>1, OldestType
  <2>3. claims' = [claims EXCEPT ![c] = new]
    BY <1>2, <1>4
  <2> HIDE DEF next
  <2>4. /\ new \in Claim /\ new.op = "sent" /\ new.no = next /\ new.left \subseteq left
        /\ new.kind = claims[c].kind /\ new.asked = claims[c].asked
        /\ new.rung = claims[c].rung
    BY <1>1, <2>1, <2>2 DEF Claim, Running
  <2> HIDE DEF new
  <2>5. /\ claims' \in [Handlers -> Claim] /\ claims'[c] = new
        /\ \A d \in Handlers \ {c} : claims'[d] = claims[d]
    BY <1>1, <2>3, <2>4
  <2> QED BY <2>2, <2>4, <2>5 DEF Moves
<1> QED BY <1>3, <1>4

\* A grant that landed is noted, and the next key is asked for.
LEMMA GrantedStep ==
    ASSUME IInv, NEW c \in Handlers, Granted(c)
    PROVE  IInv'
<1> DEFINE k == Key(c)
<1>1. TypeOK /\ k \in Keys /\ claims[c] \in Claim
  <2>1. TypeOK /\ k \in Keys
    BY KeyType DEF IInv
  <2> QED BY <2>1 DEF TypeOK
<1>2. /\ claims[c].op \in {"applied", "replay"}
      /\ UNCHANGED <<today, sweep, logged, cache, game, grants, paid, asks>>
      /\ mirror' = [mirror EXCEPT ![k] = IF @ = 0 THEN Worth(c) ELSE @] \/ mirror' = mirror
  BY DEF Granted
<1>3. paid[k] = 1
  BY <1>2 DEF IInv, RunsKnow
<1>4. Worth(c) \in 0..Cycle
  BY <1>2, WorthType
<1>5. mirror' \in [Keys -> 0..Cycle] /\ \A x \in Keys \ {k} : mirror'[x] = mirror[x]
  <2> HIDE DEF k
  <2> QED BY <1>1, <1>2, <1>4 DEF TypeOK
<1>6. NotedIsPaid'
  <2> SUFFICES ASSUME NEW x \in Keys, mirror'[x] # 0 PROVE paid'[x] = 1
    BY DEF NotedIsPaid
  <2> HIDE DEF k
  <2>1. CASE x = k
    BY <1>2, <1>3, <2>1
  <2>2. CASE x # k
    BY <1>2, <1>5, <2>2 DEF IInv, NotedIsPaid
  <2> QED BY <2>1, <2>2
<1>7. Moves(c, "sent")
  BY <1>1, GrantedMoves
<1>8. Gates'
  BY <1>2 DEF IInv, Gates
<1>9. Grows
  BY <1>2 DEF Grows
<1>10. game' \in [Keys -> Row] /\ grants' \subseteq Keys /\ paid' \in [Keys -> Nat]
  BY <1>1, <1>2 DEF TypeOK
<1>11. "sent" \in Ops
  BY DEF Ops, Running
<1> QED BY <1>2, <1>5, <1>6, <1>7, <1>8, <1>9, <1>10, <1>11, MoveKeeps

\* The handler gives up; its writer's run keeps its step.
LEMMA StopsStep ==
    ASSUME IInv, NEW c \in Handlers, Stops(c)
    PROVE  IInv'
<1> DEFINE new == [claims[c] EXCEPT !.waits = FALSE, !.left = {}]
<1>1. TypeOK /\ claims[c] \in Claim /\ claims \in [Handlers -> Claim]
  BY DEF IInv, TypeOK
<1>2. UNCHANGED <<today, sweep, logged, cache, game, grants, paid, mirror, asks>>
  BY DEF Stops
<1>3. CASE claims[c].op \in Running
  <2>1. claims' = [claims EXCEPT ![c] = new]
    BY <1>3 DEF Stops
  <2>2. /\ new \in Claim /\ new.op = claims[c].op /\ new.kind = claims[c].kind
        /\ new.asked = claims[c].asked /\ new.rung = claims[c].rung
        /\ new.no = claims[c].no /\ new.left = {} /\ new.saw = claims[c].saw
    BY <1>1 DEF Claim
  <2> HIDE DEF new
  <2>3. /\ claims' \in [Handlers -> Claim] /\ claims'[c] = new
        /\ \A d \in Handlers \ {c} : claims'[d] = claims[d]
    BY <1>1, <2>1, <2>2
  <2>4. Moves(c, claims[c].op)
    BY <2>2, <2>3 DEF Moves
  <2>5. claims[c].op \in Ops /\ claims[c].op # "lost" /\ claims[c].op \notin {"applied", "replay"}
    BY <1>3 DEF Ops, Running
  <2>6. claims[c].op \in {"reserved", "minted", "failing"} =>
           claims[c].kind = "weekly" /\ claims'[c].saw # "applied" /\ game[Key(c)].st # "none"
    BY <2>2, <2>3 DEF IInv, RunsKnow
  <2>7. claims[c].op = "minted" => Key(c) \in grants
    BY DEF IInv, RunsKnow
  <2> QED BY <1>2, <2>4, <2>5, <2>6, <2>7, QuietMove
<1>4. CASE claims[c].op \notin Running
  <2>1. claims' = [claims EXCEPT ![c] = NoClaim]
    BY <1>4 DEF Stops
  <2>2. claims'[c].op = "lost" /\ Moves(c, "lost") /\ "lost" \in Ops
    BY <1>1, <2>1, NoClaimType DEF Moves, Ops
  <2> QED BY <1>2, <2>2, QuietMove
<1> QED BY <1>3, <1>4

-----------------------------------------------------------------------------
(* The theorems                                                            *)

\* Every step keeps the invariant.
LEMMA NextKeepsIInv == IInv /\ [Next]_vars => IInv'
<1> SUFFICES ASSUME IInv, [Next]_vars PROVE IInv'
  OBVIOUS
<1>1. CASE Midnight \/ SweepReads \/ SweepInserts \/ FillCache
  BY <1>1, CalendarStep
<1>2. ASSUME NEW c \in Handlers, Writer(c) PROVE IInv'
  BY <1>2, AnswerStep, PaysStep, ReservesStep, MintsStep, MintFailsStep, FlipsOrFails, OpDiesStep
  DEF Writer
<1>3. ASSUME NEW c \in Handlers, Handler(c) PROVE IInv'
  BY <1>3, ClaimStep, GrantedStep, StopsStep DEF Handler
<1>4. CASE UNCHANGED vars
  <2>1. UNCHANGED <<today, sweep, logged, cache, game, grants, paid, mirror, claims, asks>>
    BY <1>4 DEF vars
  <2>2. \A c \in Handlers : Key(c)' = Key(c)
    BY <2>1 DEF Key
  <2> QED BY <2>1, <2>2 DEF IInv, TypeOK, Gates, RunsKnow, OnTheRamp, NotedIsPaid
<1> QED BY <1>1, <1>2, <1>3, <1>4 DEF Next

\* And so it always holds.
LEMMA SpecKeepsIInv == Spec => []IInv
  BY InitIInv, NextKeepsIInv, PTL DEF Spec

\* Every row, claim and amount keeps its type: in particular a day claimed is
\* always worth a rung of the ramp, however the handler and its run end.
THEOREM TypeCorrect == Spec => []TypeOK
<1>1. IInv => TypeOK
  BY DEF IInv
<1> QED BY <1>1, SpecKeepsIInv, PTL

\* No day, week or period is paid twice, whatever dies or is asked again between
\* the transactions of dune-reward-op.sh and dune-grant.sh.
THEOREM PaysEachKeyOnce == Spec => []PaidOnce
<1>1. IInv => PaidOnce
  <2> SUFFICES ASSUME IInv, NEW k \in Keys PROVE paid[k] <= 1
    BY DEF PaidOnce
  <2>1. paid[k] \in {0, 1}
    BY DEF IInv, Gates
  <2> QED BY <2>1
<1> QED BY <1>1, SpecKeepsIInv, PTL

\* An applied row of ls_reward_claims was paid, a payment has its row, and only a
\* weekly row is ever left in between.
THEOREM LedgerTellsTheTruth == Spec => []AppliedIsPaid
<1>1. IInv => AppliedIsPaid
  <2> SUFFICES ASSUME IInv, NEW k \in Keys
               PROVE  /\ game[k].st = "applied" => paid[k] = 1
                      /\ paid[k] > 0 => game[k].st # "none"
                      /\ game[k].st \in {"pending", "failed"} => k.kind = "weekly"
    BY DEF AppliedIsPaid
  <2>1. CASE k.kind = "weekly"
    BY <2>1 DEF IInv, Gates
  <2>2. CASE k.kind # "weekly"
    BY <2>2 DEF IInv, Gates
  <2> QED BY <2>1, <2>2
<1> QED BY <1>1, SpecKeepsIInv, PTL

\* What the portal's own table shows as claimed was paid on the game host.
THEOREM NotedClaimsArePaid == Spec => []NotedIsPaid
<1>1. IInv => NotedIsPaid
  BY DEF IInv
<1> QED BY <1>1, SpecKeepsIInv, PTL

\* mark_weekly_failed overwrites an applied row only from a run that had passed
\* the gate while the row was not applied yet.
THEOREM OnlyARacingRunUndoes == Spec => AppliedUndoneOnlyByARacingRun
<1> DEFINE Undone ==
      \A k \in Keys : game[k].st = "applied" /\ game'[k].st # "applied"
        => \E c \in Handlers : Key(c) = k /\ At(c, "failing") /\ claims[c].saw # "applied"
<1>1. ASSUME IInv, [Next]_vars PROVE Undone
  <2> SUFFICES ASSUME NEW k \in Keys, game[k].st = "applied", game'[k].st # "applied"
               PROVE  \E c \in Handlers : Key(c) = k /\ At(c, "failing") /\ claims[c].saw # "applied"
    OBVIOUS
  <2>1. game \in [Keys -> Row] /\ \A c \in Handlers : Key(c) \in Keys
    <3>1. TypeOK
      BY <1>1 DEF IInv
    <3> QED BY <3>1, KeyType DEF TypeOK
  <2>2. PICK c \in Handlers : Pays(c) \/ Reserves(c) \/ Flips(c) \/ MarksFailed(c)
    BY <1>1 DEF Next, vars, Writer, Handler, Midnight, SweepReads, SweepInserts, FillCache,
       ClaimDaily, ClaimWeekly, ClaimMonthly, Ask, Replays, CapRefuses, Refuses, Mints, MintFails,
       OpDies, Granted, Stops
  <2>3. \A x \in Keys \ {Key(c)} : game'[x] = game[x]
    BY <2>1, <2>2 DEF Pays, Reserves, Flips, MarksFailed
  <2>4. Key(c) = k
    BY <2>3
  <2>5. ~Pays(c)
    BY <2>4 DEF Pays, New
  <2>6. ~Reserves(c)
    BY <2>4 DEF Reserves, New
  <2>7. ~Flips(c)
    <3>1. ASSUME Flips(c)
          PROVE  game' = [game EXCEPT ![k] = [game[k] EXCEPT !.st = "applied"]] \/ game' = game
      BY <2>4, <3>1 DEF Flips
    <3>2. [game[k] EXCEPT !.st = "applied"].st = "applied"
      BY <2>1 DEF Row
    <3> QED BY <2>1, <3>1, <3>2
  <2>8. At(c, "failing")
    BY <2>2, <2>5, <2>6, <2>7 DEF MarksFailed
  <2>9. claims[c].saw # "applied"
    BY <1>1, <2>8 DEF At, IInv, RunsKnow
  <2> QED BY <2>4, <2>8, <2>9
<1>2. IInv /\ [Next]_vars => [Undone]_vars
  BY <1>1
<1> HIDE DEF Undone
<1>3. Spec => [][Undone]_vars
  BY <1>2, SpecKeepsIInv, PTL DEF Spec
<1> QED BY <1>3 DEF Undone, AppliedUndoneOnlyByARacingRun
=============================================================================
