------------------------- MODULE NightCreditProofs -------------------------
(***************************************************************************)
(* Proofs about NightCredit, and about the composition SietchNights, for   *)
(* any number of nights, players, accounts, ladders and spots.             *)
(*                                                                         *)
(* The credit pass is a fold over the evidence.  Sound says what a ledger  *)
(* always is; the first part shows that a pass keeps it, only adds to it,  *)
(* adds nothing without evidence and leaves nothing owed.  The rest is     *)
(* about who may bring evidence when.                                      *)
(***************************************************************************)
EXTENDS SietchNights, RoleLaneProofs, FoldProofs

-----------------------------------------------------------------------------
(* Rows                                                                    *)

RefNames == {s.id : s \in Spots} \cup {"only", "t", "trail"}

EarnRow == [acc : Accounts, night : Event, source : Sources \ {"streak"},
            ref : RefNames \X Nat, amt : Nat \ {0}]

LedgerRow == [who : Profiles, night : Event, source : Sources,
              ref : RefNames \X Nat, amt : Nat \ {0}]

\* What a ledger always is: each ref paid once, and no night above a cap.  All streak
\* rows carry the same ref.
Sound(L) ==
    /\ L \in SUBSET LedgerRow /\ IsFiniteSet(L)
    /\ \A r, x \in L : x.who = r.who /\ SameRef(x, r) => x = r
    /\ \A r \in L : r.source = "streak" =>
          r.night = Nights /\ r.ref = <<"only", 0>> /\ r.amt = StreakAward
    /\ \A p \in Profiles, n \in Event, source \in Sources \ {"activity"} :
          Credited(L, p, n, source) <= CapFor(n, source)

\* Nothing is owed for e: it has a row, or its night has paid all it may.
Paid(L, p, e) ==
    \/ \E r \in L : r.who = p /\ SameRef(r, e)
    \/ /\ e.source # "activity"
       /\ Credited(L, p, e.night, e.source) = CapFor(e.night, e.source)

\* The sum over a profile's rows of a night is the sum of the lemmas.
LEMMA CreditedIsTotal ==
    ASSUME NEW L, L \in SUBSET LedgerRow, IsFiniteSet(L), NEW p, NEW n, NEW source
    PROVE  Credited(L, p, n, source) = Total([r \in LedgerRow |-> r.amt], Rows(L, p, n, source))
<1> DEFINE S == Rows(L, p, n, source)
           Eq(g) == g = [s \in SUBSET S |-> IF s = {} THEN 0
                            ELSE (CHOOSE x \in s : TRUE).amt + g[s \ {CHOOSE x \in s : TRUE}]]
           c == CHOOSE g : Eq(g)
           f == [r \in LedgerRow |-> r.amt]
<1>1. S \subseteq LedgerRow /\ IsFiniteSet(S)
  BY FS_Subset DEF Rows
<1>2. \A x \in S : f[x] \in Int /\ f[x] = x.amt
  BY <1>1 DEF LedgerRow
<1> HIDE DEF f, S
<1>3. \A g : Eq(g) <=> g = [s \in SUBSET S |-> g[s]] /\ Sums(g, S, f)
  <2>1. \A s \in SUBSET S : s # {} => f[CHOOSE x \in s : TRUE] = (CHOOSE x \in s : TRUE).amt
    BY <1>2
  <2> QED BY <2>1 DEF Sums, Pick
<1>4. PICK g : IsSum(g, S, f)
  BY <1>1, <1>2, TotalDef
<1>5. Eq(g)
  BY <1>3, <1>4 DEF IsSum
<1>6. Eq(c)
  <2> HIDE DEF Eq
  <2> QED BY <1>5
<1>7. Credited(L, p, n, source) = c[S]
  BY DEF Credited, MapThenSumSet, MapThenFoldSet, S
<1> HIDE DEF c, Eq
<1>8. Sums(c, S, f)
  BY <1>3, <1>6
<1> QED BY <1>1, <1>2, <1>7, <1>8, TotalIs DEF f, S

\* What was credited is a number, and grows with the ledger.
LEMMA CreditedNat ==
    ASSUME NEW L, L \in SUBSET LedgerRow, IsFiniteSet(L), NEW p, NEW n, NEW source
    PROVE  /\ Credited(L, p, n, source) \in Nat
           /\ \A M \in SUBSET L : Credited(M, p, n, source) <= Credited(L, p, n, source)
<1> DEFINE f == [r \in LedgerRow |-> r.amt]
<1>1. /\ Rows(L, p, n, source) \subseteq LedgerRow /\ IsFiniteSet(Rows(L, p, n, source))
      /\ \A M \in SUBSET L : /\ Rows(M, p, n, source) \in SUBSET Rows(L, p, n, source)
                             /\ M \in SUBSET LedgerRow /\ IsFiniteSet(M)
  BY FS_Subset DEF Rows
<1>2. \A x \in Rows(L, p, n, source) : f[x] \in Nat
  <2>1. \A x \in LedgerRow : f[x] = x.amt /\ x.amt \in Nat
    BY DEF LedgerRow
  <2> HIDE DEF f
  <2> QED BY <1>1, <2>1
<1> HIDE DEF f
<1>3. \A T \in SUBSET Rows(L, p, n, source) :
         /\ Total(f, T) <= Total(f, Rows(L, p, n, source))
         /\ Total(f, T) \in Nat
  BY <1>1, <1>2, TotalGrows
<1>4. /\ Credited(L, p, n, source) = Total(f, Rows(L, p, n, source))
      /\ \A M \in SUBSET L : Credited(M, p, n, source) = Total(f, Rows(M, p, n, source))
  BY <1>1, CreditedIsTotal DEF f
<1> QED BY <1>1, <1>3, <1>4

\* One row more adds what it pays, to its own night and source only.
LEMMA CreditedAdd ==
    ASSUME NEW L, L \in SUBSET LedgerRow, IsFiniteSet(L), NEW r \in LedgerRow, r \notin L,
           NEW p, NEW n, NEW source
    PROVE  /\ r.who = p /\ r.night = n /\ r.source = source =>
                 Credited(L \cup {r}, p, n, source) = Credited(L, p, n, source) + r.amt
           /\ ~(r.who = p /\ r.night = n /\ r.source = source) =>
                 Credited(L \cup {r}, p, n, source) = Credited(L, p, n, source)
<1> DEFINE f == [x \in LedgerRow |-> x.amt]
           S == Rows(L, p, n, source)
           T == Rows(L \cup {r}, p, n, source)
<1>1. /\ S \subseteq LedgerRow /\ IsFiniteSet(S) /\ r \notin S
      /\ T = IF r.who = p /\ r.night = n /\ r.source = source THEN S \cup {r} ELSE S
  BY FS_Subset DEF Rows
<1>2. (\A x \in S : f[x] \in Int) /\ f[r] \in Int /\ f[r] = r.amt
  <2>1. \A x \in LedgerRow : f[x] = x.amt /\ x.amt \in Int
    BY DEF LedgerRow
  <2> HIDE DEF f
  <2> QED BY <1>1, <2>1
<1>3. Credited(L, p, n, source) = Total(f, S) /\ Credited(L, p, n, source) \in Nat
  BY CreditedIsTotal, CreditedNat
<1>4. Credited(L \cup {r}, p, n, source) = Total(f, T)
  <2>1. L \cup {r} \in SUBSET LedgerRow /\ IsFiniteSet(L \cup {r})
    BY FS_AddElement
  <2> QED BY <2>1, CreditedIsTotal
<1> HIDE DEF f, S, T
<1>5. Total(f, S \cup {r}) = Total(f, S) + f[r]
  BY <1>1, <1>2, TotalAdd
<1> QED BY <1>1, <1>2, <1>3, <1>4, <1>5

-----------------------------------------------------------------------------
(* The credit pass                                                         *)

\* Min and Max of two numbers.
LEMMA MinMaxOfTwo ==
    ASSUME NEW a \in Int, NEW b \in Int
    PROVE  /\ Min({a, b}) = (IF a <= b THEN a ELSE b)
           /\ Max({a, b}) = (IF a <= b THEN b ELSE a)
<1>1. \E x \in {a, b} : \A y \in {a, b} : x <= y
  OBVIOUS
<1>2. Min({a, b}) \in {a, b} /\ \A y \in {a, b} : Min({a, b}) <= y
  BY <1>1 DEF Min
<1>3. \E x \in {a, b} : \A y \in {a, b} : x >= y
  OBVIOUS
<1>4. Max({a, b}) \in {a, b} /\ \A y \in {a, b} : Max({a, b}) >= y
  BY <1>3 DEF Max
<1> QED BY <1>2, <1>4

\* A cap is a positive number.
LEMMA CapType ==
    ASSUME NEW n \in Event, NEW source \in Sources \ {"activity"}
    PROVE  CapFor(n, source) \in Nat
<1>1. Rungs(n) * RefAward \in Nat
  BY CreditAssumption DEF Rungs
<1> QED BY <1>1, CreditAssumption DEF CapFor, Sources

\* What is paid stays paid, as long as the ledger only grows and stays sound.
LEMMA PaidStays ==
    ASSUME NEW L, Sound(L), NEW M, Sound(M), L \subseteq M, NEW p \in Profiles,
           NEW e \in EarnRow, Paid(L, p, e)
    PROVE  Paid(M, p, e)
<1>1. e.night \in Event /\ e.source \in Sources
  BY DEF EarnRow
<1>2. CASE \E r \in L : r.who = p /\ SameRef(r, e)
  BY <1>2 DEF Paid
<1>3. CASE /\ e.source # "activity"
           /\ Credited(L, p, e.night, e.source) = CapFor(e.night, e.source)
  <2>1. /\ Credited(L, p, e.night, e.source) \in Nat /\ Credited(M, p, e.night, e.source) \in Nat
        /\ Credited(L, p, e.night, e.source) <= Credited(M, p, e.night, e.source)
    BY CreditedNat DEF Sound
  <2>2. Credited(M, p, e.night, e.source) <= CapFor(e.night, e.source)
    BY <1>1, <1>3 DEF Sound
  <2>3. CapFor(e.night, e.source) \in Nat
    BY <1>1, <1>3, CapType
  <2> QED BY <1>3, <2>1, <2>2, <2>3 DEF Paid
<1> QED BY <1>2, <1>3 DEF Paid

\* The sum of a profile's rows of a night, once r is there too.
LEMMA CreditedGrows ==
    ASSUME NEW L, Sound(L), NEW r \in LedgerRow, r \notin L,
           NEW p \in Profiles, NEW n \in Event, NEW source \in Sources
    PROVE  Credited(L \cup {r}, p, n, source) =
               IF r.who = p /\ r.night = n /\ r.source = source
               THEN Credited(L, p, n, source) + r.amt ELSE Credited(L, p, n, source)
<1>1. L \in SUBSET LedgerRow /\ IsFiniteSet(L)
  BY DEF Sound
<1> QED BY <1>1, CreditedAdd

\* A new row that fits under the cap of its night.
LEMMA SoundAdd ==
    ASSUME NEW L, Sound(L), NEW r \in LedgerRow,
           ~\E x \in L : x.who = r.who /\ SameRef(x, r),
           r.source = "streak" => r.night = Nights /\ r.ref = <<"only", 0>> /\ r.amt = StreakAward,
           r.source # "activity" =>
               Credited(L, r.who, r.night, r.source) + r.amt <= CapFor(r.night, r.source)
    PROVE  Sound(L \cup {r})
<1>1. r \notin L
  BY DEF SameRef
<1>2. L \cup {r} \in SUBSET LedgerRow /\ IsFiniteSet(L \cup {r})
  BY FS_AddElement DEF Sound
<1>3. ASSUME NEW p \in Profiles, NEW n \in Event, NEW source \in Sources
      PROVE Credited(L \cup {r}, p, n, source) =
               IF r.who = p /\ r.night = n /\ r.source = source
               THEN Credited(L, p, n, source) + r.amt ELSE Credited(L, p, n, source)
  BY ONLY Sound(L), r \in LedgerRow, <1>1, <1>3, CreditedGrows
<1>4. \A x, y \in L \cup {r} : y.who = x.who /\ SameRef(y, x) => y = x
  BY DEF Sound, SameRef
<1>5. ASSUME NEW p \in Profiles, NEW n \in Event, NEW source \in Sources \ {"activity"}
      PROVE  Credited(L \cup {r}, p, n, source) <= CapFor(n, source)
  <2>1. /\ Credited(L, p, n, source) <= CapFor(n, source)
        /\ Credited(L, p, n, source) \in Nat /\ CapFor(n, source) \in Nat
    BY <1>5, CapType, CreditedNat DEF Sound
  <2>2. Credited(L \cup {r}, p, n, source) =
            IF r.who = p /\ r.night = n /\ r.source = source
            THEN Credited(L, p, n, source) + r.amt ELSE Credited(L, p, n, source)
    BY <1>3
  <2>3. CASE r.who = p /\ r.night = n /\ r.source = source
    BY <2>2, <2>3
  <2>4. CASE ~(r.who = p /\ r.night = n /\ r.source = source)
    BY <2>1, <2>2, <2>4
  <2> QED BY <2>3, <2>4
<1> QED BY <1>2, <1>4, <1>5 DEF Sound

\* One piece of evidence: credit_profile's loop body.
LEMMA CreditOneKeeps ==
    ASSUME NEW L, Sound(L), NEW p \in Profiles, NEW e \in EarnRow
    PROVE  /\ Sound(CreditOne(p, L, e)) /\ L \subseteq CreditOne(p, L, e)
           /\ \A r \in CreditOne(p, L, e) \ L : r.who = p /\ SameRef(r, e)
           /\ Paid(CreditOne(p, L, e), p, e)
<1> DEFINE paid == Credited(L, p, e.night, e.source)
           cap == CapFor(e.night, e.source)
           row == Row(p, e, Clipped(L, p, e))
<1>1. /\ e.night \in Event /\ e.source \in Sources \ {"streak"} /\ e.amt \in Nat \ {0}
      /\ e.ref \in RefNames \X Nat
  BY DEF EarnRow
<1>2. paid \in Nat /\ (e.source # "activity" => cap \in Nat /\ paid <= cap)
  BY <1>1, CreditedNat, CapType DEF Sound
<1> HIDE DEF paid, cap
<1>3. Clipped(L, p, e) = IF e.source = "activity" THEN e.amt
                         ELSE IF e.amt <= cap - paid THEN e.amt ELSE cap - paid
  <2>1. CASE e.source = "activity"
    BY <2>1 DEF Clipped
  <2>2. CASE e.source # "activity"
    <3>1. Min({e.amt, cap - paid}) = IF e.amt <= cap - paid THEN e.amt ELSE cap - paid
      <4>1. e.amt \in Int /\ cap - paid \in Int
        BY <1>1, <1>2, <2>2
      <4> QED BY <4>1, MinMaxOfTwo
    <3> QED BY <2>2, <3>1 DEF Clipped, cap, paid
  <2> QED BY <2>1, <2>2
<1>4. CASE \E r \in L : r.who = p /\ SameRef(r, e)
  <2>1. CreditOne(p, L, e) = L
    BY <1>4 DEF CreditOne
  <2> QED BY <1>4, <2>1 DEF Paid
<1>5. CASE Clipped(L, p, e) <= 0
  <2>1. CreditOne(p, L, e) = L
    BY <1>5 DEF CreditOne
  <2>2. e.source # "activity" /\ paid = cap
    BY <1>1, <1>2, <1>3, <1>5
  <2> QED BY <2>1, <2>2 DEF Paid, paid, cap
<1>6. CASE /\ ~(Clipped(L, p, e) <= 0)
           /\ ~\E r \in L : r.who = p /\ SameRef(r, e)
  <2>1. CreditOne(p, L, e) = L \cup {row}
    BY <1>6 DEF CreditOne
  <2>2. /\ Clipped(L, p, e) \in Nat \ {0}
        /\ e.source # "activity" => paid + Clipped(L, p, e) <= cap
    BY <1>1, <1>2, <1>3, <1>6
  <2>3. /\ row \in LedgerRow /\ row.who = p /\ SameRef(row, e)
        /\ row.night = e.night /\ row.source = e.source /\ row.amt = Clipped(L, p, e)
        /\ row.ref = e.ref
    BY <1>1, <2>2 DEF LedgerRow, Row, SameRef
  <2> HIDE DEF row
  <2>4. Sound(L \cup {row})
    <3>1. ~\E x \in L : x.who = row.who /\ SameRef(x, row)
      BY <1>6, <2>3 DEF SameRef
    <3>2. row.source # "activity" =>
             Credited(L, row.who, row.night, row.source) + row.amt <= CapFor(row.night, row.source)
      BY <2>2, <2>3 DEF paid, cap
    <3>3. row.source # "streak"
      BY <1>1, <2>3
    <3> QED BY <2>3, <3>1, <3>2, <3>3, SoundAdd
  <2> QED BY <2>1, <2>3, <2>4 DEF Paid
<1> QED BY <1>4, <1>5, <1>6

\* The streak's row is always the same one.
LEMMA StreakKeeps ==
    ASSUME NEW L, Sound(L), NEW p \in Profiles
    PROVE  /\ Sound(CreditStreak(p, L)) /\ L \subseteq CreditStreak(p, L)
           /\ \A r \in CreditStreak(p, L) \ L : r.who = p /\ r.source = "streak"
<1> DEFINE row == Row(p, [night |-> Nights, source |-> "streak", ref |-> <<"only", 0>>], StreakAward)
<1>1. /\ row \in LedgerRow /\ row.who = p /\ row.night = Nights /\ row.source = "streak"
      /\ row.ref = <<"only", 0>> /\ row.amt = StreakAward
  <2>1. StreakAward \in Nat \ {0} /\ Nights \in Event
    BY CreditAssumption DEF Event
  <2>2. <<"only", 0>> \in RefNames \X Nat
    BY DEF RefNames
  <2> QED BY <2>1, <2>2 DEF Row, LedgerRow, Sources
<1>2. CreditStreak(p, L) = L \/ CreditStreak(p, L) = L \cup {row}
  BY DEF CreditStreak
<1> HIDE DEF row
<1>3. CASE \E x \in L : x.who = row.who /\ SameRef(x, row)
  <2>1. PICK x \in L : x.who = row.who /\ SameRef(x, row)
    BY <1>3
  <2>2. x \in LedgerRow /\ x.amt = StreakAward
    BY <1>1, <2>1 DEF Sound, SameRef
  <2>3. x = row
    BY <1>1, <2>1, <2>2 DEF LedgerRow, SameRef
  <2> QED BY <1>2, <2>1, <2>3
<1>4. CASE ~\E x \in L : x.who = row.who /\ SameRef(x, row)
  <2>1. Rows(L, p, Nights, "streak") = {}
    BY <1>1, <1>4 DEF Rows, Sound, SameRef
  <2>2. Credited(L, p, Nights, "streak") = 0
    BY <2>1, CreditedIsTotal, TotalEmpty DEF Sound
  <2>3. CapFor(Nights, "streak") = StreakAward /\ StreakAward \in Nat
    BY CreditAssumption DEF CapFor
  <2>4. Credited(L, row.who, row.night, row.source) + row.amt <= CapFor(row.night, row.source)
    BY <1>1, <2>2, <2>3
  <2>5. Sound(L \cup {row})
    BY <1>1, <1>4, <2>4, SoundAdd
  <2> QED BY <1>1, <1>2, <2>5
<1> QED BY <1>3, <1>4

\* What a credit pass over the evidence E of the accounts accs makes of the ledger L.
Pass(L, E, p, accs, M) ==
    /\ Sound(M) /\ L \subseteq M
    /\ \A r \in M \ L : /\ r.who = p
                        /\ r.source = "streak" \/ \E e \in E : e.acc \in accs /\ SameRef(e, r)

Loop(L, E, p, accs) == FoldSet(LAMBDA e, M : CreditOne(p, M, e), L, {e \in E : e.acc \in accs})

\* credit_profile's loop: every piece of evidence is paid or had nothing left.
LEMMA LoopKeeps ==
    ASSUME NEW L, Sound(L), NEW E, E \in SUBSET EarnRow, IsFiniteSet(E),
           NEW p \in Profiles, NEW accs
    PROVE  /\ Pass(L, E, p, accs, Loop(L, E, p, accs))
           /\ \A e \in E : e.acc \in accs => Paid(Loop(L, E, p, accs), p, e)
<1> DEFINE S == {e \in E : e.acc \in accs}
           Eq(g) == g = [s \in SUBSET S |-> IF s = {} THEN L
                            ELSE CreditOne(p, g[s \ {CHOOSE x \in s : TRUE}], CHOOSE x \in s : TRUE)]
           c == CHOOSE g : Eq(g)
           V == {M \in SUBSET LedgerRow : Pass(L, E, p, accs, M)}
           step == [eM \in S \X V |-> CreditOne(p, eM[2], eM[1])]
           Done == {eM \in S \X V : Paid(eM[2], p, eM[1])}
<1>1. S \in SUBSET EarnRow /\ IsFiniteSet(S)
  BY FS_Subset
<1>2. L \in V
  BY DEF Pass, Sound
<1>3. ASSUME NEW e \in S, NEW M \in V
      PROVE  CreditOne(p, M, e) \in V /\ Paid(CreditOne(p, M, e), p, e) /\ M \subseteq CreditOne(p, M, e)
  <2> DEFINE N == CreditOne(p, M, e)
  <2>1. e \in E /\ e \in EarnRow /\ e.acc \in accs
    BY <1>1
  <2>2. Sound(M) /\ L \subseteq M /\ Pass(L, E, p, accs, M)
    BY DEF Pass
  <2>3. /\ Sound(N) /\ M \subseteq N /\ Paid(N, p, e)
        /\ \A r \in N \ M : r.who = p /\ SameRef(r, e)
    BY <2>1, <2>2, CreditOneKeeps
  <2> HIDE DEF N
  <2>4. N \in SUBSET LedgerRow
    BY <2>3 DEF Sound
  <2>5. Pass(L, E, p, accs, N)
    BY <2>1, <2>2, <2>3 DEF Pass, SameRef
  <2> QED BY <2>3, <2>4, <2>5 DEF N
<1> HIDE DEF S
<1>4. \A x \in S, M \in V : step[<<x, M>>] = CreditOne(p, M, x)
  <2> HIDE DEF V
  <2> QED OBVIOUS
<1>5. step \in [S \X V -> V]
  <2> HIDE DEF V
  <2> QED BY <1>3
<1>6. \A x \in S : \A M \in V : <<x, step[<<x, M>>]>> \in Done
  <2> HIDE DEF V, step
  <2> QED BY <1>3, <1>4
<1>7. \A x, y \in S : \A M \in V : <<x, M>> \in Done => <<x, step[<<y, M>>]>> \in Done
  <2> SUFFICES ASSUME NEW x \in S, NEW y \in S, NEW M \in V, <<x, M>> \in Done
               PROVE  <<x, step[<<y, M>>]>> \in Done
    OBVIOUS
  <2> DEFINE N == CreditOne(p, M, y)
  <2>1. N \in V /\ M \subseteq N /\ step[<<y, M>>] = N
    BY <1>3, <1>4
  <2>2. Paid(M, p, x)
    OBVIOUS
  <2> HIDE DEF N
  <2>3. Sound(M) /\ Sound(N)
    BY <2>1 DEF Pass
  <2>4. Paid(N, p, x)
    BY <1>1, <2>1, <2>2, <2>3, PaidStays
  <2> QED BY <2>1, <2>4
<1> HIDE DEF V, step, Done
<1>8. PICK g \in [SUBSET S -> V] : FoldsTo(g, S, L, step)
  BY <1>1, <1>2, <1>5, FoldExists
<1>9. Eq(g)
  <2>1. \A s \in SUBSET S : s # {} => Pick(s) \in S /\ g[s \ {Pick(s)}] \in V
    BY PickType
  <2>2. \A s \in SUBSET S : g[s] = IF s = {} THEN L ELSE CreditOne(p, g[s \ {Pick(s)}], Pick(s))
    BY <1>4, <1>8, <2>1 DEF FoldsTo
  <2> QED BY <2>2 DEF Pick
<1>10. Eq(c)
  <2> HIDE DEF Eq
  <2> QED BY <1>9
<1> HIDE DEF c
<1>11. FoldsWithin(c, S, V, L, step)
  <2>1. \A s \in SUBSET S : c[s] = IF s = {} THEN L ELSE CreditOne(p, c[s \ {Pick(s)}], Pick(s))
    BY <1>10 DEF Pick
  <2>2. \A s \in SUBSET S : s # {} => Pick(s) \in S
    BY PickType
  <2> QED BY <1>4, <2>1, <2>2 DEF FoldsWithin
<1>12. c[S] \in V
  BY <1>1, <1>2, <1>5, <1>11, FoldIn
<1>13. \A x \in S : <<x, c[S]>> \in Done
  <2>1. Settles(S, V, step, Done)
    BY <1>6, <1>7 DEF Settles
  <2> QED BY <1>1, <1>2, <1>5, <1>11, <2>1, FoldReaches
<1>14. Loop(L, E, p, accs) = c[S]
  BY DEF Loop, FoldSet, MapThenFoldSet, c, S
<1> QED BY <1>12, <1>13, <1>14 DEF V, Done, S

\* A pass pays only a profile with an account that qualifies, and then all of it.
LEMMA PassKeeps ==
    ASSUME NEW L, Sound(L), NEW E, E \in SUBSET EarnRow, IsFiniteSet(E),
           NEW p \in Profiles, NEW accs, NEW F
    PROVE  LET M == CreditProfile(L, E, p, accs, F)
           IN  /\ Pass(L, E, p, accs, M)
               /\ M # L => accs \cap F # {}
               /\ accs \cap F # {} => \A e \in E : e.acc \in accs => Paid(M, p, e)
<1> DEFINE S == {e \in E : e.acc \in accs}
           N == Loop(L, E, p, accs)
           M == CreditProfile(L, E, p, accs, F)
<1>1. CASE accs \cap F = {}
  BY <1>1 DEF CreditProfile, Pass
<1>2. CASE accs \cap F # {}
  <2>1. Pass(L, E, p, accs, N) /\ \A e \in S : Paid(N, p, e)
    BY LoopKeeps
  <2>2. M = CreditStreak(p, N)
    BY <1>2 DEF CreditProfile, Loop
  <2> HIDE DEF N, M
  <2>3. Sound(N)
    BY <2>1 DEF Pass
  <2>4. Sound(M) /\ N \subseteq M /\ \A r \in M \ N : r.who = p /\ r.source = "streak"
    BY <2>2, <2>3, StreakKeeps
  <2>5. Pass(L, E, p, accs, M)
    BY <2>1, <2>4 DEF Pass
  <2>6. \A e \in S : Paid(M, p, e)
    BY <2>1, <2>3, <2>4, PaidStays
  <2> QED BY <1>2, <2>5, <2>6 DEF M
<1> QED BY <1>1, <1>2

\* What a pass over everybody makes of L: a new row is backed by an account linked
\* to its profile, and one of them qualifies.
PassAll(L, E, F, M) ==
    /\ Sound(M) /\ L \subseteq M
    /\ \A r \in M \ L :
          /\ r.source = "streak" \/ \E e \in E : e.acc \in Linked(r.who) /\ SameRef(e, r)
          /\ Linked(r.who) \cap F # {}

\* credit_all: whoever has an account that qualifies is paid all there is.
LEMMA AllKeeps ==
    ASSUME NEW L, Sound(L), NEW E, E \in SUBSET EarnRow, IsFiniteSet(E), NEW F
    PROVE  /\ PassAll(L, E, F, CreditAll(L, E, F))
           /\ \A p \in Profiles : Linked(p) \cap F # {} =>
                 \A e \in E : e.acc \in Linked(p) => Paid(CreditAll(L, E, F), p, e)
<1> DEFINE S == Profiles
           Eq(g) == g = [s \in SUBSET S |-> IF s = {} THEN L
                            ELSE CreditProfile(g[s \ {CHOOSE x \in s : TRUE}], E, CHOOSE x \in s : TRUE,
                                               Linked(CHOOSE x \in s : TRUE), F)]
           c == CHOOSE g : Eq(g)
           All(p, M) == Linked(p) \cap F # {} => \A e \in E : e.acc \in Linked(p) => Paid(M, p, e)
           V == {M \in SUBSET LedgerRow : PassAll(L, E, F, M)}
           step == [pM \in S \X V |-> CreditProfile(pM[2], E, pM[1], Linked(pM[1]), F)]
           Done == {pM \in S \X V : All(pM[1], pM[2])}
<1>1. IsFiniteSet(S)
  BY CreditAssumption
<1>2. L \in V
  BY DEF PassAll, Sound
<1>3. ASSUME NEW p \in S, NEW M \in V
      PROVE  LET N == CreditProfile(M, E, p, Linked(p), F)
             IN  N \in V /\ M \subseteq N /\ All(p, N)
  <2> DEFINE N == CreditProfile(M, E, p, Linked(p), F)
  <2>1. Sound(M) /\ L \subseteq M /\ PassAll(L, E, F, M)
    BY DEF PassAll
  <2>2. Pass(M, E, p, Linked(p), N) /\ (N # M => Linked(p) \cap F # {}) /\ All(p, N)
    BY <2>1, PassKeeps
  <2> HIDE DEF N, All
  <2>3. Sound(N) /\ M \subseteq N /\ N \in SUBSET LedgerRow
    BY <2>2 DEF Pass, Sound
  <2>4. PassAll(L, E, F, N)
    BY <2>1, <2>2, <2>3 DEF PassAll, Pass
  <2> QED BY <2>2, <2>3, <2>4 DEF N
<1>4. ASSUME NEW p \in S, NEW M \in V, NEW N \in V, M \subseteq N, All(p, M)
      PROVE  All(p, N)
  <2>1. Sound(M) /\ Sound(N)
    BY DEF PassAll
  <2>2. \A e \in E : Paid(M, p, e) => Paid(N, p, e)
    BY <1>4, <2>1, PaidStays
  <2> QED BY <1>4, <2>2
<1> HIDE DEF V, All, S
<1>5. \A p \in S, M \in V : step[<<p, M>>] = CreditProfile(M, E, p, Linked(p), F)
  OBVIOUS
<1>6. step \in [S \X V -> V]
  BY <1>3
<1>7. Settles(S, V, step, Done)
  <2>1. \A p \in S : \A M \in V : <<p, step[<<p, M>>]>> \in Done
    BY <1>3, <1>5
  <2>2. ASSUME NEW p \in S, NEW q \in S, NEW M \in V, <<p, M>> \in Done
        PROVE  <<p, step[<<q, M>>]>> \in Done
    <3> DEFINE N == step[<<q, M>>]
    <3>1. N \in V /\ M \subseteq N
      BY <1>3, <1>5
    <3>2. All(p, M)
      BY <2>2
    <3> HIDE DEF N, step
    <3>3. All(p, N)
      BY <1>4, <3>1, <3>2
    <3> QED BY <3>1, <3>3 DEF N
  <2> QED BY <2>1, <2>2 DEF Settles
<1> HIDE DEF step, Done
<1>8. PICK g \in [SUBSET S -> V] : FoldsTo(g, S, L, step)
  BY <1>1, <1>2, <1>6, FoldExists
<1>9. Eq(g)
  <2>1. \A s \in SUBSET S : s # {} => Pick(s) \in S /\ g[s \ {Pick(s)}] \in V
    BY PickType
  <2>2. \A s \in SUBSET S : g[s] = IF s = {} THEN L
           ELSE CreditProfile(g[s \ {Pick(s)}], E, Pick(s), Linked(Pick(s)), F)
    BY <1>5, <1>8, <2>1 DEF FoldsTo
  <2> QED BY <2>2 DEF Pick
<1>10. Eq(c)
  <2> HIDE DEF Eq
  <2> QED BY <1>9
<1> HIDE DEF c
<1>11. FoldsWithin(c, S, V, L, step)
  <2>1. \A s \in SUBSET S : c[s] = IF s = {} THEN L
           ELSE CreditProfile(c[s \ {Pick(s)}], E, Pick(s), Linked(Pick(s)), F)
    BY <1>10 DEF Pick
  <2>2. \A s \in SUBSET S : s # {} => Pick(s) \in S
    BY PickType
  <2> QED BY <1>5, <2>1, <2>2 DEF FoldsWithin
<1>12. c[S] \in V
  BY <1>1, <1>2, <1>6, <1>11, FoldIn
<1>13. \A p \in S : <<p, c[S]>> \in Done
  BY <1>1, <1>2, <1>6, <1>7, <1>11, FoldReaches
<1>14. CreditAll(L, E, F) = c[S]
  BY DEF CreditAll, FoldSet, MapThenFoldSet, c, S
<1> QED BY <1>12, <1>13, <1>14 DEF V, Done, S, All

-----------------------------------------------------------------------------
(* Evidence                                                                *)

\* INSERT OR IGNORE keeps what is there and has every ref it was given.
LEMMA AddEarnKeeps ==
    ASSUME NEW E, E \in SUBSET EarnRow, IsFiniteSet(E), NEW es, es \in SUBSET EarnRow, IsFiniteSet(es)
    PROVE  /\ AddEarn(E, es) \in SUBSET EarnRow /\ IsFiniteSet(AddEarn(E, es))
           /\ E \subseteq AddEarn(E, es) /\ AddEarn(E, es) \subseteq E \cup es
           /\ \A e \in es : \E x \in AddEarn(E, es) : x.acc = e.acc /\ SameRef(x, e)
<1>1. IsFiniteSet({e \in es : \A x \in E : ~(x.acc = e.acc /\ SameRef(x, e))})
  BY FS_Subset
<1>2. IsFiniteSet(AddEarn(E, es))
  BY <1>1, FS_Union DEF AddEarn
<1> QED BY <1>2 DEF AddEarn, SameRef

VisitedIn(E, a, n) == \E e \in E : e.acc = a /\ e.night = n /\ e.source = "visit"

\* Of E come only visits of the accounts A, on days they played, up to today.
Recorded(E, A, today, M) ==
    /\ M \in SUBSET EarnRow /\ IsFiniteSet(M) /\ E \subseteq M
    /\ \A e \in M \ E : e.acc \in A /\ e.night \in played[e.acc] /\ e.night <= today /\ e = Visit(e.acc, e.night)
    /\ \A e \in M \ E : \A m \in played[e.acc] : m <= today => VisitedIn(M, e.acc, m)

\* The event has an end.
LEMMA EventFinite == IsFiniteSet(Event)
<1>1. IsFiniteSet(1..Nights)
  BY FS_Interval, CreditAssumption
<1> QED BY <1>1 DEF Event

\* record_login_days: all the days of an account up to today, or nothing new.
LEMMA RecordKeeps ==
    ASSUME NEW E, E \in SUBSET EarnRow, IsFiniteSet(E), NEW a \in Accounts,
           played \in [Accounts -> SUBSET Event], NEW today \in Int
    PROVE  Recorded(E, {a}, today, RecordLoginDays(E, a, played[a], today))
<1> DEFINE days == {d \in played[a] : d <= today}
           es == {Visit(a, n) : n \in days}
           M == AddEarn(E, es)
<1>1. days \in SUBSET Event /\ IsFiniteSet(days)
  BY EventFinite, FS_Subset
<1>2. \A n \in Event : /\ Visit(a, n) \in EarnRow /\ Visit(a, n).acc = a /\ Visit(a, n).night = n
                       /\ Visit(a, n).source = "visit"
  <2>1. VisitAward \in Nat \ {0}
    BY CreditAssumption
  <2>2. <<"only", 0>> \in RefNames \X Nat
    BY DEF RefNames
  <2> QED BY <2>1, <2>2 DEF Visit, Evidence, EarnRow, Sources
<1> HIDE DEF days
<1>3. es \in SUBSET EarnRow /\ IsFiniteSet(es)
  <2>1. IsFiniteSet(es)
    <3> DEFINE f == [n \in days |-> Visit(a, n)]
    <3>1. es = {f[n] : n \in days} /\ f \in Surjection(days, es)
      BY DEF Surjection
    <3> HIDE DEF f
    <3> QED BY <1>1, <3>1, FS_Surjection
  <2> QED BY <1>1, <1>2, <2>1
<1>4. RecordLoginDays(E, a, played[a], today) = M
  BY DEF RecordLoginDays, days
<1> HIDE DEF es
<1>5. /\ M \in SUBSET EarnRow /\ IsFiniteSet(M) /\ E \subseteq M /\ M \subseteq E \cup es
      /\ \A e \in es : \E x \in M : x.acc = e.acc /\ SameRef(x, e)
  BY <1>3, AddEarnKeeps
<1>6. \A n \in days : VisitedIn(M, a, n)
  <2> USE DEF es
  <2> SUFFICES ASSUME NEW n \in days PROVE VisitedIn(M, a, n)
    OBVIOUS
  <2>1. PICK x \in M : x.acc = Visit(a, n).acc /\ SameRef(x, Visit(a, n))
    BY <1>5
  <2> QED BY <1>1, <1>2, <2>1 DEF VisitedIn, SameRef
<1> HIDE DEF M
<1>7. \A e \in M \ E : e.acc = a /\ e.night \in days /\ e = Visit(a, e.night)
  BY <1>1, <1>2, <1>5 DEF es
<1>8. \A n : n \in days <=> n \in played[a] /\ n <= today
  BY DEF days
<1> QED BY <1>4, <1>5, <1>6, <1>7, <1>8 DEF Recorded

Recalls(E, A, today) == FoldSet(LAMBDA a, M : RecordLoginDays(M, a, played[a], today), E, A)

\* fold_login_days: the same for every account that was read.
LEMMA RecallsKeep ==
    ASSUME NEW E, E \in SUBSET EarnRow, IsFiniteSet(E), NEW A, A \in SUBSET Accounts,
           played \in [Accounts -> SUBSET Event], NEW today \in Int
    PROVE  Recorded(E, A, today, Recalls(E, A, today))
<1> DEFINE Eq(g) == g = [s \in SUBSET A |-> IF s = {} THEN E
                            ELSE RecordLoginDays(g[s \ {CHOOSE x \in s : TRUE}], CHOOSE x \in s : TRUE,
                                                 played[CHOOSE x \in s : TRUE], today)]
           c == CHOOSE g : Eq(g)
           V == {M \in SUBSET EarnRow : Recorded(E, A, today, M)}
           step == [aM \in A \X V |-> RecordLoginDays(aM[2], aM[1], played[aM[1]], today)]
<1>1. IsFiniteSet(A)
  BY CreditAssumption, FS_Subset
<1>2. E \in V
  BY DEF Recorded
<1>3. ASSUME NEW a \in A, NEW M \in V
      PROVE  RecordLoginDays(M, a, played[a], today) \in V
  <2> DEFINE N == RecordLoginDays(M, a, played[a], today)
  <2>1. Recorded(E, A, today, M) /\ M \in SUBSET EarnRow /\ IsFiniteSet(M)
    BY DEF Recorded
  <2>2. Recorded(M, {a}, today, N)
    BY <2>1, RecordKeeps
  <2> HIDE DEF N
  <2>3. /\ N \in SUBSET EarnRow /\ IsFiniteSet(N) /\ E \subseteq N
        /\ \A e \in N \ E : /\ e.acc \in A /\ e.night \in played[e.acc] /\ e.night <= today
                           /\ e = Visit(e.acc, e.night)
    BY <2>1, <2>2 DEF Recorded
  <2>4. \A e \in N \ E : \A m \in played[e.acc] : m <= today => VisitedIn(N, e.acc, m)
    BY <2>1, <2>2 DEF Recorded, VisitedIn
  <2>5. Recorded(E, A, today, N)
    BY <2>3, <2>4 DEF Recorded
  <2> QED BY <2>3, <2>5 DEF N
<1> HIDE DEF V
<1>4. \A a \in A, M \in V : step[<<a, M>>] = RecordLoginDays(M, a, played[a], today)
  OBVIOUS
<1>5. step \in [A \X V -> V]
  BY <1>3
<1> HIDE DEF step
<1>6. PICK g \in [SUBSET A -> V] : FoldsTo(g, A, E, step)
  BY <1>1, <1>2, <1>5, FoldExists
<1>7. Eq(g)
  <2>1. \A s \in SUBSET A : s # {} => Pick(s) \in A /\ g[s \ {Pick(s)}] \in V
    BY PickType
  <2>2. \A s \in SUBSET A : g[s] = IF s = {} THEN E
           ELSE RecordLoginDays(g[s \ {Pick(s)}], Pick(s), played[Pick(s)], today)
    BY <1>4, <1>6, <2>1 DEF FoldsTo
  <2> QED BY <2>2 DEF Pick
<1>8. Eq(c)
  <2> HIDE DEF Eq
  <2> QED BY <1>7
<1> HIDE DEF c
<1>9. FoldsWithin(c, A, V, E, step)
  <2>1. \A s \in SUBSET A : c[s] = IF s = {} THEN E
           ELSE RecordLoginDays(c[s \ {Pick(s)}], Pick(s), played[Pick(s)], today)
    BY <1>8 DEF Pick
  <2>2. \A s \in SUBSET A : s # {} => Pick(s) \in A
    BY PickType
  <2> QED BY <1>4, <2>1, <2>2 DEF FoldsWithin
<1>10. c[A] \in V
  BY <1>1, <1>2, <1>5, <1>9, FoldIn
<1>11. Recalls(E, A, today) = c[A]
  BY DEF Recalls, FoldSet, MapThenFoldSet, c
<1> QED BY <1>10, <1>11 DEF V

-----------------------------------------------------------------------------
(* The inductive invariant                                                 *)

Req == [step : {"none", "state", "knock", "opens"}, acc : Accounts \cup {Nobody},
        accs : SUBSET Accounts, at : 0..Grace]

Typed ==
    /\ now \in 1..Grace /\ tick \in 0..Grace /\ deeds \in 0..MaxDeeds
    /\ link \in [Accounts -> Profiles \cup {Nobody}]
    /\ held \in [Accounts -> SUBSET Profiles]
    /\ played \in [Accounts -> SUBSET Event]
    /\ fit \subseteq Veterans
    /\ earn \in SUBSET EarnRow /\ IsFiniteSet(earn)
    /\ req \in [Profiles -> Req]
    /\ score \in [Accounts -> [Ladders -> Nat]] /\ gained \in [Accounts -> [Ladders -> Nat]]
    /\ base \in [Accounts -> [Ladders -> Nat \cup {NoBase}]]
    /\ delta \in [Accounts -> [Event -> [points : Nat, turns : Nat]]]

\* An account's holders are told of by its link; with credentials there is one at most.
Owned ==
    /\ \A a \in Accounts : link[a] \in Profiles => link[a] \in held[a]
    /\ Installed => \A a \in Accounts : \A p, q \in held[a] : p = q

\* What the request r of the profile p holds was p's once.
AskedBy(p, r, H) ==
    /\ \A a \in r.accs : p \in H[a]
    /\ r.step \in {"knock", "opens"} => r.acc \in Accounts /\ p \in H[r.acc] /\ r.at \in Event
    /\ r.step = "opens" => r.acc \in r.accs

Asked == \A p \in Profiles : AskedBy(p, req[p], held)

\* Each source names its evidence in its own way.
FiledAs(e) ==
    /\ e.source = "visit" => e.ref = <<"only", 0>>
    /\ e.source = "landsraad" => e.ref[1] = "t"
    /\ e.source = "knock" => \E s \in Spots : s.kind = "porch" /\ e.night = s.night /\ e.ref = <<s.id, 0>>

Filed == \A e \in earn : FiledAs(e)

\* The profile had an account that qualifies, and one that did what is paid.
Earner(r, E, F, H) ==
    /\ r.source # "streak" => \E e \in E : SameRef(e, r) /\ r.who \in H[e.acc]
    /\ \E a \in F : r.who \in H[a]

Backed == \A r \in ledger : Earner(r, earn, fit, held)

\* A find is paid in the transaction that notes it, so no later pass can pay it.
FindsPaid ==
    Installed => \A e \in earn : e.source = "activity" =>
        /\ held[e.acc] # {}
        /\ \A p \in held[e.acc] : \E r \in ledger : r.who = p /\ SameRef(r, e)

\* The trail's row stands behind every clue's, a clue's behind the clues' before it.
TrailKept ==
    Installed => \A p \in Profiles, s, t \in {c \in Spots : c.kind = "clue"} : s.night = t.night =>
        /\ HasRow(p, s.night, <<s.id, 0>>) /\ t.seq < s.seq => HasRow(p, s.night, <<t.id, 0>>)
        /\ HasRow(p, s.night, <<"trail", 0>>) => HasRow(p, s.night, <<t.id, 0>>)

\* A visit is a day played, and a day played has begun.
DaysKept == \A a \in Accounts : /\ played[a] \subseteq 1..now
                                /\ \A n \in Event : Visited(a, n) => n \in played[a]

\* What a reading of a ladder would find: the mirror's value above the base.
Pending(b, v) == [l \in Ladders |-> IF b[l] # NoBase /\ v[l] > b[l] THEN v[l] - b[l] ELSE 0]
PointsOf(d)   == [n \in Event |-> d[n].points]
TurnsOf(d)    == [n \in Event |-> d[n].turns]

\* What was counted, with what a reading would find, is no more than was gained.
Kept(d, b, v, g) ==
    /\ Total(PointsOf(d), Event) + Total(Pending(b, v), Points) <= Total(g, Points)
    /\ Total(TurnsOf(d), Event) + Total(Pending(b, v), Counts) <= Total(g, Counts)

OfferingsKept == \A a \in Accounts : Kept(delta[a], base[a], score[a], gained[a])

NInv ==
    /\ Typed /\ Sound(ledger) /\ Owned /\ Asked /\ Filed /\ Backed /\ FindsPaid
    /\ TrailKept /\ FirstFinders /\ DaysKept /\ NoNightForgotten /\ OfferingsKept

-----------------------------------------------------------------------------
(* Finds                                                                   *)

IsFind(ref) ==
    \/ \E s \in Spots : s.kind # "porch" /\ ref = <<s.id, 0>>
    \/ \E s \in Spots : ref = <<s.id, 1>>
    \/ ref = <<"trail", 0>>

\* A find's ref stands for nothing else: no visit, door, offering or streak has it.
LEMMA FindsAreActivity ==
    ASSUME NEW L, Sound(L), NEW E, \A e \in E : FiledAs(e), NEW F, NEW H,
           NEW r \in L, Earner(r, E, F, H), IsFind(r.ref)
    PROVE  r.source = "activity"
<1>1. r.source \in Sources
  BY DEF Sound, LedgerRow
<1>2. r.ref # <<"only", 0>> /\ r.ref[1] # "t"
  BY SpotAssumption DEF IsFind
<1>3. ~\E s \in Spots : s.kind = "porch" /\ r.ref = <<s.id, 0>>
  <2> SUFFICES ASSUME NEW s \in Spots, s.kind = "porch", r.ref = <<s.id, 0>> PROVE FALSE
    OBVIOUS
  <2>1. \A t \in Spots : t.kind # "porch" => t.id # s.id
    BY SpotAssumption
  <2> QED BY <2>1, SpotAssumption DEF IsFind
<1>4. CASE r.source = "streak"
  BY <1>2, <1>4 DEF Sound
<1>5. CASE r.source # "streak"
  <2>1. PICK e \in E : SameRef(e, r)
    BY <1>5 DEF Earner
  <2>2. FiledAs(e) /\ e.source = r.source /\ e.ref = r.ref
    BY <2>1 DEF SameRef
  <2> QED BY <1>1, <1>2, <1>3, <1>5, <2>2 DEF FiledAs, Sources
<1> QED BY <1>4, <1>5

\* A step that notes no find, and pays each profile what its own accounts did.
Quiet ==
    /\ earn \subseteq earn' /\ ledger \subseteq ledger' /\ fit \subseteq fit'
    /\ \A a \in Accounts : held[a] \subseteq held'[a]
    /\ \A e \in earn' \ earn : e.source \in {"visit", "landsraad"}
    /\ \A r \in ledger' \ ledger : Earner(r, earn', fit', held')

\* Such a step pays no find: each is paid already to the one profile it can go to.
LEMMA QuietRows ==
    ASSUME Installed, Typed, Typed', Sound(ledger'), Owned', FindsPaid, Quiet,
           NEW r \in ledger' \ ledger
    PROVE  r.source # "activity"
<1> SUFFICES ASSUME r.source = "activity" PROVE FALSE
  OBVIOUS
<1>1. PICK e \in earn' : SameRef(e, r) /\ r.who \in held'[e.acc]
  BY DEF Quiet, Earner
<1>2. e \in earn /\ e.source = "activity"
  BY <1>1 DEF Quiet, SameRef
<1>3. e.acc \in Accounts
  BY <1>2 DEF Typed, EarnRow
<1>4. held[e.acc] # {} /\ held[e.acc] \subseteq held'[e.acc] /\ \A p, q \in held'[e.acc] : p = q
  BY <1>2, <1>3 DEF FindsPaid, Quiet, Owned
<1>5. r.who \in held[e.acc]
  BY <1>1, <1>4
<1>6. PICK x \in ledger : x.who = r.who /\ SameRef(x, e)
  BY <1>2, <1>5 DEF FindsPaid
<1>7. x \in ledger' /\ SameRef(x, r)
  BY <1>1, <1>6 DEF Quiet, SameRef
<1> QED BY <1>6, <1>7 DEF Sound

\* And so it leaves the finds as they were.
LEMMA QuietKeeps ==
    ASSUME Typed, Sound(ledger), Owned, Filed, Backed, FindsPaid, TrailKept, FirstFinders,
           Typed', Sound(ledger'), Owned', Filed', Quiet
    PROVE  Backed' /\ FindsPaid' /\ TrailKept' /\ FirstFinders'
<1>1. Backed'
  <2> SUFFICES ASSUME NEW r \in ledger' PROVE Earner(r, earn', fit', held')
    BY DEF Backed
  <2>1. CASE r \in ledger
    <3>1. Earner(r, earn, fit, held)
      BY <2>1 DEF Backed
    <3>2. \A e \in earn : e.acc \in Accounts
      BY DEF Typed, EarnRow
    <3>3. \A a \in fit : a \in Accounts
      BY CreditAssumption DEF Typed
    <3> QED BY <3>1, <3>2, <3>3 DEF Quiet, Earner
  <2> QED BY <2>1 DEF Quiet
<1>2. FindsPaid'
  <2> SUFFICES ASSUME Installed, NEW e \in earn', e.source = "activity"
               PROVE  /\ held'[e.acc] # {}
                      /\ \A p \in held'[e.acc] : \E r \in ledger' : r.who = p /\ SameRef(r, e)
    BY DEF FindsPaid
  <2>1. e \in earn
    BY DEF Quiet
  <2>2. e.acc \in Accounts
    BY <2>1 DEF Typed, EarnRow
  <2>3. held[e.acc] # {} /\ held[e.acc] \subseteq held'[e.acc] /\ \A p, q \in held'[e.acc] : p = q
    BY <2>1, <2>2 DEF FindsPaid, Quiet, Owned
  <2>4. held'[e.acc] = held[e.acc]
    BY <2>3
  <2> QED BY <2>1, <2>3, <2>4 DEF FindsPaid, Quiet
<1>3. ASSUME Installed, NEW p \in Profiles, NEW n, NEW ref, IsFind(ref)
      PROVE  HasRow(p, n, ref)' <=> HasRow(p, n, ref)
  <2>1. ASSUME NEW r \in ledger', r.ref = ref PROVE r \in ledger
    <3>1. r.source = "activity"
      BY <1>1, <1>3, <2>1, FindsAreActivity DEF Backed, Filed
    <3> QED BY <1>3, <3>1, QuietRows
  <2> QED BY <2>1 DEF HasRow, Quiet
<1>4. TrailKept'
  <2> SUFFICES ASSUME Installed, NEW p \in Profiles, NEW s \in Spots, NEW t \in Spots,
                      s.kind = "clue", t.kind = "clue", s.night = t.night
               PROVE  /\ HasRow(p, s.night, <<s.id, 0>>)' /\ t.seq < s.seq => HasRow(p, s.night, <<t.id, 0>>)'
                      /\ HasRow(p, s.night, <<"trail", 0>>)' => HasRow(p, s.night, <<t.id, 0>>)'
    BY DEF TrailKept
  <2>1. IsFind(<<s.id, 0>>) /\ IsFind(<<t.id, 0>>) /\ IsFind(<<"trail", 0>>)
    BY DEF IsFind
  <2> QED BY <1>3, <2>1 DEF TrailKept
<1>5. FirstFinders'
  <2> SUFFICES ASSUME Installed, NEW s \in Spots
               PROVE  /\ Cardinality({p \in Profiles : HasRow(p, s.night, <<s.id, 1>>)'}) <= FirstN
                      /\ \A p \in Profiles : HasRow(p, s.night, <<s.id, 1>>)' => HasRow(p, s.night, <<s.id, 0>>)'
    BY DEF FirstFinders
  <2>1. \A p \in Profiles : HasRow(p, s.night, <<s.id, 1>>)' <=> HasRow(p, s.night, <<s.id, 1>>)
    BY <1>3 DEF IsFind
  <2>2. {p \in Profiles : HasRow(p, s.night, <<s.id, 1>>)'} = {p \in Profiles : HasRow(p, s.night, <<s.id, 1>>)}
    BY <2>1
  <2>3. \A p \in Profiles : HasRow(p, s.night, <<s.id, 0>>) => HasRow(p, s.night, <<s.id, 0>>)'
    BY DEF HasRow, Quiet
  <2> QED BY <2>1, <2>2, <2>3 DEF FirstFinders
<1> QED BY <1>1, <1>2, <1>4, <1>5

-----------------------------------------------------------------------------
(* Who asks, who plays, who holds what                                     *)

\* The parts of the invariant that every step keeps for itself.
Frame == Typed /\ Sound(ledger) /\ Owned /\ Asked /\ Filed /\ DaysKept /\ NoNightForgotten

\* A request is asked, goes on or is given up.
LEMMA RequestStep ==
    ASSUME Frame, NEW p \in Profiles,
           AsksState(p) \/ (\E a \in Accounts : AsksKnock(p, a)) \/ Opens(p) \/ GivesUp(p)
    PROVE  Frame' /\ Quiet /\ UNCHANGED <<delta, base, score, gained>>
<1>1. /\ UNCHANGED <<now, link, held, played, fit, earn, ledger, tick, score, base, delta, gained>>
      /\ deeds' \in 0..MaxDeeds
  BY CreditAssumption DEF Frame, Typed, AsksState, AsksKnock, Asks, Deed, Opens, GivesUp
<1>2. PICK q \in Req : req' = [req EXCEPT ![p] = q] /\ AskedBy(p, q, held)
  <2>1. /\ Linked(p) \in SUBSET Accounts /\ \A b \in Linked(p) : p \in held[b]
        /\ \A a \in Accounts : link[a] = p => p \in held[a]
    BY DEF Linked, Frame, Owned
  <2>2. now \in 0..Grace /\ req \in [Profiles -> Req]
    BY DEF Frame, Typed
  <2>3. NoReq \in Req
    BY CreditAssumption DEF NoReq, Req, Grace
  <2>4. CASE AsksState(p)
    <3> DEFINE q == [step |-> "state", acc |-> Nobody, accs |-> Linked(p), at |-> now]
    <3>1. q \in Req
      BY <2>1, <2>2 DEF Req
    <3>2. req' = [req EXCEPT ![p] = q]
      BY <2>4 DEF AsksState, Asks
    <3> QED BY <2>1, <3>1, <3>2 DEF AskedBy
  <2>5. CASE \E a \in Accounts : AsksKnock(p, a)
    <3> PICK a \in Accounts : AsksKnock(p, a)
      BY <2>5
    <3> DEFINE q == [step |-> "knock", acc |-> a, accs |-> {}, at |-> now]
    <3>1. q \in Req
      BY <2>2 DEF Req
    <3>2. req' = [req EXCEPT ![p] = q] /\ now \in Event /\ link[a] = p
      BY DEF AsksKnock, Asks
    <3> QED BY <2>1, <3>1, <3>2 DEF AskedBy
  <2>6. CASE Opens(p)
    <3> DEFINE q == [req[p] EXCEPT !.step = "opens", !.accs = Linked(p) \cup {req[p].acc}, !.at = now]
    <3>1. req[p] \in Req /\ req[p].step = "knock" /\ now \in Event
      BY <2>2, <2>6 DEF Opens
    <3>2. req[p].acc \in Accounts /\ p \in held[req[p].acc]
      BY <3>1 DEF Frame, Asked, AskedBy
    <3>3. /\ q \in Req /\ q.step = "opens" /\ q.acc = req[p].acc /\ q.at = now
          /\ q.accs = Linked(p) \cup {req[p].acc}
      BY <2>1, <2>2, <3>1, <3>2 DEF Req
    <3>4. req' = [req EXCEPT ![p] = q]
      BY <2>6 DEF Opens
    <3> HIDE DEF q
    <3> QED BY <2>1, <3>1, <3>2, <3>3, <3>4 DEF AskedBy
  <2>7. CASE GivesUp(p)
    <3>1. req' = [req EXCEPT ![p] = NoReq] /\ NoReq.accs = {} /\ NoReq.step = "none"
      BY <2>7 DEF GivesUp, NoReq
    <3> QED BY <2>3, <3>1 DEF AskedBy
  <2> QED BY <2>4, <2>5, <2>6, <2>7
<1>3. req \in [Profiles -> Req]
  BY DEF Frame, Typed
<1>4. Asked'
  <2>1. \A x \in Profiles : req'[x] = IF x = p THEN q ELSE req[x]
    BY <1>2, <1>3
  <2> QED BY <1>1, <1>2, <2>1 DEF Frame, Asked
<1>5. Typed'
  BY <1>1, <1>2, <1>3 DEF Frame, Typed
<1>6. Owned' /\ Filed' /\ DaysKept' /\ NoNightForgotten' /\ Sound(ledger')
  BY <1>1 DEF Frame, Owned, Filed, DaysKept, NoNightForgotten, Visited
<1>7. Quiet
  BY <1>1 DEF Quiet
<1> QED BY <1>1, <1>4, <1>5, <1>6, <1>7 DEF Frame

\* Night falls, or somebody is seen playing.
LEMMA DayStep ==
    ASSUME Frame, NightFalls \/ \E a \in Accounts : Plays(a)
    PROVE  Frame' /\ Quiet /\ UNCHANGED <<delta, base, score, gained>>
<1>1. UNCHANGED <<link, held, fit, earn, ledger, tick, req, score, base, delta, gained>>
  BY DEF NightFalls, Plays
<1>2. /\ now' \in 1..Grace /\ now <= now' /\ deeds' \in 0..MaxDeeds
      /\ played' \in [Accounts -> SUBSET Event]
      /\ \A a \in Accounts : played[a] \subseteq played'[a]
      /\ \A a \in Accounts : \A d \in played'[a] \ played[a] : d = now /\ now' = now
  <2>1. now \in 1..Grace /\ Grace \in Nat /\ played \in [Accounts -> SUBSET Event]
    BY CreditAssumption DEF Frame, Typed, Grace
  <2>2. CASE NightFalls
    BY <2>1, <2>2 DEF NightFalls, Frame, Typed
  <2>3. CASE \E a \in Accounts : Plays(a)
    <3>1. PICK a \in Accounts : Plays(a)
      BY <2>3
    <3>2. played' = [played EXCEPT ![a] = played[a] \cup {now}] /\ now' = now /\ now \in Event
      BY <3>1 DEF Plays
    <3>3. deeds' \in 0..MaxDeeds
      BY <3>1, CreditAssumption DEF Plays, Deed, Frame, Typed
    <3> QED BY <2>1, <3>2, <3>3
  <2> QED BY <2>2, <2>3
<1>3. Typed'
  BY <1>1, <1>2 DEF Frame, Typed
<1>4. DaysKept'
  <2>1. \A a \in Accounts : played[a] \subseteq 1..now
    BY DEF Frame, DaysKept
  <2>2. now \in 1..Grace /\ now' \in 1..Grace
    BY <1>2 DEF Frame, Typed
  <2>3. \A a \in Accounts : played'[a] \subseteq 1..now'
    BY <1>2, <2>1, <2>2
  <2>4. \A a \in Accounts, n \in Event : Visited(a, n)' => n \in played'[a]
    BY <1>1, <1>2 DEF Frame, DaysKept, Visited
  <2> QED BY <2>3, <2>4 DEF DaysKept
<1>5. NoNightForgotten'
  <2> SUFFICES ASSUME NEW a \in Accounts, NEW n \in Event, Visited(a, n), NEW m \in played'[a], m < n
               PROVE  Visited(a, m)
    BY <1>1 DEF NoNightForgotten, Visited
  <2>1. n \in 1..now /\ now \in 1..Grace
    BY DEF Frame, DaysKept, Typed
  <2>2. m \in played[a]
    BY <1>2, <2>1
  <2> QED BY <2>2 DEF Frame, NoNightForgotten
<1>6. Owned' /\ Filed' /\ Asked' /\ Sound(ledger')
  BY <1>1 DEF Frame, Owned, Filed, Asked
<1>7. Quiet
  BY <1>1 DEF Quiet
<1> QED BY <1>1, <1>3, <1>4, <1>5, <1>6, <1>7 DEF Frame

\* A link is made; with credentials only by the one whose the account was before.
LEMMA LinkStep ==
    ASSUME Frame, NEW p \in Profiles, NEW a \in Accounts, NEW relink \in BOOLEAN, Links(p, a, relink)
    PROVE  Frame' /\ Quiet /\ UNCHANGED <<delta, base, score, gained>>
<1>1. /\ UNCHANGED <<now, played, fit, earn, ledger, tick, req, score, base, delta, gained>>
      /\ deeds' \in 0..MaxDeeds
      /\ held' = [held EXCEPT ![a] = held[a] \cup {p}]
      /\ Installed => held[a] \subseteq {p}
      /\ link' \in [Accounts -> Profiles \cup {Nobody}]
      /\ \A b \in Accounts : link'[b] = IF b = a THEN p ELSE IF relink /\ link[b] = p THEN Nobody ELSE link[b]
  BY CreditAssumption DEF Links, Deed, Frame, Typed
<1>2. /\ held' \in [Accounts -> SUBSET Profiles]
      /\ \A b \in Accounts : held'[b] = IF b = a THEN held[b] \cup {p} ELSE held[b]
  BY <1>1 DEF Frame, Typed
<1>3. Typed'
  BY <1>1, <1>2 DEF Frame, Typed
<1>4. Owned'
  BY <1>1, <1>2, CreditAssumption DEF Frame, Owned
<1>5. Asked'
  <2>1. req \in [Profiles -> Req]
    BY DEF Frame, Typed
  <2>2. \A q \in Profiles : AskedBy(q, req[q], held')
    <3> SUFFICES ASSUME NEW q \in Profiles PROVE AskedBy(q, req[q], held')
      OBVIOUS
    <3>1. AskedBy(q, req[q], held) /\ req[q] \in Req
      BY <2>1 DEF Frame, Asked
    <3> QED BY <1>2, <3>1 DEF AskedBy, Req
  <2> QED BY <1>1, <2>2 DEF Asked
<1>6. Filed' /\ DaysKept' /\ NoNightForgotten' /\ Sound(ledger')
  BY <1>1 DEF Frame, Filed, DaysKept, NoNightForgotten, Visited
<1>7. Quiet
  BY <1>1, <1>2 DEF Quiet
<1> QED BY <1>1, <1>3, <1>4, <1>5, <1>6, <1>7 DEF Frame

\* An account is given up; who it belonged to is kept.
LEMMA UnlinkStep ==
    ASSUME Frame, NEW p \in Profiles, NEW a \in Accounts, Unlinks(p, a)
    PROVE  Frame' /\ Quiet /\ UNCHANGED <<delta, base, score, gained>>
<1>1. /\ UNCHANGED <<now, held, played, fit, earn, ledger, tick, req, score, base, delta, gained>>
      /\ deeds' \in 0..MaxDeeds
      /\ link' \in [Accounts -> Profiles \cup {Nobody}]
      /\ \A b \in Accounts : link'[b] \in {link[b], Nobody}
  BY CreditAssumption DEF Unlinks, Deed, Frame, Typed
<1>2. Typed'
  BY <1>1 DEF Frame, Typed
<1>3. Owned'
  BY <1>1, CreditAssumption DEF Frame, Owned
<1>4. Asked'
  BY <1>1 DEF Frame, Asked
<1>5. Filed' /\ DaysKept' /\ NoNightForgotten' /\ Sound(ledger')
  BY <1>1 DEF Frame, Filed, DaysKept, NoNightForgotten, Visited
<1>6. Quiet
  BY <1>1 DEF Quiet
<1> QED BY <1>1, <1>2, <1>3, <1>4, <1>5, <1>6 DEF Frame

\* A turn-in, or a new term, in the mirror.
LEMMA LadderStep ==
    ASSUME Frame, NEW a \in Mirrored, NEW won \in Gains, TurnsIn(a, won) \/ TermEnds(a)
    PROVE  Frame' /\ Quiet
<1>1. /\ UNCHANGED <<now, link, held, played, fit, earn, ledger, tick, req, base, delta>>
      /\ deeds' \in 0..MaxDeeds
  BY CreditAssumption DEF TurnsIn, TermEnds, Deed, Frame, Typed
<1>2. /\ score \in [Accounts -> [Ladders -> Nat]] /\ gained \in [Accounts -> [Ladders -> Nat]]
      /\ won \in Nat /\ a \in Accounts
  BY CreditAssumption DEF Frame, Typed
<1>3. score' \in [Accounts -> [Ladders -> Nat]] /\ gained' \in [Accounts -> [Ladders -> Nat]]
  <2>1. CASE TurnsIn(a, won)
    BY <1>2, <2>1 DEF TurnsIn
  <2>2. CASE TermEnds(a)
    BY <1>2, <2>2 DEF TermEnds
  <2> QED BY <2>1, <2>2
<1>4. Typed'
  BY <1>1, <1>3 DEF Frame, Typed
<1>5. Owned' /\ Asked' /\ Filed' /\ DaysKept' /\ NoNightForgotten' /\ Sound(ledger')
  BY <1>1 DEF Frame, Owned, Asked, Filed, DaysKept, NoNightForgotten, Visited
<1>6. Quiet
  BY <1>1 DEF Quiet
<1> QED BY <1>4, <1>5, <1>6 DEF Frame

\* Each account of E that gets a visit gets one for every day it played before.
LEMMA VisitsKept ==
    ASSUME Frame, NEW A, A \in SUBSET Accounts, NEW today \in Int, Recorded(earn, A, today, earn'),
           UNCHANGED <<now, played>>
    PROVE  /\ Filed' /\ DaysKept' /\ NoNightForgotten'
           /\ earn \subseteq earn' /\ earn' \in SUBSET EarnRow /\ IsFiniteSet(earn')
           /\ \A e \in earn' \ earn : e.source \in {"visit", "landsraad"}
<1>1. /\ earn \subseteq earn' /\ earn' \in SUBSET EarnRow /\ IsFiniteSet(earn')
      /\ \A e \in earn' \ earn : /\ e.night \in played[e.acc] /\ e.night <= today
                               /\ e.source = "visit" /\ e.ref = <<"only", 0>>
      /\ \A e \in earn' \ earn : \A m \in played[e.acc] : m <= today => VisitedIn(earn', e.acc, m)
  BY DEF Recorded, Visit, Evidence
<1>2. Filed'
  BY <1>1 DEF Frame, Filed, FiledAs
<1>3. DaysKept'
  BY <1>1 DEF Frame, DaysKept, Visited
<1>4. NoNightForgotten'
  <2> SUFFICES ASSUME NEW a \in Accounts, NEW n \in Event, Visited(a, n)', NEW m \in played[a], m < n
               PROVE  VisitedIn(earn', a, m)
    BY DEF NoNightForgotten, Visited, VisitedIn
  <2>1. CASE Visited(a, n)
    <3>1. Visited(a, m)
      BY <2>1 DEF Frame, NoNightForgotten
    <3> QED BY <1>1, <3>1 DEF Visited, VisitedIn
  <2>2. CASE ~Visited(a, n)
    <3>1. PICK e \in earn' \ earn : e.acc = a /\ e.night = n
      BY <2>2 DEF Visited
    <3>2. m \in Int /\ n \in Int /\ n <= today
      BY <1>1, <3>1 DEF Frame, Typed, Event
    <3> QED BY <1>1, <3>1, <3>2
  <2> QED BY <2>1, <2>2
<1> QED BY <1>1, <1>2, <1>3, <1>4

\* An account's days are pulled.
LEMMA PullStep ==
    ASSUME Frame, NEW a \in Accounts, TickPulls(a)
    PROVE  Frame' /\ Quiet /\ UNCHANGED <<delta, base, score, gained>>
<1>1. /\ UNCHANGED <<now, link, held, played, ledger, tick, req, score, base, delta, gained, deeds>>
      /\ earn' = RecordLoginDays(earn, a, played[a], tick) /\ fit' = fit \cup ({a} \cap Veterans)
  BY DEF TickPulls
<1>2. Recorded(earn, {a}, tick, earn')
  <2>1. /\ tick \in Int /\ earn \in SUBSET EarnRow /\ IsFiniteSet(earn)
        /\ played \in [Accounts -> SUBSET Event]
    BY DEF Frame, Typed
  <2> QED BY <1>1, <2>1, RecordKeeps
<1>3. /\ Filed' /\ DaysKept' /\ NoNightForgotten'
      /\ earn \subseteq earn' /\ earn' \in SUBSET EarnRow /\ IsFiniteSet(earn')
      /\ \A e \in earn' \ earn : e.source \in {"visit", "landsraad"}
  <2>1. tick \in Int
    BY DEF Frame, Typed
  <2> QED BY <1>1, <1>2, <2>1, VisitsKept
<1>4. Typed'
  BY <1>1, <1>3 DEF Frame, Typed
<1>5. Owned' /\ Asked' /\ Sound(ledger')
  BY <1>1 DEF Frame, Owned, Asked
<1>6. Quiet
  BY <1>1, <1>3 DEF Quiet
<1> QED BY <1>1, <1>3, <1>4, <1>5, <1>6 DEF Frame

\* Everybody is paid, or the worker dies.
LEMMA CreditStep ==
    ASSUME Frame, TickCredits \/ TickDies
    PROVE  Frame' /\ Quiet /\ UNCHANGED <<delta, base, score, gained>>
<1>1. /\ UNCHANGED <<now, link, held, played, fit, earn, req, score, base, delta, gained, deeds>>
      /\ tick' = 0 /\ (ledger' = ledger \/ ledger' = CreditAll(ledger, earn, fit))
  BY DEF TickCredits, TickDies
<1>2. /\ Sound(ledger') /\ ledger \subseteq ledger'
      /\ \A r \in ledger' \ ledger : Earner(r, earn, fit, held)
  <2>1. CASE ledger' = ledger
    BY <2>1 DEF Frame
  <2>2. CASE ledger' = CreditAll(ledger, earn, fit)
    <3>1. PassAll(ledger, earn, fit, ledger')
      BY <2>2, AllKeeps DEF Frame, Typed
    <3>2. ASSUME NEW r \in ledger' \ ledger PROVE Earner(r, earn, fit, held)
      <4>1. /\ r.source = "streak" \/ \E e \in earn : e.acc \in Linked(r.who) /\ SameRef(e, r)
            /\ Linked(r.who) \cap fit # {} /\ r \in LedgerRow
        BY <3>1 DEF PassAll, Sound
      <4>2. \A a \in Linked(r.who) : r.who \in held[a]
        BY <4>1 DEF Linked, Frame, Owned, LedgerRow
      <4> QED BY <4>1, <4>2 DEF Earner
    <3> QED BY <3>1, <3>2 DEF PassAll
  <2> QED BY <1>1, <2>1, <2>2
<1>3. Typed'
  BY <1>1, CreditAssumption DEF Frame, Typed, Grace
<1>4. Owned' /\ Asked' /\ Filed' /\ DaysKept' /\ NoNightForgotten'
  BY <1>1 DEF Frame, Owned, Asked, Filed, DaysKept, NoNightForgotten, Visited
<1>5. Quiet
  BY <1>1, <1>2 DEF Quiet
<1> QED BY <1>1, <1>2, <1>3, <1>4, <1>5 DEF Frame

\* A page load folds what it read and pays its profile.
LEMMA FoldStep ==
    ASSUME Frame, NEW p \in Profiles, NEW read \in SUBSET Accounts, Folds(p, read)
    PROVE  Frame' /\ Quiet /\ UNCHANGED <<delta, base, score, gained>>
<1>1. /\ UNCHANGED <<now, link, held, played, tick, score, base, delta, gained, deeds>>
      /\ earn' = Recalls(earn, read, now) /\ fit' = fit \cup (read \cap Veterans)
      /\ ledger' = CreditProfile(ledger, earn', p, req[p].accs, fit')
      /\ req' = [req EXCEPT ![p] = NoReq]
  BY DEF Folds, Recalls
<1>2. /\ now \in Int /\ earn \in SUBSET EarnRow /\ IsFiniteSet(earn)
      /\ played \in [Accounts -> SUBSET Event]
  BY DEF Frame, Typed, Grace
<1>3. Recorded(earn, read, now, earn')
  BY <1>1, <1>2, RecallsKeep
<1>4. /\ Filed' /\ DaysKept' /\ NoNightForgotten'
      /\ earn \subseteq earn' /\ earn' \in SUBSET EarnRow /\ IsFiniteSet(earn')
      /\ \A e \in earn' \ earn : e.source \in {"visit", "landsraad"}
  BY <1>1, <1>2, <1>3, VisitsKept
<1>5. /\ Pass(ledger, earn', p, req[p].accs, ledger')
      /\ ledger' # ledger => req[p].accs \cap fit' # {}
  BY <1>1, <1>4, PassKeeps DEF Frame
<1>6. \A a \in req[p].accs : p \in held[a]
  BY DEF Frame, Asked, AskedBy
<1>7. \A r \in ledger' \ ledger : Earner(r, earn', fit', held')
  <2> SUFFICES ASSUME NEW r \in ledger' \ ledger PROVE Earner(r, earn', fit', held')
    OBVIOUS
  <2>1. PICK a \in fit' : a \in req[p].accs
    BY <1>5
  <2>2. r.who = p /\ (r.source = "streak" \/ \E e \in earn' : e.acc \in req[p].accs /\ SameRef(e, r))
    BY <1>5 DEF Pass
  <2>3. r.source # "streak" => \E e \in earn' : SameRef(e, r) /\ r.who \in held[e.acc]
    BY <1>6, <2>2
  <2> QED BY <1>1, <1>6, <2>1, <2>2, <2>3 DEF Earner
<1>8. req \in [Profiles -> Req] /\ NoReq \in Req /\ NoReq.accs = {} /\ NoReq.step = "none"
  BY CreditAssumption DEF Frame, Typed, NoReq, Req, Grace
<1>9. Typed'
  BY <1>1, <1>4, <1>8 DEF Frame, Typed
<1>10. Asked'
  <2>1. \A x \in Profiles : req'[x] = IF x = p THEN NoReq ELSE req[x]
    BY <1>1, <1>8
  <2> QED BY <1>1, <1>8, <2>1 DEF Frame, Asked, AskedBy
<1>11. Owned' /\ Sound(ledger')
  BY <1>1, <1>5 DEF Frame, Owned, Pass
<1>12. Quiet
  BY <1>1, <1>4, <1>5, <1>7 DEF Quiet, Pass
<1> QED BY <1>1, <1>4, <1>9, <1>10, <1>11, <1>12 DEF Frame

-----------------------------------------------------------------------------
(* Offerings                                                               *)

Bases  == [Ladders -> Nat \cup {NoBase}]
Scores == [Ladders -> Nat]

\* Any set of ladders is finite.
LEMMA LaddersFinite == \A S \in SUBSET Ladders : IsFiniteSet(S)
  BY CreditAssumption, FS_Subset

\* A reading finds no less than nothing.
LEMMA PendingType ==
    ASSUME NEW b \in Bases, NEW v \in Scores
    PROVE  \A l \in Ladders : /\ Pending(b, v)[l] \in Nat
                              /\ b[l] = NoBase => Pending(b, v)[l] = 0
                              /\ b[l] # NoBase => b[l] \in Nat /\
                                    Pending(b, v)[l] = IF v[l] > b[l] THEN v[l] - b[l] ELSE 0
<1> SUFFICES ASSUME NEW l \in Ladders
             PROVE  /\ Pending(b, v)[l] \in Nat
                    /\ b[l] = NoBase => Pending(b, v)[l] = 0
                    /\ b[l] # NoBase => b[l] \in Nat /\
                          Pending(b, v)[l] = IF v[l] > b[l] THEN v[l] - b[l] ELSE 0
  OBVIOUS
<1>1. b[l] \in Nat \cup {NoBase} /\ v[l] \in Nat
  BY DEF Bases, Scores
<1>2. Pending(b, v)[l] = IF b[l] # NoBase /\ v[l] > b[l] THEN v[l] - b[l] ELSE 0
  BY DEF Pending
<1> QED BY <1>1, <1>2

\* What a turn-in adds to a ladder that was read before, it adds to the gains.
LEMMA TurnInSums ==
    ASSUME NEW S \in SUBSET Ladders, NEW b \in Bases, NEW v \in Scores, NEW w \in Scores,
           NEW g \in Scores, NEW h \in Scores,
           \A l \in Ladders : /\ w[l] >= v[l]
                             /\ h[l] = g[l] + (IF b[l] # NoBase THEN w[l] - v[l] ELSE 0)
    PROVE  Total(Pending(b, w), S) + Total(g, S) <= Total(Pending(b, v), S) + Total(h, S)
<1> DEFINE e == Pending(b, w)
           f == Pending(b, v)
           x == [l \in Ladders |-> e[l] + g[l]]
           y == [l \in Ladders |-> f[l] + h[l]]
<1>1. \A l \in Ladders : e[l] \in Int /\ f[l] \in Int /\ g[l] \in Int /\ h[l] \in Int
  BY PendingType DEF Scores
<1>2. \A l \in Ladders : e[l] + g[l] <= f[l] + h[l]
  <2> SUFFICES ASSUME NEW l \in Ladders PROVE e[l] + g[l] <= f[l] + h[l]
    OBVIOUS
  <2>1. v[l] \in Nat /\ w[l] \in Nat /\ g[l] \in Nat /\ h[l] \in Nat
    BY DEF Scores
  <2>2. CASE b[l] = NoBase
    <3>1. e[l] = 0 /\ f[l] = 0
      BY <2>2, PendingType
    <3> HIDE DEF e, f
    <3> QED BY <2>1, <2>2, <3>1
  <2>3. CASE b[l] # NoBase
    <3>1. /\ b[l] \in Nat /\ e[l] = (IF w[l] > b[l] THEN w[l] - b[l] ELSE 0)
          /\ f[l] = (IF v[l] > b[l] THEN v[l] - b[l] ELSE 0)
      BY <2>3, PendingType
    <3> HIDE DEF e, f
    <3> QED BY <2>1, <2>3, <3>1
  <2> QED BY <2>2, <2>3
<1> HIDE DEF e, f
<1>3. IsFiniteSet(S)
  BY LaddersFinite
<1>4. /\ \A l \in S : x[l] \in Int /\ x[l] = e[l] + g[l]
      /\ \A l \in S : y[l] \in Int /\ y[l] = f[l] + h[l]
  BY <1>1
<1> HIDE DEF x, y
<1>5. Total(x, S) = Total(e, S) + Total(g, S)
  BY <1>1, <1>3, <1>4, TotalPlus
<1>6. Total(y, S) = Total(f, S) + Total(h, S)
  BY <1>1, <1>3, <1>4, TotalPlus
<1>7. Total(x, S) <= Total(y, S)
  <2>1. \A l \in S : x[l] <= y[l]
    BY <1>2, <1>4
  <2> QED BY <1>3, <1>4, <2>1, TotalLe
<1> QED BY <1>5, <1>6, <1>7 DEF e, f

\* A new term leaves nothing to be found.
LEMMA TermSums ==
    ASSUME NEW S \in SUBSET Ladders, NEW b \in Bases, NEW v \in Scores, NEW w \in Scores,
           \A l \in Ladders : w[l] = 0
    PROVE  Total(Pending(b, w), S) <= Total(Pending(b, v), S)
<1>1. \A l \in S : Pending(b, w)[l] \in Int /\ Pending(b, v)[l] \in Int /\ Pending(b, w)[l] <= Pending(b, v)[l]
  <2> SUFFICES ASSUME NEW l \in S
               PROVE  /\ Pending(b, w)[l] \in Int /\ Pending(b, v)[l] \in Int
                      /\ Pending(b, w)[l] <= Pending(b, v)[l]
    OBVIOUS
  <2>1. Pending(b, w)[l] = 0
    <3>1. w[l] = 0
      OBVIOUS
    <3> QED BY <3>1, PendingType
  <2>2. Pending(b, v)[l] \in Nat
    BY PendingType
  <2> QED BY <2>1, <2>2
<1>2. IsFiniteSet(S)
  BY LaddersFinite
<1> QED BY <1>1, <1>2, TotalLe

\* The base after a reading of the ladders shown.
Folding(b, v, shown) == [l \in Ladders |-> IF l \in shown THEN v[l] ELSE b[l]]

\* A reading takes what it finds, on the ladders it shows, and nothing else.
LEMMA ReadingSums ==
    ASSUME NEW S \in SUBSET Ladders, NEW b \in Bases, NEW v \in Scores, NEW shown \in SUBSET Ladders
    PROVE  /\ Folding(b, v, shown) \in Bases
           /\ Total(Pending(b, v), S)
                 = Total(Pending(Folding(b, v, shown), v), S) + Total(Pending(b, v), shown \cap S)
           /\ Total(Pending(b, v), shown \cap S) \in Nat
           /\ Total(Pending(Folding(b, v, shown), v), S) \in Nat
<1> DEFINE c == Folding(b, v, shown)
           e == Pending(c, v)
           f == Pending(b, v)
           T == shown \cap S
<1>1. c \in Bases /\ \A l \in Ladders : c[l] = IF l \in shown THEN v[l] ELSE b[l]
  BY DEF Bases, Scores, Folding
<1> HIDE DEF c
<1>2. /\ \A l \in Ladders : e[l] \in Nat /\ f[l] \in Nat
      /\ \A l \in Ladders : IF l \in shown THEN e[l] = 0 ELSE e[l] = f[l]
  <2>1. \A l \in Ladders : e[l] \in Nat /\ f[l] \in Nat
    BY <1>1, PendingType
  <2>2. \A l \in Ladders : /\ e[l] = IF c[l] # NoBase /\ v[l] > c[l] THEN v[l] - c[l] ELSE 0
                           /\ f[l] = IF b[l] # NoBase /\ v[l] > b[l] THEN v[l] - b[l] ELSE 0
    BY DEF Pending
  <2>3. \A l \in Ladders : v[l] \in Nat
    BY DEF Scores
  <2> QED BY <1>1, <2>1, <2>2, <2>3
<1> HIDE DEF e, f
<1>3. IsFiniteSet(S) /\ IsFiniteSet(T) /\ IsFiniteSet(S \ T) /\ T \in SUBSET S
  BY LaddersFinite
<1>4. /\ \A l \in S : e[l] \in Int /\ f[l] \in Int /\ e[l] \in Nat /\ f[l] \in Nat
      /\ \A l \in T : e[l] = 0
      /\ \A l \in S \ T : e[l] = f[l] /\ e[l] \in Int
  BY <1>2
<1> HIDE DEF T
<1>5. Total(e, S) = Total(e, T) + Total(e, S \ T) /\ Total(e, S \ T) \in Int
  BY <1>3, <1>4, TotalSplit
<1>6. Total(f, S) = Total(f, T) + Total(f, S \ T) /\ Total(f, T) \in Int
  BY <1>3, <1>4, TotalSplit
<1>7. Total(e, T) = 0
  BY <1>3, <1>4, TotalZero
<1>8. Total(e, S \ T) = Total(f, S \ T)
  BY <1>3, <1>4, TotalSame
<1>9. Total(f, T) \in Nat /\ Total(e, S) \in Nat
  BY <1>3, <1>4, TotalGrows
<1> QED BY <1>1, <1>5, <1>6, <1>7, <1>8, <1>9 DEF c, e, f, T

\* What a reading finds, as landsraad_observe adds it up.
LEMMA GainsAre ==
    ASSUME Typed, NEW a \in Accounts, NEW S \in SUBSET Ladders
    PROVE  MapThenSumSet(LAMBDA l : Gain(a, l), S) = Total(Pending(base[a], score[a]), S)
<1> DEFINE Eq(g) == g = [s \in SUBSET S |-> IF s = {} THEN 0
                            ELSE Gain(a, CHOOSE x \in s : TRUE) + g[s \ {CHOOSE x \in s : TRUE}]]
           c == CHOOSE g : Eq(g)
           f == Pending(base[a], score[a])
<1>1. S \subseteq Ladders /\ IsFiniteSet(S)
  BY LaddersFinite
<1>2. \A x \in S : f[x] \in Int /\ f[x] = Gain(a, x)
  <2>1. base[a] \in Bases /\ score[a] \in Scores
    BY DEF Typed, Bases, Scores
  <2>2. \A l \in Ladders : Pending(base[a], score[a])[l] = Gain(a, l)
    BY DEF Pending, Gain
  <2>3. \A l \in Ladders : Pending(base[a], score[a])[l] \in Nat
    BY <2>1, PendingType
  <2> QED BY <2>2, <2>3
<1> HIDE DEF f
<1>3. \A g : Eq(g) <=> g = [s \in SUBSET S |-> g[s]] /\ Sums(g, S, f)
  <2>1. \A s \in SUBSET S : s # {} => f[CHOOSE x \in s : TRUE] = Gain(a, CHOOSE x \in s : TRUE)
    BY <1>2
  <2> QED BY <2>1 DEF Sums, Pick
<1>4. PICK g : IsSum(g, S, f)
  BY <1>1, <1>2, TotalDef
<1>5. Eq(g)
  BY <1>3, <1>4 DEF IsSum
<1>6. Eq(c)
  <2> HIDE DEF Eq
  <2> QED BY <1>5
<1>7. MapThenSumSet(LAMBDA l : Gain(a, l), S) = c[S]
  BY DEF MapThenSumSet, MapThenFoldSet
<1> HIDE DEF c, Eq
<1>8. Sums(c, S, f)
  BY <1>3, <1>6
<1> QED BY <1>1, <1>2, <1>7, <1>8, TotalIs DEF f

\* The points an account was counted over all nights.
LEMMA PointsAre ==
    ASSUME Typed, NEW a \in Accounts
    PROVE  MapThenSumSet(LAMBDA n : delta[a][n].points, Event) = Total(PointsOf(delta[a]), Event)
<1> DEFINE Eq(g) == g = [s \in SUBSET Event |-> IF s = {} THEN 0
                            ELSE delta[a][CHOOSE x \in s : TRUE].points + g[s \ {CHOOSE x \in s : TRUE}]]
           c == CHOOSE g : Eq(g)
           f == PointsOf(delta[a])
<1>1. Event \subseteq Event /\ IsFiniteSet(Event)
  BY EventFinite
<1>2. \A x \in Event : f[x] \in Int /\ f[x] = delta[a][x].points
  BY DEF Typed, PointsOf
<1> HIDE DEF f
<1>3. \A g : Eq(g) <=> g = [s \in SUBSET Event |-> g[s]] /\ Sums(g, Event, f)
  <2>1. \A s \in SUBSET Event : s # {} => f[CHOOSE x \in s : TRUE] = delta[a][CHOOSE x \in s : TRUE].points
    BY <1>2
  <2> QED BY <2>1 DEF Sums, Pick
<1>4. PICK g : IsSum(g, Event, f)
  BY <1>1, <1>2, TotalDef
<1>5. Eq(g)
  BY <1>3, <1>4 DEF IsSum
<1>6. Eq(c)
  <2> HIDE DEF Eq
  <2> QED BY <1>5
<1>7. MapThenSumSet(LAMBDA n : delta[a][n].points, Event) = c[Event]
  BY DEF MapThenSumSet, MapThenFoldSet
<1> HIDE DEF c, Eq
<1>8. Sums(c, Event, f)
  BY <1>3, <1>6
<1> QED BY <1>1, <1>2, <1>7, <1>8, TotalIs DEF f

\* The turns an account was counted over all nights.
LEMMA TurnsAre ==
    ASSUME Typed, NEW a \in Accounts
    PROVE  MapThenSumSet(LAMBDA n : delta[a][n].turns, Event) = Total(TurnsOf(delta[a]), Event)
<1> DEFINE Eq(g) == g = [s \in SUBSET Event |-> IF s = {} THEN 0
                            ELSE delta[a][CHOOSE x \in s : TRUE].turns + g[s \ {CHOOSE x \in s : TRUE}]]
           c == CHOOSE g : Eq(g)
           f == TurnsOf(delta[a])
<1>1. Event \subseteq Event /\ IsFiniteSet(Event)
  BY EventFinite
<1>2. \A x \in Event : f[x] \in Int /\ f[x] = delta[a][x].turns
  BY DEF Typed, TurnsOf
<1> HIDE DEF f
<1>3. \A g : Eq(g) <=> g = [s \in SUBSET Event |-> g[s]] /\ Sums(g, Event, f)
  <2>1. \A s \in SUBSET Event : s # {} => f[CHOOSE x \in s : TRUE] = delta[a][CHOOSE x \in s : TRUE].turns
    BY <1>2
  <2> QED BY <2>1 DEF Sums, Pick
<1>4. PICK g : IsSum(g, Event, f)
  BY <1>1, <1>2, TotalDef
<1>5. Eq(g)
  BY <1>3, <1>4 DEF IsSum
<1>6. Eq(c)
  <2> HIDE DEF Eq
  <2> QED BY <1>5
<1>7. MapThenSumSet(LAMBDA n : delta[a][n].turns, Event) = c[Event]
  BY DEF MapThenSumSet, MapThenFoldSet
<1> HIDE DEF c, Eq
<1>8. Sums(c, Event, f)
  BY <1>3, <1>6
<1> QED BY <1>1, <1>2, <1>7, <1>8, TotalIs DEF f

Deltas == [Event -> [points : Nat, turns : Nat]]

\* The sums of the invariant are numbers.
LEMMA SumsInt ==
    /\ \A S \in SUBSET Ladders, v \in Scores : Total(v, S) \in Int
    /\ \A S \in SUBSET Ladders, b \in Bases, v \in Scores : Total(Pending(b, v), S) \in Nat
    /\ \A d \in Deltas : Total(PointsOf(d), Event) \in Int /\ Total(TurnsOf(d), Event) \in Int
    /\ Points \in SUBSET Ladders /\ Counts \in SUBSET Ladders
<1>1. ASSUME NEW S \in SUBSET Ladders, NEW v \in Scores PROVE Total(v, S) \in Int
  <2>1. IsFiniteSet(S) /\ \A l \in S : v[l] \in Int
    BY LaddersFinite DEF Scores
  <2> QED BY <2>1, TotalInt
<1>2. ASSUME NEW S \in SUBSET Ladders, NEW b \in Bases, NEW v \in Scores PROVE Total(Pending(b, v), S) \in Nat
  <2>1. IsFiniteSet(S) /\ \A l \in S : Pending(b, v)[l] \in Nat
    BY LaddersFinite, PendingType
  <2> QED BY <2>1, TotalGrows
<1>3. ASSUME NEW d \in Deltas PROVE Total(PointsOf(d), Event) \in Int /\ Total(TurnsOf(d), Event) \in Int
  <2>1. \A n \in Event : PointsOf(d)[n] \in Int /\ TurnsOf(d)[n] \in Int
    BY DEF PointsOf, TurnsOf, Deltas
  <2> QED BY <2>1, EventFinite, TotalInt
<1> QED BY <1>1, <1>2, <1>3 DEF Ladders

\* A turn-in, a new term and a reading keep the count behind the gains.
LEMMA KeptTurnIn ==
    ASSUME NEW d \in Deltas, NEW b \in Bases, NEW v \in Scores, NEW w \in Scores,
           NEW g \in Scores, NEW h \in Scores, Kept(d, b, v, g),
           \A l \in Ladders : /\ w[l] >= v[l]
                             /\ h[l] = g[l] + (IF b[l] # NoBase THEN w[l] - v[l] ELSE 0)
    PROVE  Kept(d, b, w, h)
<1>1. ASSUME NEW S \in SUBSET Ladders
      PROVE  Total(Pending(b, w), S) + Total(g, S) <= Total(Pending(b, v), S) + Total(h, S)
  BY TurnInSums
<1>2. \A S \in SUBSET Ladders : /\ Total(Pending(b, v), S) \in Nat /\ Total(Pending(b, w), S) \in Nat
                                /\ Total(g, S) \in Int /\ Total(h, S) \in Int
  BY SumsInt
<1>3. /\ Total(PointsOf(d), Event) \in Int /\ Total(TurnsOf(d), Event) \in Int
      /\ Points \in SUBSET Ladders /\ Counts \in SUBSET Ladders
  BY SumsInt
<1>4. ASSUME NEW x \in Int, NEW S \in SUBSET Ladders,
             x + Total(Pending(b, v), S) <= Total(g, S)
      PROVE  x + Total(Pending(b, w), S) <= Total(h, S)
  BY <1>1, <1>2, <1>4
<1> QED BY <1>3, <1>4 DEF Kept

\* The end of a term leaves the offerings backed.
LEMMA KeptTerm ==
    ASSUME NEW d \in Deltas, NEW b \in Bases, NEW v \in Scores, NEW w \in Scores,
           NEW g \in Scores, Kept(d, b, v, g), \A l \in Ladders : w[l] = 0
    PROVE  Kept(d, b, w, g)
<1>1. \A S \in SUBSET Ladders : Total(Pending(b, w), S) <= Total(Pending(b, v), S)
  BY TermSums
<1>2. \A S \in SUBSET Ladders : /\ Total(Pending(b, v), S) \in Nat /\ Total(Pending(b, w), S) \in Nat
                                /\ Total(g, S) \in Int
  BY SumsInt
<1>3. /\ Total(PointsOf(d), Event) \in Int /\ Total(TurnsOf(d), Event) \in Int
      /\ Points \in SUBSET Ladders /\ Counts \in SUBSET Ladders
  BY SumsInt
<1>4. ASSUME NEW x \in Int, NEW S \in SUBSET Ladders,
             x + Total(Pending(b, v), S) <= Total(g, S)
      PROVE  x + Total(Pending(b, w), S) <= Total(g, S)
  BY <1>1, <1>2, <1>4
<1> QED BY <1>3, <1>4 DEF Kept

\* So does a reading: what was pending is counted, and is pending no more.
LEMMA KeptReading ==
    ASSUME NEW d \in Deltas, NEW b \in Bases, NEW v \in Scores, NEW g \in Scores, Kept(d, b, v, g),
           NEW shown \in SUBSET Ladders, NEW n \in Event, NEW e \in Deltas,
           \A m \in Event \ {n} : e[m] = d[m],
           e[n].points = d[n].points + Total(Pending(b, v), shown \cap Points),
           e[n].turns = d[n].turns + Total(Pending(b, v), shown \cap Counts)
    PROVE  Kept(e, Folding(b, v, shown), v, g)
<1> DEFINE c == Folding(b, v, shown)
<1>1. /\ Total(PointsOf(d), Event) \in Int /\ Total(TurnsOf(d), Event) \in Int
      /\ Points \in SUBSET Ladders /\ Counts \in SUBSET Ladders
      /\ \A S \in SUBSET Ladders : Total(g, S) \in Int
  BY SumsInt
<1>2. /\ \A m \in Event : PointsOf(d)[m] = d[m].points /\ PointsOf(e)[m] = e[m].points
      /\ \A m \in Event : TurnsOf(d)[m] = d[m].turns /\ TurnsOf(e)[m] = e[m].turns
      /\ \A m \in Event : d[m].points \in Int /\ d[m].turns \in Int /\ e[m].points \in Int /\ e[m].turns \in Int
  BY DEF PointsOf, TurnsOf, Deltas
<1>3. Total(PointsOf(e), Event) = Total(PointsOf(d), Event) + PointsOf(e)[n] - PointsOf(d)[n]
  <2>1. /\ \A m \in Event : PointsOf(d)[m] \in Int
        /\ PointsOf(e)[n] \in Int /\ \A m \in Event \ {n} : PointsOf(e)[m] = PointsOf(d)[m]
    BY <1>2
  <2> QED BY <2>1, EventFinite, TotalChange
<1>4. Total(TurnsOf(e), Event) = Total(TurnsOf(d), Event) + TurnsOf(e)[n] - TurnsOf(d)[n]
  <2>1. /\ \A m \in Event : TurnsOf(d)[m] \in Int
        /\ TurnsOf(e)[n] \in Int /\ \A m \in Event \ {n} : TurnsOf(e)[m] = TurnsOf(d)[m]
    BY <1>2
  <2> QED BY <2>1, EventFinite, TotalChange
<1>5. \A S \in SUBSET Ladders :
         /\ Total(Pending(b, v), S) = Total(Pending(c, v), S) + Total(Pending(b, v), shown \cap S)
         /\ Total(Pending(b, v), shown \cap S) \in Nat /\ Total(Pending(c, v), S) \in Nat
  BY ReadingSums
<1> HIDE DEF c
<1>6. ASSUME NEW x \in Int, NEW S \in SUBSET Ladders, x + Total(Pending(b, v), S) <= Total(g, S)
      PROVE  x + Total(Pending(b, v), shown \cap S) + Total(Pending(c, v), S) <= Total(g, S)
  BY <1>1, <1>5, <1>6
<1>7. Total(PointsOf(e), Event) + Total(Pending(c, v), Points) <= Total(g, Points)
  <2>1. Total(PointsOf(d), Event) + Total(Pending(b, v), Points) <= Total(g, Points)
    BY DEF Kept
  <2>2. Total(Pending(b, v), shown \cap Points) \in Nat
    <3>1. Points \in SUBSET Ladders
      BY <1>1
    <3> QED BY <1>5, <3>1
  <2>3. PointsOf(e)[n] = PointsOf(d)[n] + Total(Pending(b, v), shown \cap Points) /\ PointsOf(d)[n] \in Int
    BY <1>2
  <2>4. Total(PointsOf(e), Event) = Total(PointsOf(d), Event) + Total(Pending(b, v), shown \cap Points)
    BY <1>1, <1>3, <2>2, <2>3
  <2> QED BY <1>1, <1>6, <2>1, <2>4
<1>8. Total(TurnsOf(e), Event) + Total(Pending(c, v), Counts) <= Total(g, Counts)
  <2>1. Total(TurnsOf(d), Event) + Total(Pending(b, v), Counts) <= Total(g, Counts)
    BY DEF Kept
  <2>2. Total(Pending(b, v), shown \cap Counts) \in Nat
    <3>1. Counts \in SUBSET Ladders
      BY <1>1
    <3> QED BY <1>5, <3>1
  <2>3. TurnsOf(e)[n] = TurnsOf(d)[n] + Total(Pending(b, v), shown \cap Counts) /\ TurnsOf(d)[n] \in Int
    BY <1>2
  <2>4. Total(TurnsOf(e), Event) = Total(TurnsOf(d), Event) + Total(Pending(b, v), shown \cap Counts)
    BY <1>1, <1>4, <2>2, <2>3
  <2> QED BY <1>1, <1>6, <2>1, <2>4
<1> QED BY <1>7, <1>8 DEF Kept, c

\* The ladders of the mirror move, and the count stays behind the gains.
LEMMA LadderOffers ==
    ASSUME Frame, Typed', OfferingsKept, NEW a \in Mirrored, NEW won \in Gains,
           TurnsIn(a, won) \/ TermEnds(a)
    PROVE  OfferingsKept'
<1>1. /\ UNCHANGED <<base, delta>> /\ a \in Accounts /\ won \in Nat
      /\ score \in [Accounts -> Scores] /\ gained \in [Accounts -> Scores]
      /\ score' \in [Accounts -> Scores] /\ gained' \in [Accounts -> Scores]
      /\ base \in [Accounts -> Bases] /\ delta \in [Accounts -> Deltas]
  BY CreditAssumption DEF TurnsIn, TermEnds, Frame, Typed, Scores, Bases, Deltas
<1>2. \A c \in Accounts \ {a} : score'[c] = score[c] /\ gained'[c] = gained[c]
  BY <1>1 DEF TurnsIn, TermEnds
<1>3. Kept(delta[a], base[a], score'[a], gained'[a])
  <2>1. Kept(delta[a], base[a], score[a], gained[a])
    BY <1>1 DEF OfferingsKept
  <2>2. /\ delta[a] \in Deltas /\ base[a] \in Bases /\ score[a] \in Scores /\ gained[a] \in Scores
        /\ score'[a] \in Scores /\ gained'[a] \in Scores
    BY <1>1
  <2>3. CASE TurnsIn(a, won)
    <3>1. \A l \in Ladders :
             /\ score'[a][l] = score[a][l] + (IF l \in Points THEN won ELSE 1)
             /\ gained'[a][l] = gained[a][l] + (IF base[a][l] # NoBase THEN IF l \in Points THEN won ELSE 1
                                                ELSE 0)
      BY <1>1, <2>3 DEF TurnsIn
    <3>2. \A l \in Ladders : score[a][l] \in Nat /\ gained[a][l] \in Nat
      BY <2>2 DEF Scores
    <3>3. \A l \in Ladders :
             /\ score'[a][l] >= score[a][l]
             /\ gained'[a][l] = gained[a][l] + (IF base[a][l] # NoBase THEN score'[a][l] - score[a][l] ELSE 0)
      BY <1>1, <3>1, <3>2
    <3> QED BY <2>1, <2>2, <3>3, KeptTurnIn
  <2>4. CASE TermEnds(a)
    <3>1. gained'[a] = gained[a] /\ \A l \in Ladders : score'[a][l] = 0
      BY <1>1, <2>4 DEF TermEnds
    <3> QED BY <2>1, <2>2, <3>1, KeptTerm
  <2> QED BY <2>3, <2>4
<1>4. \A c \in Accounts : Kept(delta[c], base[c], score'[c], gained'[c])
  <2> SUFFICES ASSUME NEW c \in Accounts, c # a PROVE Kept(delta[c], base[c], score'[c], gained'[c])
    BY <1>3
  <2> QED BY <1>2 DEF OfferingsKept
<1> QED BY <1>1, <1>4 DEF OfferingsKept

\* The rungs an account has won are so many rows, named in their own way.
LEMMA OfferedType ==
    ASSUME NEW a \in Accounts, NEW n \in Event, NEW d \in [points : Nat, turns : Nat]
    PROVE  /\ Offered(a, n, d) \in SUBSET EarnRow /\ IsFiniteSet(Offered(a, n, d))
           /\ \A e \in Offered(a, n, d) : e.source = "landsraad" /\ e.ref[1] = "t"
<1> DEFINE byPoints == Cardinality({k \in 0..3 : d.points > 0 /\ d.points >= k * Threshold})
           K == 1..RungsWon(n, d)
           f == [i \in K |-> Evidence(a, n, "landsraad", <<"t", i>>, RefAward)]
<1>1. byPoints \in Nat
  <2>1. IsFiniteSet(0..3)
    <3>1. 0 \in Int /\ 3 \in Int
      OBVIOUS
    <3> QED BY <3>1, FS_Interval
  <2>2. IsFiniteSet({k \in 0..3 : d.points > 0 /\ d.points >= k * Threshold})
    BY <2>1, FS_Subset
  <2> QED BY <2>2, FS_CardinalityType
<1>2. d.turns \in Int /\ Rungs(n) \in Int
  BY DEF Rungs
<1> HIDE DEF byPoints
<1>3. Max({byPoints, d.turns}) \in Int
  BY <1>1, <1>2, MinMaxOfTwo
<1>4. RungsWon(n, d) \in Int
  <2>1. RungsWon(n, d) = Min({Rungs(n), Max({byPoints, d.turns})})
    BY DEF RungsWon, byPoints
  <2> QED BY <1>2, <1>3, <2>1, MinMaxOfTwo
<1>5. IsFiniteSet(K) /\ \A i \in K : i \in Nat
  <2>1. IsFiniteSet(1..RungsWon(n, d))
    BY <1>4, FS_Interval
  <2> QED BY <1>4, <2>1
<1> HIDE DEF K
<1>6. /\ f \in Surjection(K, Offered(a, n, d))
      /\ \A e \in Offered(a, n, d) : \E i \in K : e = Evidence(a, n, "landsraad", <<"t", i>>, RefAward)
  BY DEF Surjection, Offered, K
<1> HIDE DEF f
<1>7. IsFiniteSet(Offered(a, n, d))
  BY <1>5, <1>6, FS_Surjection
<1>8. ASSUME NEW i \in K
      PROVE  LET e == Evidence(a, n, "landsraad", <<"t", i>>, RefAward)
             IN  e \in EarnRow /\ e.source = "landsraad" /\ e.ref[1] = "t"
  <2>1. RefAward \in Nat \ {0}
    BY CreditAssumption
  <2>2. <<"t", i>> \in RefNames \X Nat
    BY <1>5 DEF RefNames
  <2> QED BY <2>1, <2>2 DEF Evidence, EarnRow, Sources
<1> QED BY <1>6, <1>7, <1>8

\* The tick begins: it folds the readings of the rows that are fresh.
LEMMA TickStep ==
    ASSUME Frame, OfferingsKept, NEW R \in Readings, TickStarts(R)
    PROVE  Frame' /\ Quiet /\ OfferingsKept'
<1> DEFINE fresh == {a \in Mirrored : R[a] # {}}
           won(a) == Folded(a, now, R[a])
           es == UNION {Offered(a, now, won(a)) : a \in fresh}
<1>1. /\ UNCHANGED <<now, link, held, played, ledger, req, score, gained, deeds>> /\ tick' = now
      /\ now \in Event => /\ earn' = AddEarn(earn, es)
                          /\ delta' = [a \in Accounts |-> IF a \in fresh
                                                          THEN [delta[a] EXCEPT ![now] = won(a)] ELSE delta[a]]
                          /\ base' = [a \in Accounts |-> [l \in Ladders |-> IF a \in fresh /\ l \in R[a]
                                                                           THEN score[a][l] ELSE base[a][l]]]
                          /\ fit' = fit \cup (fresh \cap Veterans)
      /\ now \notin Event => UNCHANGED <<earn, delta, base, fit>>
  BY DEF TickStarts
<1>2. /\ fresh \in SUBSET Accounts /\ IsFiniteSet(fresh)
      /\ \A a \in fresh : R[a] \in SUBSET Ladders
  <2>1. fresh \in SUBSET Accounts
    BY CreditAssumption
  <2>2. IsFiniteSet(fresh)
    BY <2>1, CreditAssumption, FS_Subset
  <2> QED BY <2>1, <2>2 DEF Readings
<1>3. /\ score \in [Accounts -> Scores] /\ gained \in [Accounts -> Scores]
      /\ base \in [Accounts -> Bases] /\ delta \in [Accounts -> Deltas]
      /\ earn \in SUBSET EarnRow /\ IsFiniteSet(earn)
  BY DEF Frame, Typed, Scores, Bases, Deltas
<1>4. ASSUME NEW a \in fresh, now \in Event
      PROVE  /\ won(a) \in [points : Nat, turns : Nat]
             /\ won(a).points = delta[a][now].points + Total(Pending(base[a], score[a]), R[a] \cap Points)
             /\ won(a).turns = delta[a][now].turns + Total(Pending(base[a], score[a]), R[a] \cap Counts)
  <2>1. a \in Accounts /\ R[a] \cap Points \in SUBSET Ladders /\ R[a] \cap Counts \in SUBSET Ladders
    BY <1>2
  <2>2. /\ MapThenSumSet(LAMBDA l : Gain(a, l), R[a] \cap Points)
              = Total(Pending(base[a], score[a]), R[a] \cap Points)
        /\ MapThenSumSet(LAMBDA l : Gain(a, l), R[a] \cap Counts)
              = Total(Pending(base[a], score[a]), R[a] \cap Counts)
    BY <2>1, GainsAre DEF Frame
  <2>3. /\ Total(Pending(base[a], score[a]), R[a] \cap Points) \in Nat
        /\ Total(Pending(base[a], score[a]), R[a] \cap Counts) \in Nat
    BY <1>3, <2>1, SumsInt
  <2>4. delta[a][now].points \in Nat /\ delta[a][now].turns \in Nat
    BY <1>3, <1>4, <2>1 DEF Deltas
  <2>5. won(a) = [points |-> delta[a][now].points + Total(Pending(base[a], score[a]), R[a] \cap Points),
                  turns |-> delta[a][now].turns + Total(Pending(base[a], score[a]), R[a] \cap Counts)]
    BY <2>2 DEF Folded
  <2> QED BY <2>3, <2>4, <2>5
<1>5. /\ earn \subseteq earn' /\ earn' \in SUBSET EarnRow /\ IsFiniteSet(earn')
      /\ \A e \in earn' \ earn : e.source = "landsraad" /\ e.ref[1] = "t"
  <2>1. CASE now \in Event
    <3>1. \A a \in fresh : /\ Offered(a, now, won(a)) \in SUBSET EarnRow /\ IsFiniteSet(Offered(a, now, won(a)))
                           /\ \A e \in Offered(a, now, won(a)) : e.source = "landsraad" /\ e.ref[1] = "t"
      BY <1>2, <1>4, <2>1, OfferedType
    <3> DEFINE os == {Offered(a, now, won(a)) : a \in fresh}
               f == [a \in fresh |-> Offered(a, now, won(a))]
    <3>2. f \in Surjection(fresh, os)
      BY DEF Surjection
    <3> HIDE DEF f
    <3>3. IsFiniteSet(os)
      BY <1>2, <3>2, FS_Surjection
    <3>4. \A T \in os : IsFiniteSet(T)
      BY <3>1
    <3>5. IsFiniteSet(es)
      <4> HIDE DEF os
      <4>1. IsFiniteSet(UNION os)
        BY <3>3, <3>4, FS_UNION
      <4> QED BY <4>1 DEF os
    <3>6. es \in SUBSET EarnRow /\ \A e \in es : e.source = "landsraad" /\ e.ref[1] = "t"
      BY <3>1
    <3> HIDE DEF es
    <3> QED BY <1>1, <1>3, <2>1, <3>5, <3>6, AddEarnKeeps
  <2>2. CASE now \notin Event
    BY <1>1, <1>3, <2>2
  <2> QED BY <2>1, <2>2
<1>6. delta' \in [Accounts -> Deltas] /\ base' \in [Accounts -> Bases] /\ OfferingsKept'
  <2>1. CASE now \in Event
    <3>1. ASSUME NEW a \in Accounts
          PROVE  delta'[a] \in Deltas /\ base'[a] \in Bases /\ Kept(delta'[a], base'[a], score[a], gained[a])
      <4>1. /\ delta[a] \in Deltas /\ base[a] \in Bases /\ score[a] \in Scores /\ gained[a] \in Scores
            /\ Kept(delta[a], base[a], score[a], gained[a])
        BY <1>3 DEF OfferingsKept
      <4>2. CASE a \in fresh
        <5>1. base'[a] = Folding(base[a], score[a], R[a])
          BY <1>1, <2>1, <4>2 DEF Folding
        <5>2. base'[a] \in Bases
          BY <1>2, <4>1, <4>2, <5>1, ReadingSums
        <5>3. delta'[a] = [delta[a] EXCEPT ![now] = won(a)]
          BY <1>1, <2>1, <4>2
        <5>4. won(a) \in [points : Nat, turns : Nat]
          BY <1>4, <2>1, <4>2
        <5>5. /\ delta'[a] \in Deltas /\ delta'[a][now] = won(a)
              /\ \A m \in Event \ {now} : delta'[a][m] = delta[a][m]
          <6> HIDE DEF won
          <6> QED BY <2>1, <4>1, <5>3, <5>4 DEF Deltas
        <5>6. /\ delta'[a][now].points
                    = delta[a][now].points + Total(Pending(base[a], score[a]), R[a] \cap Points)
              /\ delta'[a][now].turns
                    = delta[a][now].turns + Total(Pending(base[a], score[a]), R[a] \cap Counts)
          BY <1>4, <2>1, <4>2, <5>5
        <5>7. Kept(delta'[a], Folding(base[a], score[a], R[a]), score[a], gained[a])
          BY <1>2, <2>1, <4>1, <4>2, <5>5, <5>6, KeptReading
        <5> QED BY <5>1, <5>2, <5>5, <5>7
      <4>3. CASE a \notin fresh
        <5>1. delta'[a] = delta[a]
          BY <1>1, <2>1, <4>3
        <5>2. base'[a] = base[a]
          <6>1. base'[a] = [l \in Ladders |-> base[a][l]]
            BY <1>1, <2>1, <4>3
          <6> QED BY <4>1, <6>1 DEF Bases
        <5> QED BY <4>1, <5>1, <5>2
      <4> QED BY <4>2, <4>3
    <3>2. (\E f : delta' = [a \in Accounts |-> f[a]]) /\ (\E f : base' = [a \in Accounts |-> f[a]])
      <4>1. delta' = [a \in Accounts |-> delta'[a]]
        BY <1>1, <2>1
      <4>2. base' = [a \in Accounts |-> base'[a]]
        BY <1>1, <2>1
      <4> QED BY <4>1, <4>2
    <3> QED BY <1>1, <3>1, <3>2 DEF OfferingsKept
  <2>2. CASE now \notin Event
    BY <1>1, <1>3, <2>2 DEF OfferingsKept
  <2> QED BY <2>1, <2>2
<1>7. fit \subseteq fit' /\ fit' \subseteq Veterans
  BY <1>1 DEF Frame, Typed
<1> HIDE DEF fresh, won, es
<1>8. Typed'
  BY <1>1, <1>5, <1>6, <1>7 DEF Frame, Typed, Deltas, Bases
<1>9. DaysKept' /\ NoNightForgotten'
  <2>1. \A c \in Accounts, n \in Event : Visited(c, n)' <=> Visited(c, n)
    BY <1>5 DEF Visited
  <2>2. \A c \in Accounts : played[c] \in SUBSET Event
    BY DEF Frame, Typed
  <2>3. DaysKept'
    BY <1>1, <2>1 DEF Frame, DaysKept
  <2>4. NoNightForgotten'
    BY <1>1, <2>1, <2>2 DEF Frame, NoNightForgotten
  <2> QED BY <2>3, <2>4
<1>10. Owned' /\ Asked' /\ Filed' /\ Sound(ledger')
  BY <1>1, <1>5 DEF Frame, Owned, Asked, Filed, FiledAs
<1>11. Quiet
  BY <1>1, <1>5, <1>7 DEF Quiet
<1> QED BY <1>6, <1>8, <1>9, <1>10, <1>11 DEF Frame

-----------------------------------------------------------------------------
(* The knock that hits                                                     *)

\* No current clue means that every clue of the night has its row.
LEMMA NoClueLeft ==
    ASSUME NEW L, NEW p, NEW n, CurrentClue(L, p, n) = {},
           NEW t \in Spots, t.kind = "clue", t.night = n
    PROVE  \E r \in L : r.who = p /\ r.night = n /\ r.ref = <<t.id, 0>>
<1> DEFINE left == {s \in Spots : s.night = n /\ s.kind = "clue" /\ ~\E r \in L :
                       r.who = p /\ r.night = n /\ r.source \in {"knock", "activity"} /\ r.ref = <<s.id, 0>>}
           seqs == {s.seq : s \in left}
<1>1. CurrentClue(L, p, n) = {s \in left : \A u \in left : s.seq <= u.seq}
  BY DEF CurrentClue
<1>2. CASE left = {}
  BY <1>2
<1>3. CASE left # {}
  <2>1. left \subseteq Spots
    OBVIOUS
  <2> HIDE DEF left
  <2>2. seqs \in SUBSET Nat /\ seqs # {}
    BY <1>3, <2>1, SpotAssumption
  <2>3. PICK x \in seqs : \A y \in seqs : x <= y
    BY <2>2, LeastOf
  <2>4. PICK s \in left : s.seq = x
    OBVIOUS
  <2>5. \A u \in left : s.seq <= u.seq
    BY <2>3, <2>4
  <2> QED BY <1>1, <2>4, <2>5
<1> QED BY <1>2, <1>3

\* A clue that is open has every clue before it behind it.
LEMMA CluesBefore ==
    ASSUME NEW L, NEW p, NEW s \in Spots, s \in CurrentClue(L, p, s.night),
           NEW t \in Spots, t.kind = "clue", t.night = s.night, t.seq < s.seq
    PROVE  \E r \in L : r.who = p /\ r.night = s.night /\ r.ref = <<t.id, 0>>
<1>1. s.seq \in Nat /\ t.seq \in Nat
  BY SpotAssumption
<1>2. ~(s.seq <= t.seq)
  BY <1>1
<1> QED BY <1>2 DEF CurrentClue

\* What a knock notes: the spot, the bonus of the first, the trail after the last clue.
NotedFor(e, s, first, last) ==
    /\ e.night = s.night
    /\ \/ s.kind = "porch" /\ e.source = "knock" /\ e.ref = <<s.id, 0>>
       \/ s.kind # "porch" /\ e.source = "activity" /\ e.ref = <<s.id, 0>>
       \/ first /\ e.source = "activity" /\ e.ref = <<s.id, 1>>
       \/ last /\ e.source = "activity" /\ e.ref = <<"trail", 0>>

\* What a hit by p, for the account a and with the accounts accs, makes of the books.
HitBooks(p, s, a, accs, first, last) ==
    /\ earn \subseteq earn' /\ earn' \in SUBSET EarnRow /\ IsFiniteSet(earn')
    /\ \A e \in earn' \ earn : e.acc = a /\ NotedFor(e, s, first, last)
    /\ \E e \in earn' : e.acc = a /\ e.night = s.night /\ e.source = SourceOf(s) /\ e.ref = <<s.id, 0>>
    /\ Sound(ledger') /\ ledger \subseteq ledger'
    /\ \A r \in ledger' \ ledger :
          r.who = p /\ (r.source = "streak" \/ \E e \in earn' : e.acc \in accs /\ SameRef(e, r))
    /\ \A e \in earn' : e.acc \in accs => Paid(ledger', p, e)
    /\ last => \A t \in Spots : t.kind = "clue" /\ t.night = s.night =>
                  \E r \in ledger' : r.who = p /\ r.night = s.night /\ r.ref = <<t.id, 0>>

\* record_find: evidence and credit for the spot, then for the trail.
LEMMA HitDoes ==
    ASSUME Frame, NEW p \in Profiles, NEW s \in Spots, Hits(p, s)
    PROVE  /\ \E last \in BOOLEAN : HitBooks(p, s, req[p].acc, req[p].accs, First(s), last)
           /\ req[p].step = "opens" /\ req[p].accs \cap fit # {} /\ Open(p, s.night, s)
           /\ req' = [req EXCEPT ![p] = NoReq]
           /\ UNCHANGED <<now, link, held, played, fit, tick, score, base, delta, gained, deeds>>
<1> DEFINE n == req[p].at
           a == req[p].acc
           accs == req[p].accs
           spot == Evidence(a, n, SourceOf(s), <<s.id, 0>>, s.award)
           bonus == Evidence(a, n, "activity", <<s.id, 1>>, s.bonus)
           trail == Evidence(a, n, "activity", <<"trail", 0>>, TrailAward)
           new == {spot} \cup IF First(s) THEN {bonus} ELSE {}
           E == AddEarn(earn, new)
           L == CreditProfile(ledger, E, p, accs, fit)
           last == s.kind = "clue" /\ CurrentClue(L, p, n) = {}
           T == IF last THEN AddEarn(E, {trail}) ELSE E
<1>1. /\ req[p].step = "opens" /\ accs \cap fit # {} /\ Open(p, n, s)
      /\ earn' = T /\ ledger' = IF last THEN CreditProfile(L, T, p, accs, fit) ELSE L
      /\ req' = [req EXCEPT ![p] = NoReq]
      /\ UNCHANGED <<now, link, held, played, fit, tick, score, base, delta, gained, deeds>>
  BY DEF Hits
<1>2. n \in Event /\ a \in Accounts /\ a \in accs /\ s.night = n
  BY <1>1 DEF Frame, Asked, AskedBy, Open
<1>3. /\ spot \in EarnRow /\ spot.acc = a /\ spot.night = n /\ spot.source = SourceOf(s) /\ spot.ref = <<s.id, 0>>
      /\ trail \in EarnRow /\ trail.acc = a /\ trail.night = n /\ trail.source = "activity"
      /\ trail.ref = <<"trail", 0>>
      /\ First(s) => bonus \in EarnRow /\ bonus.acc = a /\ bonus.night = n /\ bonus.source = "activity"
                     /\ bonus.ref = <<s.id, 1>>
  <2>1. <<s.id, 0>> \in RefNames \X Nat /\ <<s.id, 1>> \in RefNames \X Nat /\ <<"trail", 0>> \in RefNames \X Nat
    BY DEF RefNames
  <2>2. s.award \in Nat \ {0} /\ TrailAward \in Nat \ {0} /\ s.bonus \in Nat
    BY SpotAssumption, CreditAssumption
  <2>3. First(s) => s.bonus \in Nat \ {0}
    BY <2>2 DEF First
  <2>4. SourceOf(s) \in Sources \ {"streak"} /\ "activity" \in Sources \ {"streak"}
    BY DEF SourceOf, Sources
  <2> QED BY <1>2, <2>1, <2>2, <2>3, <2>4 DEF Evidence, EarnRow
<1> HIDE DEF n, a, accs, spot, bonus, trail
<1>4. new \in SUBSET EarnRow /\ IsFiniteSet(new)
  <2>1. IsFiniteSet({spot}) /\ IsFiniteSet({bonus}) /\ IsFiniteSet({})
    BY FS_Singleton, FS_EmptySet
  <2>2. IsFiniteSet(new)
    BY <2>1, FS_Union
  <2> QED BY <1>3, <2>2
<1>5. earn \in SUBSET EarnRow /\ IsFiniteSet(earn) /\ Sound(ledger)
  BY DEF Frame, Typed
<1>6. spot \in new /\ \A e \in new : e = spot \/ (First(s) /\ e = bonus)
  OBVIOUS
<1> HIDE DEF new
<1>7. /\ E \in SUBSET EarnRow /\ IsFiniteSet(E) /\ earn \subseteq E /\ E \subseteq earn \cup new
      /\ \E x \in E : x.acc = a /\ SameRef(x, spot)
  <2> HIDE DEF E
  <2>1. /\ E \in SUBSET EarnRow /\ IsFiniteSet(E) /\ earn \subseteq E /\ E \subseteq earn \cup new
        /\ \A e \in new : \E x \in E : x.acc = e.acc /\ SameRef(x, e)
    BY <1>4, <1>5, AddEarnKeeps DEF E
  <2> QED BY <1>3, <1>6, <2>1
<1> HIDE DEF E
<1>8. Pass(ledger, E, p, accs, L) /\ \A e \in E : e.acc \in accs => Paid(L, p, e)
  BY <1>1, <1>5, <1>7, PassKeeps
<1> HIDE DEF L
<1>9. Sound(L)
  BY <1>8 DEF Pass
<1>10. /\ T \in SUBSET EarnRow /\ IsFiniteSet(T) /\ E \subseteq T /\ T \subseteq E \cup {trail}
       /\ ~last => T = E
  <2> DEFINE one == {trail}
             A == AddEarn(E, one)
  <2>1. one \in SUBSET EarnRow /\ IsFiniteSet(one)
    BY <1>3, FS_Singleton
  <2>2. T = IF last THEN A ELSE E
    OBVIOUS
  <2> HIDE DEF one, T, last
  <2>3. A \in SUBSET EarnRow /\ IsFiniteSet(A) /\ E \subseteq A /\ A \subseteq E \cup one
    BY <1>7, <2>1, AddEarnKeeps
  <2> HIDE DEF A
  <2> QED BY <1>7, <2>2, <2>3 DEF one
<1>11. /\ last \in BOOLEAN
       /\ last => s.kind = "clue" /\ CurrentClue(L, p, n) = {}
  OBVIOUS
<1> HIDE DEF T, last
<1>12. /\ Sound(ledger') /\ L \subseteq ledger'
       /\ \A r \in ledger' \ L : r.who = p /\ (r.source = "streak" \/ \E e \in T : e.acc \in accs /\ SameRef(e, r))
       /\ \A e \in T : e.acc \in accs => Paid(ledger', p, e)
  <2>1. CASE last
    <3>1. ledger' = CreditProfile(L, T, p, accs, fit)
      BY <1>1, <2>1
    <3>2. Pass(L, T, p, accs, ledger') /\ \A e \in T : e.acc \in accs => Paid(ledger', p, e)
      BY <1>1, <1>9, <1>10, <3>1, PassKeeps
    <3> QED BY <3>2 DEF Pass
  <2>2. CASE ~last
    <3>1. ledger' = L /\ T = E
      BY <1>1, <1>10, <2>2
    <3> QED BY <1>8, <1>9, <3>1
  <2> QED BY <2>1, <2>2
<1>13. \A e \in T \ earn : e.acc = a /\ NotedFor(e, s, First(s), last)
  <2> SUFFICES ASSUME NEW e \in T \ earn PROVE e.acc = a /\ NotedFor(e, s, First(s), last)
    OBVIOUS
  <2>1. e = spot \/ (First(s) /\ e = bonus) \/ (last /\ e = trail)
    BY <1>7, <1>10, <1>6
  <2>2. s.kind \in {"porch", "clue", "seek"}
    BY SpotAssumption
  <2> QED BY <1>2, <1>3, <2>1, <2>2 DEF NotedFor, SourceOf
<1>14. \E e \in T : e.acc = a /\ e.night = s.night /\ e.source = SourceOf(s) /\ e.ref = <<s.id, 0>>
  BY <1>2, <1>3, <1>7, <1>10 DEF SameRef
<1>15. /\ ledger \subseteq ledger'
       /\ \A r \in ledger' \ ledger :
             r.who = p /\ (r.source = "streak" \/ \E e \in T : e.acc \in accs /\ SameRef(e, r))
  BY <1>8, <1>10, <1>12 DEF Pass
<1>16. last => \A t \in Spots : t.kind = "clue" /\ t.night = s.night =>
          \E r \in ledger' : r.who = p /\ r.night = s.night /\ r.ref = <<t.id, 0>>
  <2> SUFFICES ASSUME last, NEW t \in Spots, t.kind = "clue", t.night = s.night
               PROVE  \E r \in ledger' : r.who = p /\ r.night = s.night /\ r.ref = <<t.id, 0>>
    OBVIOUS
  <2>1. \E r \in L : r.who = p /\ r.night = n /\ r.ref = <<t.id, 0>>
    BY <1>2, <1>11, NoClueLeft
  <2> QED BY <1>2, <1>12, <2>1
<1>17. HitBooks(p, s, a, accs, First(s), last)
  BY <1>1, <1>5, <1>7, <1>10, <1>12, <1>13, <1>14, <1>15, <1>16 DEF HitBooks
<1>18. \E l \in BOOLEAN : HitBooks(p, s, a, accs, First(s), l)
  BY <1>11, <1>17
<1> QED BY <1>1, <1>2, <1>18 DEF a, accs, n

\* A knock that hits keeps the invariant.
LEMMA HitStep ==
    ASSUME Frame, Backed, FindsPaid, TrailKept, FirstFinders,
           NEW p \in Profiles, NEW s \in Spots, Hits(p, s)
    PROVE  /\ Frame' /\ Backed' /\ FindsPaid' /\ TrailKept' /\ FirstFinders'
           /\ ledger \subseteq ledger' /\ UNCHANGED <<delta, base, score, gained>>
<1> DEFINE a == req[p].acc
           accs == req[p].accs
           n == s.night
<1>1. PICK last \in BOOLEAN : HitBooks(p, s, a, accs, First(s), last)
  BY HitDoes
<1>2. /\ accs \cap fit # {} /\ Open(p, n, s) /\ req' = [req EXCEPT ![p] = NoReq] /\ req[p].step = "opens"
      /\ UNCHANGED <<now, link, held, played, fit, tick, score, base, delta, gained, deeds>>
  BY HitDoes
<1>3. /\ a \in Accounts /\ a \in accs /\ p \in held[a] /\ \A b \in accs : p \in held[b] /\ b \in Accounts
      /\ n \in Event
  BY <1>2, SpotAssumption DEF Frame, Asked, AskedBy, Typed, Req
<1> HIDE DEF a, accs
<1>4. /\ earn \subseteq earn' /\ earn' \in SUBSET EarnRow /\ IsFiniteSet(earn')
      /\ \A e \in earn' \ earn : e.acc = a /\ NotedFor(e, s, First(s), last)
      /\ Sound(ledger') /\ ledger \subseteq ledger'
      /\ \A r \in ledger' \ ledger :
            r.who = p /\ (r.source = "streak" \/ \E e \in earn' : e.acc \in accs /\ SameRef(e, r))
      /\ \A e \in earn' : e.acc \in accs => Paid(ledger', p, e)
  BY <1>1 DEF HitBooks
<1>5. Filed'
  <2>1. \A e \in earn' \ earn : FiledAs(e)
    BY <1>4 DEF NotedFor, FiledAs
  <2> QED BY <2>1 DEF Frame, Filed
<1>6. DaysKept' /\ NoNightForgotten'
  <2>1. \A e \in earn' \ earn : e.source # "visit"
    BY <1>4 DEF NotedFor
  <2>2. \A c \in Accounts : \A m : Visited(c, m)' <=> Visited(c, m)
    BY <1>4, <2>1 DEF Visited
  <2>3. \A c \in Accounts : played[c] \in SUBSET Event
    BY DEF Frame, Typed
  <2>4. DaysKept'
    BY <1>2, <2>2 DEF Frame, DaysKept
  <2>5. NoNightForgotten'
    BY <1>2, <2>2, <2>3 DEF Frame, NoNightForgotten
  <2> QED BY <2>4, <2>5
<1>7. req \in [Profiles -> Req] /\ NoReq \in Req /\ NoReq.accs = {} /\ NoReq.step = "none"
  BY CreditAssumption DEF Frame, Typed, NoReq, Req, Grace
<1>8. Typed'
  BY <1>2, <1>4, <1>7 DEF Frame, Typed
<1>9. Asked'
  <2>1. \A x \in Profiles : req'[x] = IF x = p THEN NoReq ELSE req[x]
    BY <1>2, <1>7
  <2> QED BY <1>2, <1>7, <2>1 DEF Frame, Asked, AskedBy
<1>10. Owned'
  BY <1>2 DEF Frame, Owned
<1>11. Frame'
  BY <1>4, <1>5, <1>6, <1>8, <1>9, <1>10 DEF Frame
<1>12. Backed'
  <2> SUFFICES ASSUME NEW r \in ledger' PROVE Earner(r, earn', fit', held')
    BY DEF Backed
  <2>1. CASE r \in ledger
    BY <1>2, <1>4, <2>1 DEF Backed, Earner
  <2>2. CASE r \notin ledger
    <3>1. PICK b \in fit : b \in accs
      BY <1>2
    <3>2. r.who = p /\ (r.source = "streak" \/ \E e \in earn' : e.acc \in accs /\ SameRef(e, r))
      BY <1>4, <2>2
    <3>3. r.source # "streak" => \E e \in earn' : SameRef(e, r) /\ r.who \in held[e.acc]
      BY <1>3, <3>2
    <3> QED BY <1>2, <1>3, <3>1, <3>2, <3>3 DEF Earner
  <2> QED BY <2>1, <2>2
<1>13. FindsPaid'
  <2> SUFFICES ASSUME Installed, NEW e \in earn', e.source = "activity"
               PROVE  /\ held[e.acc] # {}
                      /\ \A q \in held[e.acc] : \E r \in ledger' : r.who = q /\ SameRef(r, e)
    BY <1>2 DEF FindsPaid
  <2>1. CASE e \in earn
    BY <1>4, <2>1 DEF FindsPaid
  <2>2. CASE e \notin earn
    <3>1. e.acc = a
      BY <1>4, <2>2
    <3>2. \A q \in held[a] : q = p
      BY <1>3 DEF Frame, Owned
    <3>3. Paid(ledger', p, e)
      BY <1>3, <1>4, <3>1
    <3> QED BY <1>3, <3>1, <3>2, <3>3 DEF Paid
  <2> QED BY <2>1, <2>2
<1>14. ASSUME Installed, NEW q \in Profiles, NEW m, NEW ref, IsFind(ref), HasRow(q, m, ref)', ~HasRow(q, m, ref)
       PROVE  /\ q = p /\ m = n
              /\ \/ s.kind # "porch" /\ ref = <<s.id, 0>>
                 \/ First(s) /\ ref = <<s.id, 1>>
                 \/ last /\ ref = <<"trail", 0>>
  <2>1. PICK r \in ledger' : r.who = q /\ r.night = m /\ r.ref = ref
    BY <1>14 DEF HasRow
  <2>2. r \notin ledger
    BY <1>14, <2>1 DEF HasRow
  <2>3. r.source = "activity"
    BY <1>4, <1>5, <1>12, <1>14, <2>1, FindsAreActivity DEF Backed, Filed
  <2>4. PICK e \in earn' : e.acc \in accs /\ SameRef(e, r)
    BY <1>4, <2>2, <2>3
  <2>5. r.who = p
    BY <1>4, <2>2
  <2>6. e \notin earn
    <3> SUFFICES ASSUME e \in earn PROVE FALSE
      OBVIOUS
    <3>1. PICK x \in ledger : x.who = p /\ SameRef(x, e)
      BY <1>3, <1>14, <2>3, <2>4 DEF FindsPaid, SameRef
    <3>2. x \in ledger' /\ SameRef(x, r) /\ x.who = r.who
      BY <1>4, <2>4, <2>5, <3>1 DEF SameRef
    <3>3. x = r
      BY <1>4, <3>2 DEF Sound
    <3> QED BY <2>2, <3>1, <3>3
  <2>7. NotedFor(e, s, First(s), last)
    BY <1>4, <2>6
  <2>8. e.source = "activity" /\ e.night = m /\ e.ref = ref
    BY <2>1, <2>3, <2>4 DEF SameRef
  <2> QED BY <2>1, <2>5, <2>7, <2>8 DEF NotedFor
<1>15. \A q \in Profiles : \A m, ref : HasRow(q, m, ref) => HasRow(q, m, ref)'
  BY <1>4 DEF HasRow
<1>16. /\ \A x, y \in Spots : x.id = y.id => x = y
       /\ \A x \in Spots : x.id # "trail"
  BY SpotAssumption
<1>17. TrailKept'
  <2> SUFFICES ASSUME Installed, NEW q \in Profiles, NEW x \in Spots, NEW t \in Spots,
                      x.kind = "clue", t.kind = "clue", x.night = t.night
               PROVE  /\ HasRow(q, x.night, <<x.id, 0>>)' /\ t.seq < x.seq => HasRow(q, x.night, <<t.id, 0>>)'
                      /\ HasRow(q, x.night, <<"trail", 0>>)' => HasRow(q, x.night, <<t.id, 0>>)'
    BY DEF TrailKept
  <2>1. IsFind(<<x.id, 0>>) /\ IsFind(<<"trail", 0>>)
    BY DEF IsFind
  <2>2. ASSUME HasRow(q, x.night, <<x.id, 0>>)', t.seq < x.seq PROVE HasRow(q, x.night, <<t.id, 0>>)'
    <3>1. CASE HasRow(q, x.night, <<x.id, 0>>)
      <4>1. HasRow(q, x.night, <<t.id, 0>>)
        BY <2>2, <3>1 DEF TrailKept
      <4> QED BY <1>15, <4>1
    <3>2. CASE ~HasRow(q, x.night, <<x.id, 0>>)
      <4>1. q = p /\ x.night = n /\ x = s
        BY <1>14, <1>16, <2>1, <2>2, <3>2
      <4>2. s \in CurrentClue(ledger, p, n)
        BY <1>2, <4>1 DEF Open
      <4>3. t.night = s.night /\ t.kind = "clue" /\ t.seq < s.seq /\ s \in CurrentClue(ledger, p, s.night)
        BY <2>2, <4>1, <4>2
      <4>4. \E r \in ledger : r.who = p /\ r.night = s.night /\ r.ref = <<t.id, 0>>
        BY ONLY <4>3, t \in Spots, s \in Spots, CluesBefore
      <4> QED BY <1>4, <4>1, <4>4 DEF HasRow
    <3> QED BY <3>1, <3>2
  <2>3. ASSUME HasRow(q, x.night, <<"trail", 0>>)' PROVE HasRow(q, x.night, <<t.id, 0>>)'
    <3>1. CASE HasRow(q, x.night, <<"trail", 0>>)
      <4>1. HasRow(q, x.night, <<t.id, 0>>)
        BY <3>1 DEF TrailKept
      <4> QED BY <1>15, <4>1
    <3>2. CASE ~HasRow(q, x.night, <<"trail", 0>>)
      <4>1. q = p /\ x.night = n /\ last
        BY <1>14, <1>16, <2>1, <2>3, <3>2
      <4>2. \E r \in ledger' : r.who = p /\ r.night = n /\ r.ref = <<t.id, 0>>
        BY <1>1, <4>1 DEF HitBooks
      <4> QED BY <4>1, <4>2 DEF HasRow
    <3> QED BY <3>1, <3>2
  <2> QED BY <2>2, <2>3
<1>18. FirstFinders'
  <2> SUFFICES ASSUME Installed, NEW z \in Spots
               PROVE  /\ Cardinality({q \in Profiles : HasRow(q, z.night, <<z.id, 1>>)'}) <= FirstN
                      /\ \A q \in Profiles : HasRow(q, z.night, <<z.id, 1>>)' => HasRow(q, z.night, <<z.id, 0>>)'
    BY DEF FirstFinders
  <2> DEFINE H == {q \in Profiles : HasRow(q, z.night, <<z.id, 1>>)}
             G == {q \in Profiles : HasRow(q, z.night, <<z.id, 1>>)'}
             finders == {q \in Profiles : HasRow(q, z.night, <<z.id, 0>>)}
  <2>1. Cardinality(H) <= FirstN /\ H \subseteq finders
    BY DEF FirstFinders
  <2>2. \A q \in G \ H : q = p /\ z = s /\ First(s)
    <3>1. IsFind(<<z.id, 1>>)
      BY DEF IsFind
    <3> QED BY <1>14, <1>16, <3>1
  <2>3. \A q \in Profiles : HasRow(q, z.night, <<z.id, 1>>)' => HasRow(q, z.night, <<z.id, 0>>)'
    <3> SUFFICES ASSUME NEW q \in Profiles, HasRow(q, z.night, <<z.id, 1>>)'
                 PROVE  HasRow(q, z.night, <<z.id, 0>>)'
      OBVIOUS
    <3>1. CASE q \in H
      BY <1>15, <2>1, <3>1
    <3>2. CASE q \notin H
      <4>1. q = p /\ z = s /\ First(s)
        BY <2>2, <3>2
      <4>2. PICK e \in earn' : e.acc = a /\ e.night = n /\ e.source = SourceOf(s) /\ e.ref = <<s.id, 0>>
        BY <1>1 DEF HitBooks
      <4>3. e.source = "activity"
        BY <4>1, <4>2 DEF First, SourceOf
      <4>4. Paid(ledger', p, e)
        BY <1>3, <1>4, <4>2
      <4> QED BY <4>1, <4>2, <4>3, <4>4 DEF Paid, SameRef, HasRow
    <3> QED BY <3>1, <3>2
  <2>4. Cardinality(G) <= FirstN
    <3>1. H \subseteq G
      BY <1>15
    <3>2. CASE G = H
      BY <2>1, <3>2
    <3>3. CASE G # H
      <4>1. z = s /\ First(s) /\ G \subseteq finders \cup {p}
        BY <2>1, <2>2, <3>1, <3>3
      <4>2. {r.who : r \in {x \in ledger : x.night = s.night /\ x.ref = <<s.id, 0>>}} = finders
        BY <4>1 DEF HasRow, Frame, Sound, LedgerRow
      <4>3. Cardinality(finders) < FirstN /\ FirstN \in Nat
        BY <4>1, <4>2, CreditAssumption DEF First
      <4> HIDE DEF finders, G, H
      <4>4. finders \in SUBSET Profiles
        BY DEF finders
      <4>5. IsFiniteSet(finders) /\ Cardinality(finders) \in Nat
        BY <4>4, CreditAssumption, FS_Subset, FS_CardinalityType
      <4>6. /\ IsFiniteSet(finders \cup {p})
            /\ Cardinality(finders \cup {p}) = Cardinality(finders) \/
               Cardinality(finders \cup {p}) = Cardinality(finders) + 1
        BY <4>5, FS_AddElement
      <4>7. Cardinality(G) <= Cardinality(finders \cup {p}) /\ Cardinality(G) \in Nat
        BY <4>1, <4>6, FS_Subset, FS_CardinalityType
      <4> QED BY <4>3, <4>5, <4>6, <4>7
    <3> QED BY <3>2, <3>3
  <2> QED BY <2>3, <2>4
<1> QED BY <1>2, <1>4, <1>11, <1>12, <1>13, <1>17, <1>18

-----------------------------------------------------------------------------
(* The invariant holds                                                     *)

\* An empty ledger is sound.
LEMMA SoundEmpty == Sound({})
<1>1. {} \in SUBSET LedgerRow /\ IsFiniteSet({})
  BY FS_EmptySet
<1>2. ASSUME NEW p \in Profiles, NEW n \in Event, NEW source \in Sources \ {"activity"}
      PROVE  Credited({}, p, n, source) <= CapFor(n, source)
  <2>1. Rows({}, p, n, source) = {}
    BY DEF Rows
  <2>2. Credited({}, p, n, source) = Total([r \in LedgerRow |-> r.amt], {})
    BY <1>1, <2>1, CreditedIsTotal
  <2>3. Credited({}, p, n, source) = 0
    BY <2>2, TotalEmpty
  <2>4. CapFor(n, source) \in Nat
    BY CapType
  <2> QED BY <2>3, <2>4
<1> QED BY <1>1, <1>2 DEF Sound

\* Before anything was turned in nothing is counted and nothing pending.
LEMMA NothingCounted ==
    ASSUME NightInit
    PROVE  OfferingsKept
<1> DEFINE zero == [l \in Ladders |-> 0]
           none == [l \in Ladders |-> NoBase]
           days == [n \in Event |-> [points |-> 0, turns |-> 0]]
<1>1. zero \in Scores /\ none \in Bases
  BY DEF Scores, Bases
<1>2. \A l \in Ladders : none[l] = NoBase /\ zero[l] = 0
  OBVIOUS
<1>3. \A n \in Event : PointsOf(days)[n] = 0 /\ TurnsOf(days)[n] = 0
  BY DEF PointsOf, TurnsOf
<1> HIDE DEF zero, none, days
<1>4. ASSUME NEW S \in SUBSET Ladders PROVE Total(Pending(none, zero), S) = 0 /\ Total(zero, S) = 0
  <2>1. IsFiniteSet(S)
    BY LaddersFinite
  <2>2. \A l \in S : Pending(none, zero)[l] = 0
    BY <1>1, <1>2, PendingType
  <2>3. \A l \in S : zero[l] = 0
    BY <1>2
  <2>4. Total(Pending(none, zero), S) = 0
    BY ONLY <2>1, <2>2, TotalZero
  <2>5. Total(zero, S) = 0
    BY ONLY <2>1, <2>3, TotalZero
  <2> QED BY <2>4, <2>5
<1>5. Total(PointsOf(days), Event) = 0 /\ Total(TurnsOf(days), Event) = 0
  BY <1>3, EventFinite, TotalZero
<1>6. Points \in SUBSET Ladders /\ Counts \in SUBSET Ladders
  BY DEF Ladders
<1>7. Kept(days, none, zero, zero)
  BY <1>4, <1>5, <1>6 DEF Kept
<1>8. \A a \in Accounts : delta[a] = days /\ base[a] = none /\ score[a] = zero /\ gained[a] = zero
  BY DEF NightInit, days, none, zero
<1> QED BY <1>7, <1>8 DEF OfferingsKept

\* The invariant holds at the start.
LEMMA NightInitNInv == NightInit => NInv
<1> SUFFICES ASSUME NightInit PROVE NInv
  OBVIOUS
<1>1. Typed
  <2>1. NoReq \in Req
    BY CreditAssumption DEF NoReq, Req, Grace
  <2>2. now \in 1..Grace /\ tick \in 0..Grace /\ deeds \in 0..MaxDeeds
    BY CreditAssumption DEF NightInit, Grace
  <2>3. earn \in SUBSET EarnRow /\ IsFiniteSet(earn)
    BY FS_EmptySet DEF NightInit
  <2>4. /\ link \in [Accounts -> Profiles \cup {Nobody}] /\ held \in [Accounts -> SUBSET Profiles]
        /\ played \in [Accounts -> SUBSET Event] /\ fit \subseteq Veterans
        /\ req \in [Profiles -> Req]
    BY <2>1 DEF NightInit
  <2>5. /\ score \in [Accounts -> [Ladders -> Nat]] /\ gained \in [Accounts -> [Ladders -> Nat]]
        /\ base \in [Accounts -> [Ladders -> Nat \cup {NoBase}]]
        /\ delta \in [Accounts -> [Event -> [points : Nat, turns : Nat]]]
    BY DEF NightInit
  <2> QED BY <2>2, <2>3, <2>4, <2>5 DEF Typed
<1>2. Sound(ledger)
  BY SoundEmpty DEF NightInit
<1>3. Owned
  BY CreditAssumption DEF NightInit, Owned
<1>4. Asked
  BY DEF NightInit, Asked, AskedBy, NoReq
<1>5. Filed /\ Backed /\ FindsPaid
  BY DEF NightInit, Filed, Backed, FindsPaid
<1>6. TrailKept
  BY DEF NightInit, TrailKept, HasRow
<1>7. FirstFinders
  <2>1. \A s \in Spots : {p \in Profiles : HasRow(p, s.night, <<s.id, 1>>)} = {}
    BY DEF NightInit, HasRow
  <2>2. Cardinality({}) = 0 /\ FirstN \in Nat
    BY CreditAssumption, FS_EmptySet
  <2>3. \A p \in Profiles : \A n, ref : ~HasRow(p, n, ref)
    BY DEF NightInit, HasRow
  <2> QED BY <2>1, <2>2, <2>3 DEF FirstFinders
<1>8. DaysKept /\ NoNightForgotten
  BY DEF NightInit, DaysKept, NoNightForgotten, Visited
<1> QED BY <1>1, <1>2, <1>3, <1>4, <1>5, <1>6, <1>7, <1>8, NothingCounted DEF NInv

\* A quiet step that leaves the offerings alone keeps the invariant.
LEMMA QuietStep ==
    ASSUME NInv, Frame', Quiet, OfferingsKept'
    PROVE  NInv' /\ ledger \subseteq ledger'
<1>1. /\ Typed /\ Sound(ledger) /\ Owned /\ Filed /\ Backed /\ FindsPaid /\ TrailKept /\ FirstFinders
      /\ Typed' /\ Sound(ledger') /\ Owned' /\ Filed'
  BY DEF NInv, Frame
<1>2. Backed' /\ FindsPaid' /\ TrailKept' /\ FirstFinders'
  BY <1>1, QuietKeeps
<1>3. ledger \subseteq ledger'
  BY DEF Quiet
<1> QED BY <1>2, <1>3 DEF NInv, Frame

\* Every action keeps the invariant and takes nothing back.
LEMMA NightStep ==
    ASSUME NInv, NightNext
    PROVE  NInv' /\ ledger \subseteq ledger'
<1>1. Frame /\ Backed /\ FindsPaid /\ TrailKept /\ FirstFinders /\ OfferingsKept
  BY DEF NInv, Frame
<1>2. ASSUME UNCHANGED <<delta, base, score, gained>> PROVE OfferingsKept'
  BY <1>1, <1>2 DEF OfferingsKept
<1>3. ASSUME NightFalls \/ \E a \in Accounts : Plays(a) PROVE NInv' /\ ledger \subseteq ledger'
  BY <1>1, <1>2, <1>3, DayStep, QuietStep
<1>4. ASSUME NEW a \in Accounts, TickPulls(a) PROVE NInv' /\ ledger \subseteq ledger'
  BY <1>1, <1>2, <1>4, PullStep, QuietStep
<1>5. ASSUME NEW a \in Mirrored, NEW won \in Gains, TurnsIn(a, won) \/ TermEnds(a)
      PROVE  NInv' /\ ledger \subseteq ledger'
  <2>1. Frame' /\ Quiet
    BY <1>1, <1>5, LadderStep
  <2>2. OfferingsKept'
    BY <1>1, <1>5, <2>1, LadderOffers DEF Frame
  <2> QED BY <2>1, <2>2, QuietStep
<1>6. ASSUME NEW p \in Profiles, NEW a \in Accounts, NEW relink \in BOOLEAN, Links(p, a, relink)
      PROVE  NInv' /\ ledger \subseteq ledger'
  BY <1>1, <1>2, <1>6, LinkStep, QuietStep
<1>7. ASSUME NEW p \in Profiles, NEW a \in Accounts, Unlinks(p, a)
       PROVE  NInv' /\ ledger \subseteq ledger'
  BY <1>1, <1>2, <1>7, UnlinkStep, QuietStep
<1>8. ASSUME NEW R \in Readings, TickStarts(R) PROVE NInv' /\ ledger \subseteq ledger'
  BY <1>1, <1>8, TickStep, QuietStep
<1>9. ASSUME TickCredits \/ TickDies PROVE NInv' /\ ledger \subseteq ledger'
  BY <1>1, <1>2, <1>9, CreditStep, QuietStep
<1>10. ASSUME NEW p \in Profiles,
             AsksState(p) \/ (\E a \in Accounts : AsksKnock(p, a)) \/ Opens(p) \/ GivesUp(p)
      PROVE  NInv' /\ ledger \subseteq ledger'
  BY <1>1, <1>2, <1>10, RequestStep, QuietStep
<1>11. ASSUME NEW p \in Profiles, NEW read \in SUBSET Accounts, Folds(p, read)
       PROVE  NInv' /\ ledger \subseteq ledger'
  BY <1>1, <1>2, <1>11, FoldStep, QuietStep
<1>12. ASSUME NEW p \in Profiles, NEW s \in Spots, Hits(p, s) PROVE NInv' /\ ledger \subseteq ledger'
  <2>1. /\ Frame' /\ Backed' /\ FindsPaid' /\ TrailKept' /\ FirstFinders'
        /\ ledger \subseteq ledger' /\ UNCHANGED <<delta, base, score, gained>>
    BY <1>1, <1>12, HitStep
  <2> QED BY <1>2, <2>1 DEF NInv, Frame
<1> QED BY <1>3, <1>4, <1>5, <1>6, <1>7, <1>8, <1>9, <1>10, <1>11, <1>12 DEF NightNext

-----------------------------------------------------------------------------
(* What the invariant says                                                 *)

\* Whom the evidence belongs to, with credentials installed: the only holder ever.
LEMMA OwnersPaid == NInv => PaidToItsOwner
<1> SUFFICES ASSUME NInv, Installed, NEW r \in ledger
             PROVE  /\ r.source # "streak" => \E e \in earn : SameRef(e, r) /\ held[e.acc] = {r.who}
                    /\ \E a \in fit : held[a] = {r.who}
  BY DEF PaidToItsOwner
<1>1. Earner(r, earn, fit, held)
  BY DEF NInv, Backed
<1>2. \A a \in Accounts : r.who \in held[a] => held[a] = {r.who}
  BY DEF NInv, Owned
<1>3. (\A e \in earn : e.acc \in Accounts) /\ fit \subseteq Accounts
  BY CreditAssumption DEF NInv, Typed, EarnRow
<1> QED BY <1>1, <1>2, <1>3 DEF Earner

\* What was counted is no more than was gained, the part still pending left out.
LEMMA OfferingsCounted == NInv => OfferingsAreReal
<1> SUFFICES ASSUME NInv, NEW a \in Accounts
             PROVE  /\ MapThenSumSet(LAMBDA n : delta[a][n].points, Event)
                          <= MapThenSumSet(LAMBDA l : gained[a][l], Points)
                    /\ MapThenSumSet(LAMBDA n : delta[a][n].turns, Event)
                          <= MapThenSumSet(LAMBDA l : gained[a][l], Counts)
  BY DEF OfferingsAreReal
<1>1. Typed /\ Kept(delta[a], base[a], score[a], gained[a])
  BY DEF NInv, OfferingsKept
<1>2. /\ delta[a] \in Deltas /\ base[a] \in Bases /\ score[a] \in Scores /\ gained[a] \in Scores
  BY <1>1 DEF Typed, Deltas, Bases, Scores
<1>3. /\ MapThenSumSet(LAMBDA n : delta[a][n].points, Event) = Total(PointsOf(delta[a]), Event)
      /\ MapThenSumSet(LAMBDA n : delta[a][n].turns, Event) = Total(TurnsOf(delta[a]), Event)
  BY <1>1, PointsAre, TurnsAre
<1>4. /\ MapThenSumSet(LAMBDA l : gained[a][l], Points) = Total(gained[a], Points)
      /\ MapThenSumSet(LAMBDA l : gained[a][l], Counts) = Total(gained[a], Counts)
  BY DEF Total
<1>5. /\ Total(PointsOf(delta[a]), Event) \in Int /\ Total(TurnsOf(delta[a]), Event) \in Int
      /\ Points \in SUBSET Ladders /\ Counts \in SUBSET Ladders
      /\ \A S \in SUBSET Ladders : /\ Total(Pending(base[a], score[a]), S) \in Nat
                                   /\ Total(gained[a], S) \in Int
  BY <1>2, SumsInt
<1>6. /\ Total(PointsOf(delta[a]), Event) <= Total(gained[a], Points)
      /\ Total(TurnsOf(delta[a]), Event) <= Total(gained[a], Counts)
  BY <1>1, <1>5 DEF Kept
<1> QED BY <1>3, <1>4, <1>6

\* The properties of the run, from the invariant.
LEMMA NInvMeans == NInv => /\ TypeOK /\ CapsHold /\ PaidToItsOwner /\ TrailInOrder /\ FirstFinders
                           /\ OfferingsAreReal /\ NoNightForgotten
<1> SUFFICES ASSUME NInv
             PROVE  /\ TypeOK /\ CapsHold /\ PaidToItsOwner /\ TrailInOrder /\ FirstFinders
                    /\ OfferingsAreReal /\ NoNightForgotten
  OBVIOUS
<1>1. TypeOK
  <2>1. \A e \in earn : e.acc \in Accounts /\ e.night \in Event /\ e.source \in Sources /\ e.amt > 0
    BY DEF NInv, Typed, EarnRow
  <2>2. \A r \in ledger : r.who \in Profiles /\ r.night \in Event /\ r.source \in Sources /\ r.amt > 0
    BY DEF NInv, Sound, LedgerRow
  <2>3. \A p \in Profiles : req[p].step \in {"none", "state", "knock", "opens"}
    BY DEF NInv, Typed, Req
  <2>4. \A a \in Accounts, l \in Ladders : base[a][l] \in {NoBase} \cup Nat /\ score[a][l] \in Nat
    BY DEF NInv, Typed
  <2> QED BY <2>1, <2>2, <2>3, <2>4 DEF NInv, Typed, TypeOK
<1>2. CapsHold
  BY DEF NInv, Sound, LedgerRow, CapsHold
<1>3. TrailInOrder
  BY DEF NInv, TrailKept, TrailInOrder
<1> QED BY <1>1, <1>2, <1>3, OwnersPaid, OfferingsCounted DEF NInv

-----------------------------------------------------------------------------
(* The composition                                                         *)

\* The sum over all rows of a profile is the sum of the lemmas.
LEMMA EarnedIsTotal ==
    ASSUME NEW L, L \in SUBSET LedgerRow, IsFiniteSet(L), NEW p
    PROVE  MapThenSumSet(LAMBDA r : r.amt, {r \in L : r.who = p}) = Total([r \in LedgerRow |-> r.amt], {r \in L : r.who = p})
<1> DEFINE S == {r \in L : r.who = p}
           Eq(g) == g = [s \in SUBSET S |-> IF s = {} THEN 0
                            ELSE (CHOOSE x \in s : TRUE).amt + g[s \ {CHOOSE x \in s : TRUE}]]
           c == CHOOSE g : Eq(g)
           f == [r \in LedgerRow |-> r.amt]
<1>1. S \subseteq LedgerRow /\ IsFiniteSet(S)
  BY FS_Subset
<1>2. \A x \in S : f[x] \in Int /\ f[x] = x.amt
  BY <1>1 DEF LedgerRow
<1> HIDE DEF f, S
<1>3. \A g : Eq(g) <=> g = [s \in SUBSET S |-> g[s]] /\ Sums(g, S, f)
  <2>1. \A s \in SUBSET S : s # {} => f[CHOOSE x \in s : TRUE] = (CHOOSE x \in s : TRUE).amt
    BY <1>2
  <2> QED BY <2>1 DEF Sums, Pick
<1>4. PICK g : IsSum(g, S, f)
  BY <1>1, <1>2, TotalDef
<1>5. Eq(g)
  BY <1>3, <1>4 DEF IsSum
<1>6. Eq(c)
  <2> HIDE DEF Eq
  <2> QED BY <1>5
<1>7. MapThenSumSet(LAMBDA r : r.amt, {r \in L : r.who = p}) = c[S]
  BY DEF MapThenSumSet, MapThenFoldSet, S
<1> HIDE DEF c, Eq
<1>8. Sums(c, S, f)
  BY <1>3, <1>6
<1> QED BY <1>1, <1>2, <1>7, <1>8, TotalIs DEF f, S

\* What a profile has earned is a number, and grows with the ledger.
LEMMA EarnedIs ==
    ASSUME NEW L, L \in SUBSET LedgerRow, IsFiniteSet(L)
    PROVE  /\ Earned(L) \in [Profiles -> Nat]
           /\ \A M \in SUBSET L : \A p \in Profiles : Earned(M)[p] <= Earned(L)[p]
<1> DEFINE f == [r \in LedgerRow |-> r.amt]
           Of(M, p) == {r \in M : r.who = p}
<1>1. ASSUME NEW M \in SUBSET L, NEW p \in Profiles
      PROVE  Earned(M)[p] = Total(f, Of(M, p))
  BY EarnedIsTotal, FS_Subset DEF Earned
<1>2. ASSUME NEW p \in Profiles
      PROVE  \A M \in SUBSET L : Total(f, Of(M, p)) \in Nat /\ Total(f, Of(M, p)) <= Total(f, Of(L, p))
  <2>1. /\ Of(L, p) \subseteq LedgerRow /\ IsFiniteSet(Of(L, p))
        /\ \A M \in SUBSET L : Of(M, p) \in SUBSET Of(L, p)
    BY FS_Subset
  <2>2. \A x \in LedgerRow : f[x] \in Nat
    BY DEF LedgerRow
  <2> HIDE DEF f, Of
  <2>3. \A x \in Of(L, p) : f[x] \in Nat
    BY <2>1, <2>2
  <2> QED BY <2>1, <2>3, TotalGrows
<1> HIDE DEF f, Of
<1>3. L \in SUBSET L /\ \A M : Earned(M) = [p \in Profiles |-> Earned(M)[p]]
  BY DEF Earned
<1>4. \A p \in Profiles : Earned(L)[p] \in Nat
  BY <1>1, <1>2, <1>3
<1>5. Earned(L) \in [Profiles -> Nat]
  BY <1>3, <1>4
<1> QED BY <1>1, <1>2, <1>3, <1>5

\* The invariant of the composition: the purse is what was credited.
SInv == NInv /\ purse = Earned(ledger)

\* Steps of the lane leave the night as it is, but for the bound on deeds.
LEMMA LaneKeepsNight ==
    ASSUME NInv, deeds' \in 0..MaxDeeds,
           UNCHANGED <<now, link, held, played, fit, earn, ledger, tick, req, score, base, delta, gained>>
    PROVE  NInv'
<1>1. Typed' /\ Sound(ledger') /\ Owned' /\ Asked'
  BY DEF NInv, Typed, Owned, Asked
<1>2. Filed' /\ Backed' /\ FindsPaid'
  BY DEF NInv, Filed, Backed, FindsPaid
<1>3. TrailKept' /\ FirstFinders'
  BY DEF NInv, TrailKept, FirstFinders, HasRow
<1>4. DaysKept' /\ NoNightForgotten' /\ OfferingsKept'
  BY DEF NInv, DaysKept, NoNightForgotten, OfferingsKept, Visited
<1> QED BY <1>1, <1>2, <1>3, <1>4 DEF NInv

\* Every step keeps the invariant and is a step of the lane, or none of it.
LEMMA TogetherStep ==
    ASSUME SInv, [Next]_vars
    PROVE  SInv' /\ [LaneNext]_laneVars
<1>1. NInv /\ purse = Earned(ledger)
  BY DEF SInv
<1>2. ASSUME NightNext, purse' = Earned(ledger'), UNCHANGED <<orders, spent, refunds, guild, holders, run, granted>>
      PROVE  SInv' /\ LaneNext
  <2>1. NInv' /\ ledger \subseteq ledger'
    BY <1>1, <1>2, NightStep
  <2>2. ledger' \in SUBSET LedgerRow /\ IsFiniteSet(ledger')
    BY <2>1 DEF NInv, Sound
  <2>3. purse' \in [Profiles -> Nat] /\ \A p \in Profiles : purse[p] <= purse'[p] /\ purse[p] \in Nat
    <3>1. ledger \in SUBSET LedgerRow /\ IsFiniteSet(ledger)
      BY <1>1 DEF NInv, Sound
    <3>2. purse \in [Profiles -> Nat]
      BY <1>1, <3>1, EarnedIs
    <3>3. /\ Earned(ledger') \in [Profiles -> Nat]
          /\ \A p \in Profiles : Earned(ledger)[p] <= Earned(ledger')[p]
      BY <2>1, <2>2, EarnedIs
    <3> QED BY <1>1, <1>2, <3>2, <3>3
  <2>4. Earns
    BY <1>2, <2>3 DEF Earns
  <2> QED BY <1>2, <2>1, <2>4 DEF SInv, LaneNext
<1>3. ASSUME People PROVE UNCHANGED purse
  BY <1>3 DEF People, PlaceOrder, OperatorRefunds, Refund, Leaves, Joins
<1>4. ASSUME Script PROVE UNCHANGED purse
  BY <1>4 DEF Script, ReadsQueue, Grants, Holds, Unknown, Reports, RunDies
<1>5. ASSUME Deed, People,
             UNCHANGED <<now, link, held, played, fit, earn, ledger, tick, req, score, base, delta, gained>>
      PROVE  SInv' /\ LaneNext
  <2>1. deeds' \in 0..MaxDeeds
    BY <1>1, <1>5, CreditAssumption DEF NInv, Typed, Deed
  <2>2. NInv'
    BY <1>1, <1>5, <2>1, LaneKeepsNight
  <2> QED BY <1>1, <1>3, <1>5, <2>2 DEF SInv, LaneNext
<1>6. ASSUME UNCHANGED nightVars, Script PROVE SInv' /\ LaneNext
  <2>1. NInv'
    BY <1>1, <1>6, LaneKeepsNight DEF nightVars, NInv, Typed
  <2> QED BY <1>1, <1>4, <1>6, <2>1 DEF SInv, LaneNext, nightVars
<1>7. ASSUME UNCHANGED vars PROVE SInv' /\ UNCHANGED laneVars
  <2>1. NInv'
    BY <1>1, <1>7, LaneKeepsNight DEF vars, nightVars, NInv, Typed
  <2> QED BY <1>1, <1>7, <2>1 DEF SInv, vars, nightVars, laneVars
<1> QED BY <1>2, <1>5, <1>6, <1>7 DEF Next

\* At the start nothing is earned.
LEMMA TogetherInit == Init => SInv /\ LaneInit
<1> SUFFICES ASSUME Init PROVE SInv /\ LaneInit
  OBVIOUS
<1>1. NInv
  BY NightInitNInv DEF Init
<1> QED BY <1>1 DEF Init, SInv

\* The worker's tick, the state page and the Knock keep the invariant in any order.
LEMMA TogetherKeeps == Spec => []SInv
<1>1. Init => SInv
  BY TogetherInit
<1>2. SInv /\ [Next]_vars => SInv'
  BY TogetherStep
<1> QED BY <1>1, <1>2, PTL DEF Spec

-----------------------------------------------------------------------------
(* Theorems                                                                *)

\* The tables of the Seven Nights and the requests under way keep their types:
\* record_earn and credit_profile only write rows of the event, of positive amounts.
THEOREM NightTypes == Spec => []TypeOK
<1>1. SInv => TypeOK
  BY NInvMeans DEF SInv
<1> QED BY <1>1, TogetherKeeps, PTL

\* credit_profile never pays a profile above a night's cap, nor a ref twice, whatever
\* ticks, page loads and Knocks credit the same evidence, and whichever account it is of.
THEOREM CapsAlwaysHold == Spec => []CapsHold
<1>1. SInv => CapsHold
  BY NInvMeans DEF SInv
<1> QED BY <1>1, TogetherKeeps, PTL

\* With portal_account_owners in force, every earn row stands on evidence of an account
\* the payee alone ever held, however links change while requests wait.
THEOREM OwnersArePaid == Spec => []PaidToItsOwner
<1>1. SInv => PaidToItsOwner
  BY NInvMeans DEF SInv
<1> QED BY <1>1, TogetherKeeps, PTL

\* record_find pays a clue only behind the clues before it, and the trail behind all.
THEOREM TrailsAreInOrder == Spec => []TrailInOrder
<1>1. SInv => TrailInOrder
  BY NInvMeans DEF SInv
<1> QED BY <1>1, TogetherKeeps, PTL

\* The bonus of a hidden spot reaches at most SEEK_FIRST_N profiles, each a finder.
THEOREM FirstFindersOnly == Spec => []FirstFinders
<1>1. SInv => FirstFinders
  BY NInvMeans DEF SInv
<1> QED BY <1>1, TogetherKeeps, PTL

\* landsraad_observe never counts what was not turned in: what a reading would still
\* find is never more than what was gained and not counted yet.
THEOREM OfferingsStayReal == Spec => []OfferingsAreReal
<1>1. SInv => OfferingsAreReal
  BY NInvMeans DEF SInv
<1> QED BY <1>1, TogetherKeeps, PTL

\* The tick may pass over an account with a visit for its night: no earlier is missing.
THEOREM NightsRemembered == Spec => []NoNightForgotten
<1>1. SInv => NoNightForgotten
  BY NInvMeans DEF SInv
<1> QED BY <1>1, TogetherKeeps, PTL

\* credit_all, at the end of a tick, leaves no profile that qualifies owed anything.
THEOREM TickOwesNothing == Spec => NothingOwed
<1>1. SInv => [TickCredits => \A p \in Profiles : Linked(p) \cap fit # {} =>
        \A e \in earn : e.acc \in Linked(p) =>
            \/ \E r \in ledger' : r.who = p /\ SameRef(r, e)
            \/ /\ e.source # "activity"
               /\ Credited(ledger', p, e.night, e.source) = CapFor(e.night, e.source)]_nightVars
  <2> SUFFICES ASSUME SInv, TickCredits, NEW p \in Profiles, Linked(p) \cap fit # {},
                      NEW e \in earn, e.acc \in Linked(p)
               PROVE  Paid(ledger', p, e)
    BY DEF Paid
  <2>1. Sound(ledger) /\ earn \in SUBSET EarnRow /\ IsFiniteSet(earn) /\ ledger' = CreditAll(ledger, earn, fit)
    BY DEF SInv, NInv, Typed, TickCredits
  <2> QED BY <2>1, AllKeeps
<1> QED BY <1>1, TogetherKeeps, PTL DEF NothingOwed

\* The credit passes are to the role lane what it takes for granted: a purse that only
\* grows.  Every behaviour of the Seven Nights is one of the lane's specification.
THEOREM NightsImplementLane == Spec => CreditOnlyAdds
<1>1. Init => LaneInit
  BY TogetherInit
<1>2. SInv /\ [Next]_vars => [LaneNext]_laneVars
  BY TogetherStep
<1> QED BY <1>1, <1>2, TogetherKeeps, PTL DEF Spec, CreditOnlyAdds, LaneSpec

\* So what the lane promises holds while tokens are earned: who holds the role has
\* paid, Discord's word stands behind a delivery, and nobody spends what was not credited.
THEOREM LaneHoldsTogether == Spec => [](RoleOrTokens /\ DeliveredIsGranted /\ TokensAddUp)
<1>1. Spec => LaneSpec
  BY NightsImplementLane DEF CreditOnlyAdds
<1> QED BY <1>1, HoldersPaid, DeliveredOnDiscordsWord, LaneTokensAddUp, PTL
=============================================================================
