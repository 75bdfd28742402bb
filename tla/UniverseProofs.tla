--------------------------- MODULE UniverseProofs ---------------------------
(***************************************************************************)
(* Proofs about Universe for any assets, tickers, thresholds and           *)
(* providers' answers: what enters the index is vouched for by an asset of *)
(* its name, and what is left out for want of room is no larger than what  *)
(* is in.                                                                  *)
(***************************************************************************)
EXTENDS Universe, SumsAndMedians, SequenceTheorems

-----------------------------------------------------------------------------
(* The rows of a ticker *)

\* What a provider may report of the assets that bear a ticker.
Reports(t) == {Row(p, a) : p \in {1, 2}, a \in Bearers(t)}

\* A list of a finite set's elements has as many places, each with one of them.
LEMMA SetToSeqType ==
    ASSUME NEW S, IsFiniteSet(S)
    PROVE  /\ Cardinality(S) \in Nat
           /\ SetToSeq(S) \in [1..Cardinality(S) -> S]
<1>1. Cardinality(S) \in Nat /\ ExistsBijection(1..Cardinality(S), S)
  BY FS_CardinalityType
<1>2. \E f \in [1..Cardinality(S) -> S] : IsInjective(f)
  BY <1>1 DEF ExistsBijection, Bijection, Injection
<1>3. QED
  BY <1>1, <1>2 DEF SetToSeq

\* A ticker's rows are a sequence of reports of its bearers.
LEMMA RowsOfType ==
    ASSUME NEW t PROVE RowsOf(t) \in Seq(Reports(t))
<1> DEFINE listed(p) ==
             IF answers[p] = Null THEN << >>
             ELSE [i \in 1..Cardinality(answers[p] \intersect Bearers(t)) |->
                     Row(p, SetToSeq(answers[p] \intersect Bearers(t))[i])]
<1>1. ASSUME NEW p \in {1, 2} PROVE listed(p) \in Seq(Reports(t))
  <2>1. CASE answers[p] = Null
    BY <2>1, EmptySeq
  <2>2. CASE answers[p] # Null
    <3> DEFINE X == answers[p] \intersect Bearers(t)
               s == SetToSeq(X)
               n == Cardinality(X)
    <3>1. X \subseteq Bearers(t) /\ X \subseteq Asset
      BY DEF Bearers
    <3>2. IsFiniteSet(X)
      BY <3>1, FS_Subset, UniverseAssumption
    <3> HIDE DEF X
    <3>3. n \in Nat /\ s \in [1..n -> X]
      BY <3>2, SetToSeqType
    <3> HIDE DEF n, s
    <3>4. \A i \in 1..n : Row(p, s[i]) \in Reports(t)
      BY <3>1, <3>3 DEF Reports
    <3> DEFINE list == [i \in 1..n |-> Row(p, s[i])]
    <3>5. list \in [1..n -> Reports(t)]
      BY <3>4
    <3>6. listed(p) = list
      BY <2>2 DEF X, n, s
    <3> HIDE DEF list, listed
    <3>7. list \in Seq(Reports(t))
      BY <3>3, <3>5, SeqDef
    <3>8. QED
      BY <3>6, <3>7
  <2>3. QED
    BY <2>1, <2>2
<1>2. RowsOf(t) = listed(1) \o listed(2)
  BY DEF RowsOf, Bearers
<1> HIDE DEF listed
<1>3. QED
  BY <1>1, <1>2, ConcatProperties

\* A report is true of a bearer of the ticker, where it says anything.
LEMMA ReportFacts ==
    ASSUME world \in [Asset -> World], NEW t, NEW r \in Reports(t)
    PROVE  LET w == world[r.asset] IN
           /\ r.asset \in Bearers(t)
           /\ r.cap \in Nat /\ r.cap = w.cap
           /\ r.volume \in Nat /\ \E p \in {1, 2} : r.volume = w.volume[p]
           /\ r.age = Null \/ (r.age \in Nat /\ r.age = w.age)
           /\ w.kind = "stable" => r.short \in {Null, Quiet} /\ r.month \in {Null, Quiet}
<1>1. PICK p \in {1, 2}, a \in Bearers(t) : r = Row(p, a)
  BY DEF Reports
<1>2. a \in Asset /\ world[a] \in World
  BY DEF Bearers
<1> DEFINE w == world[a]
<1>3. /\ w.cap \in Nat /\ w.age \in Nat /\ w.volume[p] \in Nat
      /\ w.kind = "stable" => w.quietWeek
  BY <1>2, UniverseAssumption DEF World
<1>4. /\ r.asset = a /\ r.cap = w.cap /\ r.volume = w.volume[p]
      /\ r.age = IF p = 1 THEN Null ELSE w.age
      /\ r.short = IF w.age < 7 THEN Null ELSE IF w.quietWeek THEN Quiet ELSE Loud
      /\ r.month = IF p = 2 THEN Null ELSE IF w.kind = "stable" THEN Quiet ELSE Loud
  BY <1>1 DEF Row
<1> HIDE DEF w
<1>5. /\ r.age = Null \/ r.age = w.age
      /\ w.kind = "stable" => r.short \in {Null, Quiet} /\ r.month \in {Null, Quiet}
  BY <1>3, <1>4
<1>6. QED
  BY <1>1, <1>3, <1>4, <1>5 DEF w

-----------------------------------------------------------------------------
(* Merging *)

\* A median is no more than twice some value.
LEMMA MedianOfAll ==
    ASSUME NEW q, IsFiniteSet(DOMAIN q), DOMAIN q # {}, \A i \in DOMAIN q : q[i] \in Nat
    PROVE  /\ Median2(q) \in Nat
           /\ \E i \in DOMAIN q : Median2(q) <= 2 * q[i]
<1>1. 2 * Cardinality(DOMAIN q) > Cardinality(DOMAIN q)
  <2>1. Cardinality(DOMAIN q) \in Nat /\ Cardinality(DOMAIN q) # 0
    BY FS_CardinalityType, FS_EmptySet
  <2>2. QED
    BY <2>1
<1>2. DOMAIN q \in SUBSET DOMAIN q
  OBVIOUS
<1>3. QED
  BY <1>1, <1>2, MedianOfMajority

\* Reports that are all quiet, or silent, are quiet together, or silent.
LEMMA QuietTogether ==
    ASSUME NEW rows, IsFiniteSet(DOMAIN rows), NEW values,
           \A i \in DOMAIN rows : values[i] \in {Null, Quiet}
    PROVE  pickChange(rows, values) \in {Null, Quiet}
<1> DEFINE known == Known(rows, values)
           q == [i \in known |-> values[i]]
<1>1. CASE known = {}
  BY <1>1 DEF pickChange
<1>2. CASE known # {}
  <2>1. known \subseteq DOMAIN rows /\ \A i \in known : values[i] = 0
    BY DEF Known, Quiet
  <2>2. IsFiniteSet(known)
    <3> HIDE DEF known
    <3>1. QED
      BY <2>1, FS_Subset
  <2>3. DOMAIN q = known /\ \A i \in known : q[i] = 0
    BY <2>1
  <2> HIDE DEF q
  <2>4. Median2(q) \in Nat /\ \E i \in known : Median2(q) <= 2 * q[i]
    BY <1>2, <2>2, <2>3, MedianOfAll
  <2>5. Median2(q) = 0
    BY <2>3, <2>4
  <2>6. pickChange(rows, values) = Median2(q) \div 2
    BY <1>2 DEF pickChange, q
  <2>7. QED
    BY <2>5, <2>6 DEF Quiet
<1>3. QED
  BY <1>1, <1>2

\* The oldest claim is one that a report makes.
LEMMA OldestIsClaimed ==
    ASSUME NEW rows, IsFiniteSet(DOMAIN rows),
           \A i \in DOMAIN rows : rows[i].age = Null \/ rows[i].age \in Nat
    PROVE  OldestAge(rows) = Null \/ \E i \in DOMAIN rows : OldestAge(rows) = rows[i].age
<1> DEFINE known == Known(rows, [i \in DOMAIN rows |-> rows[i].age])
           ages == {rows[i].age : i \in known}
           q == [i \in known |-> rows[i].age]
<1>1. /\ known \subseteq DOMAIN rows
      /\ \A i \in known : rows[i].age \in Nat
  BY DEF Known
<1>2. OldestAge(rows) = IF ages = {} THEN Null ELSE CHOOSE x \in ages : \A y \in ages : y <= x
  BY DEF OldestAge
<1>3. CASE ages = {}
  BY <1>2, <1>3
<1>4. CASE ages # {}
  <2>1. known # {} /\ DOMAIN q = known /\ \A i \in known : q[i] \in Nat /\ q[i] = rows[i].age
    BY <1>1, <1>4
  <2>2. IsFiniteSet(known)
    <3> HIDE DEF known
    <3>1. QED
      BY <1>1, FS_Subset
  <2> HIDE DEF q, known
  <2>3. PICK i \in known : \A j \in known : q[j] <= q[i]
    BY <2>1, <2>2, LargestValue
  <2>4. \E x \in ages : \A y \in ages : y <= x
    BY <2>1, <2>3
  <2>5. OldestAge(rows) \in ages
    BY <1>2, <1>4, <2>4
  <2>6. QED
    BY <1>1, <2>5
<1>5. QED
  BY <1>3, <1>4

\* What NamesakesVouch says of one row.
Vouched(row) ==
    LET bearers == {world[a] : a \in Bearers(row.symbol)} IN
    /\ row.named \in Bearers(row.symbol) /\ world[row.named].kind # "wrapped"
    /\ \E w \in bearers : w.cap >= MinMarketCap
    /\ \E w \in bearers : w.age >= MinListingAge
    /\ \E w \in bearers : \E p \in {1, 2} : w.volume[p] >= MinVolume
    /\ \E w \in bearers : w.kind # "stable"

\* A merged row that no rule excludes is vouched for.
LEMMA MergedVouches ==
    ASSUME world \in [Asset -> World],
           NEW t, NEW rows \in Seq(Reports(t)), rows # << >>
    PROVE  LET row == Merged(t, rows) IN
           /\ row.symbol = t /\ row.named \in Bearers(t) /\ row.cap2 \in Nat
           /\ Reason(row) = "none" => Vouched(row)
<1> DEFINE row == Merged(t, rows)
           D == DOMAIN rows
           bearers == {world[a] : a \in Bearers(t)}
<1>1. D = 1..Len(rows) /\ IsFiniteSet(D) /\ 1 \in D
  <2>1. Len(rows) \in Nat \ {0}
    BY EmptySeq
  <2>2. D = 1..Len(rows)
    BY LenProperties
  <2>3. QED
    BY <2>1, <2>2, FS_Interval
<1>2. \A i \in D : rows[i] \in Reports(t)
  BY <1>1, ElementOfSeq
<1>3. \A i \in D :
         /\ rows[i].asset \in Bearers(t)
         /\ rows[i].cap \in Nat /\ rows[i].cap = world[rows[i].asset].cap
         /\ rows[i].volume \in Nat
         /\ \E p \in {1, 2} : rows[i].volume = world[rows[i].asset].volume[p]
         /\ \/ rows[i].age = Null
            \/ rows[i].age \in Nat /\ rows[i].age = world[rows[i].asset].age
         /\ world[rows[i].asset].kind = "stable" =>
              rows[i].short \in {Null, Quiet} /\ rows[i].month \in {Null, Quiet}
  BY <1>2, ReportFacts
<1> DEFINE caps == [i \in D |-> rows[i].cap]
           volumes == [i \in D |-> rows[i].volume]
           shorts == [i \in D |-> rows[i].short]
           months == [i \in D |-> rows[i].month]
<1>4. /\ row.symbol = t /\ row.named = rows[1].asset
      /\ row.cap2 = Median2(caps) /\ row.volume2 = Median2(volumes)
      /\ row.age = OldestAge(rows)
      /\ row.short = pickChange(rows, shorts) /\ row.month = pickChange(rows, months)
  BY DEF Merged
<1> HIDE DEF row, D
<1>5. row.named \in Bearers(t)
  BY <1>1, <1>3, <1>4
<1>6. Median2(caps) \in Nat /\ \E i \in D : Median2(caps) <= 2 * rows[i].cap
  <2>1. DOMAIN caps = D /\ \A i \in D : caps[i] \in Nat /\ caps[i] = rows[i].cap
    BY <1>3
  <2> HIDE DEF caps
  <2>2. Median2(caps) \in Nat /\ \E i \in D : Median2(caps) <= 2 * caps[i]
    BY <1>1, <2>1, MedianOfAll
  <2>3. QED
    BY <2>1, <2>2
<1>7. Median2(volumes) \in Nat /\ \E i \in D : Median2(volumes) <= 2 * rows[i].volume
  <2>1. DOMAIN volumes = D /\ \A i \in D : volumes[i] \in Nat /\ volumes[i] = rows[i].volume
    BY <1>3
  <2> HIDE DEF volumes
  <2>2. Median2(volumes) \in Nat /\ \E i \in D : Median2(volumes) <= 2 * volumes[i]
    BY <1>1, <2>1, MedianOfAll
  <2>3. QED
    BY <2>1, <2>2
<1> HIDE DEF caps, volumes
<1>8. ASSUME Reason(row) = "none" PROVE Vouched(row)
  <2>1. /\ ~looksLikeDerivative(row) /\ ~looksLikeStablecoin(row) /\ row.short # Null
        /\ ~(row.cap2 < 2 * MinMarketCap) /\ ~(row.volume2 < 2 * MinVolume)
        /\ row.age # Null /\ ~(row.age < MinListingAge)
    BY <1>8 DEF Reason
  <2>2. world[row.named].kind # "wrapped"
    BY <2>1 DEF looksLikeDerivative
  <2>3. \E w \in bearers : w.cap >= MinMarketCap
    <3>1. PICK i \in D : Median2(caps) <= 2 * rows[i].cap
      BY <1>6
    <3>2. rows[i].cap >= MinMarketCap
      BY <1>3, <1>4, <1>6, <2>1, <3>1, UniverseAssumption
    <3>3. rows[i].asset \in Bearers(t) /\ rows[i].cap = world[rows[i].asset].cap
      BY <1>3
    <3>4. QED
      BY <3>2, <3>3
  <2>4. \E w \in bearers : \E p \in {1, 2} : w.volume[p] >= MinVolume
    <3>1. PICK i \in D : Median2(volumes) <= 2 * rows[i].volume
      BY <1>7
    <3>2. rows[i].volume >= MinVolume
      BY <1>3, <1>4, <1>7, <2>1, <3>1, UniverseAssumption
    <3>3. /\ rows[i].asset \in Bearers(t)
          /\ \E p \in {1, 2} : rows[i].volume = world[rows[i].asset].volume[p]
      BY <1>3
    <3>4. QED
      BY <3>2, <3>3
  <2>5. \E w \in bearers : w.age >= MinListingAge
    <3>1. \A i \in D : rows[i].age = Null \/ rows[i].age \in Nat
      BY <1>3
    <3>2. OldestAge(rows) = Null \/ \E i \in D : OldestAge(rows) = rows[i].age
      BY <1>1, <3>1, OldestIsClaimed DEF D
    <3>3. PICK i \in D : row.age = rows[i].age
      BY <1>4, <2>1, <3>2
    <3>4. /\ rows[i].asset \in Bearers(t) /\ row.age \in Nat
          /\ row.age = world[rows[i].asset].age
      BY <1>3, <2>1, <3>3
    <3>5. row.age >= MinListingAge
      BY <2>1, <3>4, UniverseAssumption
    <3>6. QED
      BY <3>4, <3>5
  <2>6. \E w \in bearers : w.kind # "stable"
    <3>1. SUFFICES ASSUME \A w \in bearers : w.kind = "stable" PROVE FALSE
      OBVIOUS
    <3>2. \A i \in D : rows[i].short \in {Null, Quiet} /\ rows[i].month \in {Null, Quiet}
      BY <1>3, <3>1
    <3>3. \A i \in D : shorts[i] \in {Null, Quiet} /\ months[i] \in {Null, Quiet}
      BY <3>2
    <3> HIDE DEF shorts, months
    <3>4. row.short \in {Null, Quiet} /\ row.month \in {Null, Quiet}
      BY <1>1, <1>4, <3>3, QuietTogether DEF D
    <3>5. looksLikeStablecoin(row)
      BY <2>1, <3>4 DEF looksLikeStablecoin
    <3>6. QED
      BY <2>1, <3>5
  <2>7. QED
    BY <1>4, <1>5, <2>2, <2>3, <2>4, <2>5, <2>6 DEF Vouched
<1>9. QED
  BY <1>4, <1>5, <1>6, <1>8 DEF row

-----------------------------------------------------------------------------
(* The inductive invariant *)

WithRows == {t \in Ticker : RowsOf(t) # << >>}
MergedRows == {Merged(t, RowsOf(t)) : t \in WithRows}
Passing == {row \in universe : Reason(row) = "none"}
Failing == {r \in universe : Reason(r) # "none"}

\* The outcome of a screen that ranked the passing rows in this way.
Screened(ranked) ==
    /\ eligible = [i \in DOMAIN ranked \intersect 1..Room |-> ranked[i]]
    /\ excluded =
          {[symbol |-> row.symbol, reason |-> Reason(row)] : row \in Failing}
          \union {[symbol |-> t, reason |-> "below_target_size"] : t \in Left(ranked)}

\* The providers are asked once: what was merged stays what they answered, and
\* what was screened is what was merged.
UInv ==
    /\ world \in [Asset -> World]
    /\ answers \in [{1, 2} -> SUBSET Asset \union {Null}]
    /\ phase \in {"fetching", "merged", "screened"}
    /\ universe = IF phase = "fetching" THEN {} ELSE MergedRows
    /\ IF phase = "screened" THEN \E ranked \in Ranked(Passing) : Screened(ranked)
       ELSE eligible = << >> /\ excluded = {}

\* The invariant holds at first.
LEMMA InitUInv == Init => UInv
  BY DEF Init, UInv

\* The merged rows are a function of the assets and of the answers.
LEMMA SameRows == ASSUME UNCHANGED <<world, answers>> PROVE MergedRows' = MergedRows
  BY DEF MergedRows, WithRows, RowsOf, Row, Merged

\* Every step preserves it.
LEMMA NextUInv == UInv /\ [Next]_vars => UInv'
<1> SUFFICES ASSUME UInv, [Next]_vars PROVE UInv'
  OBVIOUS
<1>1. CASE collectFundamentals
  <2>1. MergedRows' = MergedRows
    BY <1>1, SameRows DEF collectFundamentals
  <2>2. universe' = MergedRows
    BY <1>1 DEF collectFundamentals, MergedRows, WithRows
  <2>3. QED
    BY <1>1, <2>1, <2>2 DEF UInv, collectFundamentals
<1>2. CASE screen
  <2>1. MergedRows' = MergedRows
    BY <1>2, SameRows DEF screen
  <2>2. /\ Passing' = Passing /\ Failing' = Failing
        /\ \A row : Reason(row)' = Reason(row)
    <3>1. \A row : Reason(row)' = Reason(row)
      BY <1>2 DEF screen, Reason, looksLikeDerivative, looksLikeStablecoin
    <3>2. universe' = universe
      BY <1>2 DEF screen
    <3>3. QED
      BY <3>1, <3>2 DEF Passing, Failing
  <2>3. PICK ranked \in Ranked(Passing) :
          /\ eligible' = [i \in DOMAIN ranked \intersect 1..Room |-> ranked[i]]
          /\ excluded' =
                {[symbol |-> row.symbol, reason |-> Reason(row)] : row \in Failing}
                \union {[symbol |-> t, reason |-> "below_target_size"] : t \in Left(ranked)}
    BY <1>2 DEF screen, Passing, Failing
  <2>4. ranked \in Ranked(Passing)' /\ Screened(ranked)'
    BY <2>2, <2>3 DEF Ranked, Screened
  <2>5. QED
    BY <1>2, <2>1, <2>4 DEF UInv, screen
<1>3. CASE UNCHANGED vars
  <2>1. MergedRows' = MergedRows
    BY <1>3, SameRows DEF vars
  <2>2. \A row : Reason(row)' = Reason(row)
    BY <1>3 DEF vars, Reason, looksLikeDerivative, looksLikeStablecoin
  <2>3. Passing' = Passing /\ Failing' = Failing
    BY <1>3, <2>2 DEF vars, Passing, Failing
  <2>4. \A ranked : Screened(ranked) => Screened(ranked)'
    BY <1>3, <2>2, <2>3 DEF vars, Screened
  <2>5. QED
    BY <1>3, <2>1, <2>3, <2>4 DEF UInv, vars
<1>4. QED
  BY <1>1, <1>2, <1>3 DEF Next

\* It holds always.
LEMMA AlwaysUInv == Spec => []UInv
  BY InitUInv, NextUInv, PTL DEF Spec

-----------------------------------------------------------------------------
(* Ranks *)

\* Every merged row is of one ticker, named after one of its bearers, and what
\* passes is vouched for.
LEMMA RowFacts ==
    ASSUME UInv, NEW row \in universe
    PROVE  /\ row.symbol \in WithRows /\ row = Merged(row.symbol, RowsOf(row.symbol))
           /\ row.named \in Bearers(row.symbol) /\ row.cap2 \in Nat
           /\ Reason(row) = "none" => Vouched(row)
<1>1. PICK t \in WithRows : row = Merged(t, RowsOf(t))
  BY DEF UInv, MergedRows
<1>2. RowsOf(t) \in Seq(Reports(t)) /\ RowsOf(t) # << >>
  BY RowsOfType DEF WithRows
<1>3. /\ row.symbol = t /\ row.named \in Bearers(t) /\ row.cap2 \in Nat
      /\ Reason(row) = "none" => Vouched(row)
  BY <1>1, <1>2, MergedVouches DEF UInv
<1>4. QED
  BY <1>1, <1>3

\* The merged rows are finitely many.
LEMMA UniverseFinite == ASSUME UInv PROVE IsFiniteSet(universe)
<1> DEFINE f == [t \in WithRows |-> Merged(t, RowsOf(t))]
<1>1. IsFiniteSet(WithRows)
  BY FS_Subset, UniverseAssumption DEF WithRows
<1>2. f \in Surjection(WithRows, MergedRows)
  BY DEF Surjection, MergedRows
<1>3. IsFiniteSet(MergedRows)
  BY <1>1, <1>2, FS_Surjection
<1>4. QED
  BY <1>3, FS_EmptySet DEF UInv

\* A ranking of the passing rows, and the places of it that there is room for.
LEMMA RankedFacts ==
    ASSUME UInv, NEW ranked \in Ranked(Passing)
    PROVE  /\ Cardinality(Passing) \in Nat
           /\ ranked \in [1..Cardinality(Passing) -> Passing]
           /\ \A i, j \in DOMAIN ranked : i < j => ranked[i].cap2 >= ranked[j].cap2
<1>1. IsFiniteSet(Passing)
  BY UniverseFinite, FS_Subset DEF Passing
<1>2. QED
  BY <1>1, FS_CardinalityType DEF Ranked, SetToSeqs

\* No rule of the code is called below_target_size.
LEMMA ReasonIsARule == \A row : Reason(row) # "below_target_size"
  BY DEF Reason

\* What was selected are rows that passed.
LEMMA SelectedPass ==
    ASSUME UInv
    PROVE  \A row \in Selected : row \in universe /\ Reason(row) = "none"
<1>1. CASE phase = "screened"
  <2>1. PICK ranked \in Ranked(Passing) : Screened(ranked)
    BY <1>1 DEF UInv
  <2>2. ranked \in [1..Cardinality(Passing) -> Passing]
    BY <2>1, RankedFacts
  <2>3. QED
    BY <2>1, <2>2 DEF Screened, Selected, Passing
<1>2. CASE phase # "screened"
  BY <1>2 DEF UInv, Selected
<1>3. QED
  BY <1>1, <1>2

\* What is selected is vouched for.
LEMMA UInvVouches == UInv => NamesakesVouch
<1>1. SUFFICES ASSUME UInv, NEW row \in Selected PROVE Vouched(row)
  BY DEF NamesakesVouch, Vouched
<1>2. QED
  BY <1>1, SelectedPass, RowFacts

\* What has its ticker to itself is vouched for by the asset it is.
LEMMA VouchQualifies == UInv /\ NamesakesVouch => EligibleIsQualified
<1>1. SUFFICES ASSUME UInv, NamesakesVouch, NEW row \in Selected, Bearers(row.symbol) = {row.named}
               PROVE  LET w == world[row.named] IN
                      /\ w.kind = "coin"
                      /\ w.cap >= MinMarketCap
                      /\ w.age >= MinListingAge
                      /\ \E p \in {1, 2} : w.volume[p] >= MinVolume
  BY DEF EligibleIsQualified
<1> DEFINE w == world[row.named]
<1>2. /\ w.kind # "wrapped" /\ w.cap >= MinMarketCap /\ w.age >= MinListingAge
      /\ \E p \in {1, 2} : w.volume[p] >= MinVolume
      /\ w.kind # "stable"
  <2>1. Vouched(row)
    BY <1>1 DEF NamesakesVouch, Vouched
  <2>2. {world[a] : a \in Bearers(row.symbol)} = {w}
    BY <1>1
  <2> HIDE DEF w
  <2>3. world[row.named] = w
    BY DEF w
  <2>4. QED
    BY <2>1, <2>2, <2>3 DEF Vouched
<1>3. w \in World
  BY <1>1 DEF UInv, NamesakesVouch, Bearers
<1>4. w.kind \in {"coin", "stable", "wrapped"}
  BY <1>3 DEF World
<1>5. QED
  BY <1>2, <1>4

\* A function on the first m numbers is a sequence of length m.
LEMMA ListLength ==
    ASSUME NEW S, NEW m \in Nat, NEW s \in [1..m -> S]
    PROVE  Len(s) = m
<1>1. s \in Seq(S)
  BY SeqDef
<1>2. 1..Len(s) = 1..m /\ Len(s) \in Nat
  BY <1>1, LenProperties
<1>3. \A k \in Nat : Cardinality(1..k) = k
  <2>1. SUFFICES ASSUME NEW k \in Nat PROVE Cardinality(1..k) = k
    OBVIOUS
  <2>2. Cardinality(1..k) = IF 1 > k THEN 0 ELSE k - 1 + 1
    BY FS_Interval
  <2>3. QED
    BY <2>2
<1>4. Cardinality(1..Len(s)) = Len(s) /\ Cardinality(1..m) = m
  BY <1>2, <1>3
<1>5. QED
  BY <1>2, <1>4

\* What is left for want of room is ranked behind what is selected, and then
\* all the room is taken.
LEMMA UInvRanks == UInv => RankIsSound
<1>1. SUFFICES ASSUME UInv, NEW x \in excluded, x.reason = "below_target_size"
               PROVE  /\ Len(eligible) = TargetSize
                      /\ \A row \in universe : row.symbol = x.symbol =>
                            \A s \in Selected : row.cap2 <= s.cap2
  BY DEF RankIsSound
<1>2. PICK ranked \in Ranked(Passing) : Screened(ranked)
  BY <1>1 DEF UInv
<1> DEFINE n == Cardinality(Passing)
<1>3. /\ n \in Nat /\ ranked \in [1..n -> Passing]
      /\ \A i, j \in 1..n : i < j => ranked[i].cap2 >= ranked[j].cap2
  BY <1>1, <1>2, RankedFacts
<1>4. x.symbol \in Left(ranked)
  <2>1. \A row : [symbol |-> row.symbol, reason |-> Reason(row)] # x
    BY <1>1, ReasonIsARule
  <2>2. x \in {[symbol |-> t, reason |-> "below_target_size"] : t \in Left(ranked)}
    BY <1>2, <2>1 DEF Screened
  <2>3. QED
    BY <2>2
<1> HIDE DEF n
<1>5. PICK k \in 1..n : k \notin 1..Room /\ x.symbol = ranked[k].symbol
  BY <1>3, <1>4 DEF Left
<1>6. Room \in Nat /\ Room < k
  BY <1>3, <1>5, UniverseAssumption DEF Room
<1>7. DOMAIN ranked \intersect 1..Room = 1..Room
  BY <1>3, <1>6
<1>8. eligible = [i \in 1..Room |-> ranked[i]]
  BY <1>2, <1>7 DEF Screened
<1>9. Len(eligible) = TargetSize
  <2>1. eligible \in [1..Room -> Passing]
    BY <1>3, <1>6, <1>8
  <2>2. QED
    BY <1>6, <2>1, ListLength DEF Room
<1>10. ASSUME NEW row \in universe, row.symbol = x.symbol, NEW s \in Selected
       PROVE  row.cap2 <= s.cap2
  <2>1. PICK i \in 1..Room : s = ranked[i]
    BY <1>8 DEF Selected
  <2>2. i \in 1..n /\ i < k
    BY <1>3, <1>6
  <2>3. ranked[k] \in universe /\ ranked[i] \in universe
    BY <1>3, <2>2 DEF Passing
  <2>4. row = ranked[k]
    BY <1>1, <1>5, <1>10, <2>3, RowFacts
  <2>5. ranked[i].cap2 >= ranked[k].cap2
    BY <1>3, <2>2
  <2>6. ranked[i].cap2 \in Nat /\ ranked[k].cap2 \in Nat
    BY <1>1, <2>3, RowFacts
  <2>7. QED
    BY <2>1, <2>4, <2>5, <2>6
<1>11. QED
  BY <1>9, <1>10

-----------------------------------------------------------------------------
(* The theorems *)

\* Type correctness, of the code's collectFundamentals and screen: what is
\* selected was merged, no more than there is room for.
THEOREM TypeCorrect == Spec => []TypeOK
<1>1. UInv => TypeOK
  <2>1. SUFFICES ASSUME UInv PROVE TypeOK
    OBVIOUS
  <2>2. \A row \in universe : row.symbol \in Ticker /\ row.named \in Asset
    BY <2>1, RowFacts DEF WithRows, Bearers
  <2>3. CASE phase = "screened"
    <3>1. PICK ranked \in Ranked(Passing) : Screened(ranked)
      BY <2>1, <2>3 DEF UInv
    <3> DEFINE n == Cardinality(Passing)
               m == IF n <= Room THEN n ELSE Room
    <3>2. n \in Nat /\ ranked \in [1..n -> Passing] /\ Passing \subseteq universe
      BY <2>1, <3>1, RankedFacts DEF Passing
    <3> HIDE DEF n
    <3>3. Room \in Nat
      BY UniverseAssumption DEF Room
    <3>4. DOMAIN ranked \intersect 1..Room = 1..m /\ m \in Nat /\ m <= Room /\ m <= n
      BY <3>2, <3>3
    <3> HIDE DEF m
    <3>5. eligible \in [1..m -> universe]
      BY <3>1, <3>2, <3>4 DEF Screened
    <3>6. Len(eligible) <= TargetSize
      <4>1. Len(eligible) = m
        BY <3>4, <3>5, ListLength
      <4>2. QED
        BY <3>4, <4>1 DEF Room
    <3>7. \A x \in excluded : x.symbol \in Ticker
      <4>1. SUFFICES ASSUME NEW x \in excluded PROVE x.symbol \in Ticker
        OBVIOUS
      <4>2. (\E row \in universe : x.symbol = row.symbol) \/ x.symbol \in Left(ranked)
        BY <3>1 DEF Screened, Failing
      <4>3. Left(ranked) \subseteq Ticker
        BY <2>2, <3>2 DEF Left
      <4>4. QED
        BY <2>2, <4>2, <4>3
    <3>8. Selected \subseteq universe
      BY <2>1, SelectedPass
    <3>9. QED
      BY <2>1, <2>2, <3>6, <3>7, <3>8 DEF UInv, TypeOK
  <2>4. CASE phase # "screened"
    <3>1. eligible = << >> /\ excluded = {} /\ Selected = {}
      BY <2>1, <2>4 DEF UInv, Selected
    <3>2. Len(eligible) <= TargetSize
      BY <3>1, UniverseAssumption
    <3>3. QED
      BY <2>1, <2>2, <3>1, <3>2 DEF UInv, TypeOK
  <2>5. QED
    BY <2>3, <2>4
<1>2. QED
  BY <1>1, AlwaysUInv, PTL

\* Rows of assets that share a ticker are merged, but each thing that lets the
\* row into the index is true of one of them, whatever the providers omitted.
THEOREM EverythingIsVouchedFor == Spec => []NamesakesVouch
  BY AlwaysUInv, UInvVouches, PTL

\* What has its ticker to itself is in the index only when it is a coin, big,
\* old and traded enough, whatever the providers omitted.
THEOREM OnlyQualifiedEnter == Spec => []EligibleIsQualified
  BY AlwaysUInv, UInvVouches, VouchQualifies, PTL

\* The cut at the target size is by market cap, however ties are ordered.
THEOREM CutIsByMarketCap == Spec => []RankIsSound
  BY AlwaysUInv, UInvRanks, PTL
=============================================================================
