------------------------- MODULE BuyerReportProofs -------------------------
(***************************************************************************)
(* What a report shows (Analytics) and who owned the account when           *)
(* (Ownership): proofs for any buyers, workers, periods, amounts and        *)
(* timezones, and for any number of concurrent requests and history rows.   *)
(***************************************************************************)
EXTENDS Analytics, Ownership, FiniteSetTheorems, TLAPS

-----------------------------------------------------------------------------
(* What a sum over a finite set is: how many units its elements have. *)

\* One unit for each of the v[x] that x counts.
Units(v, S) == UNION {{x} \X (1 .. v[x]) : x \in S}

Chosen(s) == CHOOSE x \in s : TRUE

LEMMA UnitsOf ==
  ASSUME NEW S, NEW v, NEW u
  PROVE  u \in Units(v, S) <=> \E x \in S : \E k \in 1 .. v[x] : u = <<x, k>>
BY DEF Units

LEMMA UnitsFinite ==
  ASSUME NEW S, IsFiniteSet(S), NEW v \in [S -> Nat]
  PROVE  \A T \in SUBSET S : IsFiniteSet(Units(v, T)) /\ Cardinality(Units(v, T)) \in Nat
<1> TAKE T \in SUBSET S
<1> DEFINE col == [x \in T |-> {x} \X (1 .. v[x])]
           cols == {{x} \X (1 .. v[x]) : x \in T}
<1>1. IsFiniteSet(T)
  BY FS_Subset
<1>2. col \in Surjection(T, cols)
  BY DEF Surjection
<1>3. IsFiniteSet(cols)
  BY <1>1, <1>2, FS_Surjection
<1>4. \A c \in cols : IsFiniteSet(c)
  <2> TAKE c \in cols
  <2>1. PICK x \in T : c = {x} \X (1 .. v[x])
    OBVIOUS
  <2>2. IsFiniteSet(1 .. v[x]) /\ IsFiniteSet({x})
    <3>1. v[x] \in Int
      BY <2>1
    <3>2. IsFiniteSet(1 .. v[x])
      BY <3>1, FS_Interval
    <3> QED BY <3>2, FS_Singleton
  <2> QED BY <2>1, <2>2, FS_Product
<1>5. IsFiniteSet(UNION cols)
  BY <1>3, <1>4, FS_UNION
<1> QED BY <1>5, FS_CardinalityType DEF Units

LEMMA UnitsColumn ==
  ASSUME NEW x, NEW n \in Nat
  PROVE  IsFiniteSet({x} \X (1 .. n)) /\ Cardinality({x} \X (1 .. n)) = n
<1>1. IsFiniteSet(1 .. n) /\ Cardinality(1 .. n) = n
  BY FS_Interval
<1>2. IsFiniteSet({x}) /\ Cardinality({x}) = 1
  BY FS_Singleton
<1> QED BY <1>1, <1>2, FS_Product

LEMMA UnitsSplit ==
  ASSUME NEW S, IsFiniteSet(S), NEW v \in [S -> Nat],
         NEW A \in SUBSET S, NEW B \in SUBSET S, A \cap B = {}
  PROVE  Cardinality(Units(v, A \cup B)) = Cardinality(Units(v, A)) + Cardinality(Units(v, B))
<1>1. Units(v, A \cup B) = Units(v, A) \cup Units(v, B)
  BY DEF Units
<1>2. Units(v, A) \cap Units(v, B) = {}
  BY UnitsOf
<1>3. /\ IsFiniteSet(Units(v, A)) /\ IsFiniteSet(Units(v, B))
      /\ Cardinality(Units(v, A)) \in Nat /\ Cardinality(Units(v, B)) \in Nat
  BY UnitsFinite
<1>4. Cardinality(Units(v, A) \cup Units(v, B)) =
        Cardinality(Units(v, A)) + Cardinality(Units(v, B))
          - Cardinality(Units(v, A) \cap Units(v, B))
  BY <1>3, FS_Union
<1>5. Cardinality(Units(v, A) \cap Units(v, B)) = 0
  BY <1>2, FS_EmptySet
<1> DEFINE a == Cardinality(Units(v, A))
           b == Cardinality(Units(v, B))
           c == Cardinality(Units(v, A \cup B))
<1>6. a \in Nat /\ b \in Nat /\ c = a + b - 0
  BY <1>1, <1>3, <1>4, <1>5
<1> HIDE DEF a, b, c
<1>7. c = a + b
  BY <1>6
<1> QED BY <1>7 DEF a, b, c

\* The equation of MapThenSumSet has one solution.
Adds(v, S, f) ==
  f = [s \in SUBSET S |-> IF s = {} THEN 0 ELSE v[Chosen(s)] + f[s \ {Chosen(s)}]]

LEMMA FoldUnique ==
  ASSUME NEW S, IsFiniteSet(S), NEW v, NEW f, NEW g, Adds(v, S, f), Adds(v, S, g)
  PROVE  f[S] = g[S]
<1> USE DEF Adds
<1> DEFINE Bad == {s \in SUBSET S : f[s] # g[s]}
<1>1. IsWellFoundedOn(StrictSubsetOrdering(S), SUBSET S)
  BY FS_StrictSubsetOrderingWellFounded, FS_FiniteSubsetsOfFinite
<1>2. ASSUME Bad # {} PROVE FALSE
  <2>1. PICK s \in Bad : \A t \in Bad : <<t, s>> \notin StrictSubsetOrdering(S)
    <3> DEFINE R == StrictSubsetOrdering(S)
               U == SUBSET S
    <3>1. IsWellFoundedOn(R, U) /\ Bad \subseteq U /\ Bad # {}
      BY <1>1, <1>2
    <3> HIDE DEF R, U, Bad
    <3>2. \E s \in Bad : \A t \in Bad : <<t, s>> \notin R
      BY <3>1, WFMin
    <3> QED BY <3>2 DEF R
  <2>2. s # {}
    <3>1. f[{}] = 0 /\ g[{}] = 0
      OBVIOUS
    <3> QED BY <3>1
  <2>3. Chosen(s) \in s
    BY <2>2 DEF Chosen
  <2>4. s \ {Chosen(s)} \notin Bad
    <3> DEFINE t == s \ {Chosen(s)}
    <3>1. t \in SUBSET S /\ s \in SUBSET S /\ t \subseteq s /\ t # s
      BY <2>3
    <3>2. <<t, s>> \in StrictSubsetOrdering(S)
      <4> HIDE DEF t
      <4> QED BY <3>1 DEF StrictSubsetOrdering
    <3> QED BY <2>1, <3>2
  <2>5. f[s \ {Chosen(s)}] = g[s \ {Chosen(s)}]
    BY <2>4
  <2>6. f[s] = v[Chosen(s)] + f[s \ {Chosen(s)}] /\ g[s] = v[Chosen(s)] + g[s \ {Chosen(s)}]
    BY <2>2
  <2> QED BY <2>5, <2>6
<1> QED BY <1>2

\* The sum of the values of some differences, and of those of some bars.
AddsValues(S, f) ==
  f = [s \in SUBSET S |-> IF s = {} THEN 0 ELSE Chosen(s).value + f[s \ {Chosen(s)}]]

AddsBars(bars, S, f) ==
  f = [s \in SUBSET S |-> IF s = {} THEN 0 ELSE bars[Chosen(s)].value + f[s \ {Chosen(s)}]]

BarSum(bars, S) == MapThenSumSet(LAMBDA k : bars[k].value, S)

LEMMA SumOfBars ==
  ASSUME NEW bars, NEW S, IsFiniteSet(S), NEW v, NEW g, Adds(v, S, g),
         \A x \in S : v[x] = bars[x].value
  PROVE  BarSum(bars, S) = g[S]
<1>1. BarSum(bars, S) = (CHOOSE f : AddsBars(bars, S, f))[S]
  BY DEF BarSum, MapThenSumSet, MapThenFoldSet, Chosen, AddsBars
<1>2. \A s \in SUBSET S : s # {} => Chosen(s) \in S
  BY DEF Chosen
<1>3. \A f : AddsBars(bars, S, f) <=> Adds(v, S, f)
  <2> TAKE f
  <2>1. [s \in SUBSET S |-> IF s = {} THEN 0 ELSE bars[Chosen(s)].value + f[s \ {Chosen(s)}]] =
        [s \in SUBSET S |-> IF s = {} THEN 0 ELSE v[Chosen(s)] + f[s \ {Chosen(s)}]]
    BY <1>2
  <2> QED BY <2>1 DEF AddsBars, Adds
<1>4. AddsBars(bars, S, CHOOSE f : AddsBars(bars, S, f))
  BY <1>3
<1> QED BY <1>1, <1>3, <1>4, FoldUnique

LEMMA SumOfValues ==
  ASSUME NEW S, IsFiniteSet(S), NEW v, NEW g, Adds(v, S, g), \A x \in S : v[x] = x.value
  PROVE  MapThenSumSet(LAMBDA d : d.value, S) = g[S]
<1>1. MapThenSumSet(LAMBDA d : d.value, S) = (CHOOSE f : AddsValues(S, f))[S]
  BY DEF MapThenSumSet, MapThenFoldSet, Chosen, AddsValues
<1>2. \A s \in SUBSET S : s # {} => Chosen(s) \in S
  BY DEF Chosen
<1>3. \A f : AddsValues(S, f) <=> Adds(v, S, f)
  <2> TAKE f
  <2>1. [s \in SUBSET S |-> IF s = {} THEN 0 ELSE Chosen(s).value + f[s \ {Chosen(s)}]] =
        [s \in SUBSET S |-> IF s = {} THEN 0 ELSE v[Chosen(s)] + f[s \ {Chosen(s)}]]
    BY <1>2
  <2> QED BY <2>1 DEF AddsValues, Adds
<1>4. AddsValues(S, CHOOSE f : AddsValues(S, f))
  BY <1>3
<1> QED BY <1>1, <1>3, <1>4, FoldUnique

\* A sum counts the units.
LEMMA UnitsAdd ==
  ASSUME NEW S, IsFiniteSet(S), NEW v \in [S -> Nat]
  PROVE  Adds(v, S, [s \in SUBSET S |-> Cardinality(Units(v, s))])
<1> DEFINE g == [s \in SUBSET S |-> Cardinality(Units(v, s))]
<1>1. ASSUME NEW s \in SUBSET S
      PROVE  g[s] = IF s = {} THEN 0 ELSE v[Chosen(s)] + g[s \ {Chosen(s)}]
  <2>1. CASE s = {}
    BY <2>1, FS_EmptySet DEF Units
  <2>2. CASE s # {}
    <3> DEFINE x == Chosen(s)
    <3>1. x \in s
      BY <2>2 DEF Chosen
    <3>2. s = {x} \cup (s \ {x}) /\ {x} \cap (s \ {x}) = {} /\ v[x] \in Nat
      BY <3>1
    <3>3. Cardinality(Units(v, {x})) = v[x]
      <4>1. Units(v, {x}) = {x} \X (1 .. v[x])
        BY DEF Units
      <4> QED BY <3>2, <4>1, UnitsColumn
    <3>4. Cardinality(Units(v, {x} \cup (s \ {x}))) =
            Cardinality(Units(v, {x})) + Cardinality(Units(v, s \ {x}))
      BY <3>1, <3>2, UnitsSplit
    <3> QED BY <2>2, <3>1, <3>2, <3>3, <3>4
  <2> QED BY <2>1, <2>2
<1> QED BY <1>1 DEF Adds

-----------------------------------------------------------------------------
(* The rows of the account. *)

\* The rows are finitely many, one for an instant, each under the day of its
\* instant; no call and no row is of the future.
RowsKept ==
  /\ IsFiniteSet(snaps)
  /\ \A s \in snaps : s.day = LocalDay(s.at) /\ s.at <= now
  /\ \A s, o \in snaps : s.at = o.at => s = o
  /\ \A w \in Workers : call[w] # Idle => call[w] <= now

AInv == TypeOK /\ RowsKept

LEMMA DivRange ==
  ASSUME NEW x \in Nat, NEW k \in Nat \ {0}
  PROVE  /\ x \div k \in Nat
         /\ (x \div k) * k <= x
         /\ x < (x \div k) * k + k
OBVIOUS

LEMMA DivOrder ==
  ASSUME NEW x \in Nat, NEW y \in Nat, NEW k \in Nat \ {0}, x <= y
  PROVE  x \div k <= y \div k
<1> DEFINE a == x \div k
           b == y \div k
<1>1. a \in Nat /\ b \in Nat /\ a * k <= x /\ x < a * k + k /\ b * k <= y /\ y < b * k + k
  BY DivRange
<1> HIDE DEF a, b
<1>2. ASSUME b < a PROVE FALSE
  <2>1. PICK c \in Nat : a = b + 1 + c
    <3>1. a - b - 1 \in Nat /\ a = b + 1 + (a - b - 1)
      BY <1>1, <1>2
    <3> QED BY <3>1
  <2>2. a * k = b * k + k + c * k /\ c * k \in Nat /\ b * k \in Nat
    BY <1>1, <2>1
  <2> QED BY <1>1, <2>2
<1>3. a <= b
  BY <1>1, <1>2
<1> QED BY <1>3 DEF a, b

LEMMA LocalDays ==
  /\ \A i \in Nat : LocalDay(i) \in Nat
  /\ \A i, j \in Nat : i <= j => LocalDay(i) <= LocalDay(j)
  /\ \A i \in Times : i \in Nat /\ LocalDay(i) \in Days
<1>1. ZoneShift \in Nat /\ DayLen \in Nat \ {0} /\ MaxTime \in Nat
  BY AnalyticsAssumption
<1>2. \A i \in Nat : LocalDay(i) \in Nat
  BY <1>1, DivRange DEF LocalDay
<1>3. \A i, j \in Nat : i <= j => LocalDay(i) <= LocalDay(j)
  <2> TAKE i, j \in Nat
  <2> HAVE i <= j
  <2>1. i + ZoneShift \in Nat /\ j + ZoneShift \in Nat /\ i + ZoneShift <= j + ZoneShift
    BY <1>1
  <2> QED BY <1>1, <2>1, DivOrder DEF LocalDay
<1>4. \A i \in Times : i \in Nat /\ LocalDay(i) \in Days
  <2> TAKE i \in Times
  <2>1. i \in Nat /\ i <= MaxTime
    BY <1>1 DEF Times
  <2>2. LocalDay(i) \in Nat /\ LocalDay(MaxTime) \in Nat /\ LocalDay(i) <= LocalDay(MaxTime)
    BY <1>1, <1>2, <1>3, <2>1
  <2> QED BY <2>1, <2>2 DEF Days
<1> QED BY <1>2, <1>3, <1>4

LEMMA AnalyticsInit == Init => AInv
<1> SUFFICES ASSUME Init PROVE AInv
  OBVIOUS
<1>1. meter \in [Days -> 0 .. MaxSpend]
  BY AnalyticsAssumption DEF Init
<1>2. IsFiniteSet(snaps)
  BY FS_EmptySet DEF Init
<1>3. call \in [Workers -> Times \cup {Idle}] /\ owner \in [Times -> Buyers \cup {Nobody}]
  BY DEF Init
<1>4. now \in Times /\ snaps = {} /\ \A w \in Workers : call[w] = Idle
  BY AnalyticsAssumption DEF Init, Times
<1> QED BY <1>1, <1>2, <1>3, <1>4 DEF AInv, TypeOK, RowsKept

LEMMA AnswerKept ==
  ASSUME AInv, NEW w \in Workers, Answer(w) PROVE AInv'
<1> DEFINE s == Row(call[w], meter[LocalDay(now)])
<1>1. call[w] \in Times /\ call[w] \in Nat /\ now \in Nat /\ call[w] <= now
      /\ now \in Times /\ LocalDay(now) \in Days /\ LocalDay(call[w]) \in Days
  BY LocalDays DEF Answer, AInv, TypeOK, RowsKept
<1>2. s = [at |-> call[w], day |-> LocalDay(call[w]), value |-> meter[LocalDay(now)],
           seen |-> LocalDay(now)]
  BY DEF Row, metaDate
<1>3. meter[LocalDay(now)] \in 0 .. MaxSpend
  BY <1>1 DEF AInv, TypeOK
<1>4. LocalDay(call[w]) <= LocalDay(now)
  BY <1>1, LocalDays
<1>5. snaps' = {o \in snaps : o.at # call[w]} \cup {s}
  BY <1>2 DEF Answer, SaveSnapshot
<1>6. IsFiniteSet(snaps')
  <2>1. IsFiniteSet({o \in snaps : o.at # call[w]})
    BY FS_Subset DEF AInv, RowsKept
  <2> QED BY <1>5, <2>1, FS_AddElement
<1>7. s \in [at : Times, day : Days, value : 0 .. MaxSpend, seen : Days] /\ s.day <= s.seen
      /\ s.at = call[w] /\ s.day = LocalDay(s.at)
  BY <1>1, <1>2, <1>3, <1>4
<1>8. UNCHANGED <<now, meter, owner>> /\ call' = [call EXCEPT ![w] = Idle]
  BY DEF Answer
<1> HIDE DEF s
<1>9. TypeOK'
  BY <1>5, <1>7, <1>8 DEF AInv, TypeOK
<1>10. RowsKept'
  <2>1. \A o \in snaps' : o.day = LocalDay(o.at) /\ o.at <= now'
    BY <1>1, <1>5, <1>7, <1>8 DEF AInv, RowsKept
  <2>2. \A o, p \in snaps' : o.at = p.at => o = p
    BY <1>5, <1>7 DEF AInv, RowsKept
  <2>3. \A v \in Workers : call'[v] # Idle => call'[v] <= now'
    BY <1>8 DEF AInv, TypeOK, RowsKept
  <2> QED BY <1>6, <2>1, <2>2, <2>3 DEF RowsKept
<1> QED BY <1>9, <1>10 DEF AInv

LEMMA AnalyticsStep == AInv /\ [Next]_vars => AInv'
<1> SUFFICES ASSUME AInv, [Next]_vars PROVE AInv'
  OBVIOUS
<1>0. now \in Times /\ now \in Nat /\ LocalDay(now) \in Days
  BY LocalDays DEF AInv, TypeOK
<1>1. CASE Spend \/ Restate
  <2>1. meter[LocalDay(now)] \in 0 .. MaxSpend
    BY <1>0 DEF AInv, TypeOK
  <2>2. meter' \in [Days -> 0 .. MaxSpend]
    BY <1>0, <1>1, <2>1, AnalyticsAssumption DEF Spend, Restate, AInv, TypeOK
  <2> QED BY <1>1, <2>2 DEF Spend, Restate, AInv, TypeOK, RowsKept
<1>2. CASE Tick
  <2>1. now' \in Times /\ now <= now' /\ now' \in Nat
    BY <1>0, <1>2, AnalyticsAssumption DEF Tick, Times
  <2>2. \A s \in snaps : s.at \in Nat
    BY LocalDays DEF AInv, TypeOK
  <2>3. \A w \in Workers : call[w] # Idle => call[w] \in Nat
    BY LocalDays DEF AInv, TypeOK
  <2>4. TypeOK'
    BY <1>2, <2>1 DEF Tick, AInv, TypeOK
  <2>5. RowsKept'
    BY <1>0, <1>2, <2>1, <2>2, <2>3 DEF Tick, AInv, RowsKept
  <2> QED BY <2>4, <2>5 DEF AInv
<1>3. ASSUME NEW w \in Workers, StartCall(w) \/ CallFails(w) PROVE AInv'
  BY <1>0, <1>3 DEF StartCall, CallFails, AInv, TypeOK, RowsKept
<1>4. ASSUME NEW b \in Buyers \cup {Nobody}, Reassign(b) PROVE AInv'
  BY <1>4 DEF Reassign, AInv, TypeOK, RowsKept
<1>5. CASE UNCHANGED vars
  BY <1>5 DEF vars, AInv, TypeOK, RowsKept
<1> QED BY <1>1, <1>2, <1>3, <1>4, <1>5, AnswerKept DEF Next

LEMMA AnalyticsInvariant == Spec => []AInv
BY AnalyticsInit, AnalyticsStep, PTL DEF Spec

\* The snapshots, the calls under way, what Meta says and the owners are typed.
THEOREM AnalyticsTypeCorrect == Spec => []TypeOK
<1>1. AInv => TypeOK
  BY DEF AInv
<1> QED BY <1>1, AnalyticsInvariant, PTL

-----------------------------------------------------------------------------
(* What calculateDeltas computes: the difference of each row of the period to *)
(* the row before it, whatever the period.                                    *)

Delta(viewer, s) ==
  [at |-> s.at, day |-> s.day, value |-> snapshotDelta(s, Previous(viewer, s.at))]

LEMMA Rows ==
  ASSUME AInv, NEW s \in snaps
  PROVE  /\ s.at \in Nat /\ s.at \in Times /\ s.at <= MaxTime /\ s.value \in Nat
         /\ s.value <= MaxSpend /\ s.day \in Nat /\ s.day = LocalDay(s.at)
<1>1. s.at \in Times /\ s.value \in 0 .. MaxSpend /\ s.day = LocalDay(s.at)
  BY DEF AInv, TypeOK, RowsKept
<1>2. s.at \in Nat /\ s.at <= MaxTime /\ s.day \in Nat
  BY <1>1, LocalDays, AnalyticsAssumption DEF Times
<1> QED BY <1>1, <1>2, AnalyticsAssumption

\* Rows before an instant have a last one.
LEMMA Latest ==
  ASSUME AInv, NEW viewer, NEW t \in Int,
         NEW o \in snaps, Visible(viewer, o), o.at < t
  PROVE  \E q \in Previous(viewer, t) : o.at <= q.at
<1> DEFINE B == {s \in snaps : Visible(viewer, s) /\ s.at < t}
           R == {ss \in Nat \X Nat : ss[1] < ss[2]}
           left == {MaxTime - s.at : s \in B}
<1>1. IsWellFoundedOn(R, Nat)
  BY NatLessThanWellFounded DEF OpToRel
<1>2. \A s \in B : MaxTime - s.at \in Nat
  BY Rows, AnalyticsAssumption
<1>3. left \subseteq Nat /\ left # {}
  BY <1>2
<1>4. PICK n \in left : \A m \in left : <<m, n>> \notin R
  <2> HIDE DEF left, R
  <2> QED BY <1>1, <1>3, WFMin
<1>5. PICK q \in B : n = MaxTime - q.at
  BY <1>4
<1>6. \A s \in B : s.at <= q.at
  <2> TAKE s \in B
  <2>1. MaxTime - s.at \in left /\ MaxTime - s.at \in Nat /\ n \in Nat
    BY <1>2, <1>5
  <2>2. ~ (MaxTime - s.at < n)
    BY <1>4, <2>1
  <2> QED BY <1>5, <2>1, <2>2, Rows, AnalyticsAssumption
<1>7. q \in Previous(viewer, t) /\ o \in B
  BY <1>6 DEF Previous
<1> QED BY <1>6, <1>7

LEMMA PreviousIn ==
  ASSUME NEW viewer, NEW t
  PROVE  /\ Previous(viewer, t) \subseteq {s \in snaps : Visible(viewer, s) /\ s.at < t}
         /\ \A q \in Previous(viewer, t) : \A s \in snaps :
              Visible(viewer, s) /\ s.at < t => s.at <= q.at
         /\ \A q \in snaps :
              /\ Visible(viewer, q) /\ q.at < t
              /\ \A s \in snaps : Visible(viewer, s) /\ s.at < t => s.at <= q.at
              => q \in Previous(viewer, t)
BY DEF Previous

\* There is one row before at most.
LEMMA OnePrevious ==
  ASSUME AInv, NEW viewer, NEW t, NEW p \in Previous(viewer, t), NEW q \in Previous(viewer, t)
  PROVE  p = q
<1>1. p \in snaps /\ q \in snaps /\ p.at <= q.at /\ q.at <= p.at
  BY PreviousIn
<1>2. p.at \in Nat /\ q.at \in Nat
  BY <1>1, Rows
<1> QED BY <1>1, <1>2 DEF AInv, RowsKept

\* The rows a report reads are enough to know the row before each of its own.
LEMMA RowsRead ==
  ASSUME AInv, NEW viewer, NEW from \in Int, NEW to \in Int,
         NEW s \in InRange(viewer, from, to)
  PROVE  LET read == AnalyticsSnapshots(viewer, from, to)
             before == {o \in read : o.at < s.at}
         IN  {o \in before : \A p \in before : p.at <= o.at} = Previous(viewer, s.at)
<1> DEFINE read == AnalyticsSnapshots(viewer, from, to)
           before == {o \in read : o.at < s.at}
           last == {o \in before : \A p \in before : p.at <= o.at}
<1>1. read = Previous(viewer, from) \cup InRange(viewer, from, to)
  BY DEF AnalyticsSnapshots
<1>2. s \in snaps /\ s.at \in Nat /\ from <= s.at /\ s.at < to
  BY Rows DEF InRange
<1>3. \A o \in read : o \in snaps /\ Visible(viewer, o) /\ o.at \in Nat
  <2>1. \A o \in read : o \in snaps /\ Visible(viewer, o)
    BY <1>1, PreviousIn DEF InRange
  <2> QED BY <2>1, Rows
<1>4. \A o \in snaps : o.at \in Nat
  BY Rows
<1> HIDE DEF read
<1>5. ASSUME NEW o \in last PROVE o \in Previous(viewer, s.at)
  <2>1. o \in snaps /\ Visible(viewer, o) /\ o.at < s.at /\ o.at \in Nat
    BY <1>3, <1>5
  <2>2. ASSUME NEW p \in snaps, Visible(viewer, p), p.at < s.at PROVE p.at <= o.at
    <3>1. CASE from <= p.at
      <4>1. p \in read
        BY <1>1, <1>2, <1>4, <2>2, <3>1 DEF InRange
      <4> QED BY <1>5, <2>2, <4>1
    <3>2. CASE p.at < from
      <4>1. PICK q \in Previous(viewer, from) : p.at <= q.at
        BY <2>2, <3>2, Latest
      <4>2. q \in read /\ q \in snaps /\ q.at < from
        BY <1>1, <4>1, PreviousIn
      <4>3. q.at <= o.at
        BY <1>2, <1>4, <1>5, <4>2
      <4> QED BY <1>4, <2>1, <2>2, <4>1, <4>2, <4>3
    <3> QED BY <1>4, <3>1, <3>2
  <2> QED BY <2>1, <2>2, PreviousIn
<1>6. ASSUME NEW o \in Previous(viewer, s.at) PROVE o \in last
  <2>1. o \in snaps /\ Visible(viewer, o) /\ o.at < s.at /\ o.at \in Nat
        /\ \A p \in snaps : Visible(viewer, p) /\ p.at < s.at => p.at <= o.at
    BY <1>6, <1>4, PreviousIn
  <2>2. o \in read
    <3>1. CASE from <= o.at
      BY <1>1, <1>2, <2>1, <3>1 DEF InRange
    <3>2. CASE o.at < from
      <4>1. \A p \in snaps : Visible(viewer, p) /\ p.at < from => p.at <= o.at
        BY <1>2, <1>4, <2>1
      <4> QED BY <1>1, <2>1, <3>2, <4>1, PreviousIn
    <3> QED BY <2>1, <3>1, <3>2
  <2> QED BY <1>3, <2>1, <2>2
<1>7. last = Previous(viewer, s.at)
  BY <1>5, <1>6
<1> QED BY <1>7 DEF read

LEMMA Deltas ==
  ASSUME AInv, NEW viewer, NEW from \in Int, NEW to \in Int
  PROVE  calculateDeltas(viewer, from, to) = {Delta(viewer, s) : s \in InRange(viewer, from, to)}
<1> DEFINE read == AnalyticsSnapshots(viewer, from, to)
           before(s) == {o \in read : o.at < s.at}
           prev(s) == {o \in before(s) : \A p \in before(s) : p.at <= o.at}
<1>1. {r \in read : from <= r.at /\ r.at < to} = InRange(viewer, from, to)
  <2>1. CASE InRange(viewer, from, to) = {}
    BY <2>1 DEF AnalyticsSnapshots
  <2>2. CASE InRange(viewer, from, to) # {}
    <3>1. read = Previous(viewer, from) \cup InRange(viewer, from, to)
      BY <2>2 DEF AnalyticsSnapshots
    <3>2. \A r \in Previous(viewer, from) : ~ (from <= r.at)
      <4> TAKE r \in Previous(viewer, from)
      <4>1. r \in snaps /\ r.at < from
        BY PreviousIn
      <4> QED BY <4>1, Rows
    <3> QED BY <3>1, <3>2 DEF InRange
  <2> QED BY <2>1, <2>2
<1>2. \A s \in InRange(viewer, from, to) : prev(s) = Previous(viewer, s.at)
  BY RowsRead
<1>3. calculateDeltas(viewer, from, to) =
        {[at |-> s.at, day |-> s.day, value |-> snapshotDelta(s, prev(s))] :
           s \in {r \in read : from <= r.at /\ r.at < to}}
  BY DEF calculateDeltas
<1> HIDE DEF read, prev
<1> QED BY <1>1, <1>2, <1>3 DEF Delta

\* A difference is a number of units, no more than the row shows.
LEMMA DeltaValue ==
  ASSUME AInv, NEW viewer, NEW s \in snaps
  PROVE  /\ Delta(viewer, s).value \in 0 .. s.value
         /\ Delta(viewer, s).at = s.at /\ Delta(viewer, s).day = s.day
         /\ \A p \in Previous(viewer, s.at) :
              p.day = s.day => Delta(viewer, s).value = clamp(s.value - p.value)
         /\ (\A p \in Previous(viewer, s.at) : p.day # s.day)
              => Delta(viewer, s).value = s.value
<1> DEFINE prev == Previous(viewer, s.at)
<1>1. s.value \in Nat
  BY Rows
<1>2. \A p \in prev : p \in snaps /\ p.value \in Nat
  BY PreviousIn, Rows
<1>3. \A p, q \in prev : p = q
  BY OnePrevious
<1>4. /\ Delta(viewer, s).value = snapshotDelta(s, prev)
      /\ Delta(viewer, s).at = s.at /\ Delta(viewer, s).day = s.day
  BY DEF Delta
<1> HIDE DEF prev
<1>5. ASSUME NEW p \in prev, p.day = s.day
      PROVE  snapshotDelta(s, prev) = clamp(s.value - p.value)
  <2>1. (CHOOSE q \in prev : q.day = s.day) = p
    BY <1>3, <1>5
  <2> QED BY <1>5, <2>1 DEF snapshotDelta
<1>6. ASSUME \A p \in prev : p.day # s.day PROVE snapshotDelta(s, prev) = s.value
  BY <1>6 DEF snapshotDelta
<1>7. snapshotDelta(s, prev) \in 0 .. s.value
  <2>1. CASE \E p \in prev : p.day = s.day
    <3>1. PICK p \in prev : p.day = s.day
      BY <2>1
    <3>2. clamp(s.value - p.value) \in 0 .. s.value
      BY <1>1, <1>2, <3>1 DEF clamp
    <3> QED BY <1>5, <3>1, <3>2
  <2>2. CASE \A p \in prev : p.day # s.day
    BY <1>1, <1>6, <2>2
  <2> QED BY <2>1, <2>2
<1> QED BY <1>4, <1>5, <1>6, <1>7 DEF prev

-----------------------------------------------------------------------------
(* The figures of a report, as numbers of units. *)

Values(D) == [d \in D |-> d.value]
Total(D) == Cardinality(Units(Values(D), D))

LEMMA Accumulated ==
  ASSUME NEW D, IsFiniteSet(D), \A d \in D : d.value \in Nat
  PROVE  /\ Accumulate(D) = [value |-> Total(D), points |-> Cardinality(D)]
         /\ Total(D) \in Nat
<1> DEFINE g == [s \in SUBSET D |-> Cardinality(Units(Values(D), s))]
<1>1. Values(D) \in [D -> Nat] /\ \A d \in D : Values(D)[d] = d.value
  BY DEF Values
<1>2. Adds(Values(D), D, g)
  BY <1>1, UnitsAdd
<1>3. g[D] = Total(D)
  BY DEF Total
<1>4. MapThenSumSet(LAMBDA d : d.value, D) = g[D]
  <2> HIDE DEF g
  <2> QED BY <1>1, <1>2, SumOfValues
<1>5. Total(D) \in Nat
  BY <1>1, UnitsFinite DEF Total
<1> HIDE DEF g
<1> QED BY <1>3, <1>4, <1>5 DEF Accumulate

\* What is divided among two sets of differences adds up.
LEMMA AccumulateSplit ==
  ASSUME NEW A, NEW B, IsFiniteSet(A), IsFiniteSet(B), A \cap B = {},
         \A d \in A \cup B : d.value \in Nat
  PROVE  /\ Accumulate(A \cup B).value = Accumulate(A).value + Accumulate(B).value
         /\ Accumulate(A \cup B).points = Accumulate(A).points + Accumulate(B).points
<1> DEFINE S == A \cup B
           v == Values(S)
<1>1. IsFiniteSet(S) /\ Cardinality(S) = Cardinality(A) + Cardinality(B)
  <2>1. IsFiniteSet(S) /\ Cardinality(S) = Cardinality(A) + Cardinality(B) - Cardinality(A \cap B)
    BY FS_Union
  <2>2. Cardinality(A \cap B) = 0 /\ Cardinality(A) \in Nat /\ Cardinality(B) \in Nat
    BY FS_EmptySet, FS_CardinalityType
  <2> QED BY <2>1, <2>2
<1>2. v \in [S -> Nat]
  BY DEF Values
<1>3. Cardinality(Units(v, A \cup B)) = Cardinality(Units(v, A)) + Cardinality(Units(v, B))
  <2>1. A \in SUBSET S /\ B \in SUBSET S
    OBVIOUS
  <2> HIDE DEF v, S
  <2> QED BY <1>1, <1>2, <2>1, UnitsSplit
<1>4. Units(v, A) = Units(Values(A), A) /\ Units(v, B) = Units(Values(B), B)
  BY DEF Units, Values
<1>5. Total(S) = Total(A) + Total(B)
  BY <1>3, <1>4 DEF Total
<1>6. /\ Accumulate(A) = [value |-> Total(A), points |-> Cardinality(A)]
      /\ Accumulate(B) = [value |-> Total(B), points |-> Cardinality(B)]
      /\ Accumulate(S) = [value |-> Total(S), points |-> Cardinality(S)]
  BY <1>1, Accumulated
<1> HIDE DEF S, v
<1>7. /\ Accumulate(S).value = Accumulate(A).value + Accumulate(B).value
      /\ Accumulate(S).points = Accumulate(A).points + Accumulate(B).points
  BY <1>1, <1>5, <1>6
<1> QED BY <1>7 DEF S

\* Rows and their differences correspond.
LEMMA DeltaSet ==
  ASSUME AInv, NEW viewer, NEW X \in SUBSET snaps
  PROVE  /\ IsFiniteSet({Delta(viewer, s) : s \in X})
         /\ Cardinality({Delta(viewer, s) : s \in X}) = Cardinality(X)
         /\ \A d \in {Delta(viewer, s) : s \in X} : d.value \in Nat
         /\ \A s, o \in snaps : Delta(viewer, s) = Delta(viewer, o) => s = o
<1> DEFINE D == {Delta(viewer, s) : s \in X}
           f == [s \in X |-> Delta(viewer, s)]
<1>1. \A s, o \in snaps : Delta(viewer, s) = Delta(viewer, o) => s = o
  <2> TAKE s, o \in snaps
  <2> HAVE Delta(viewer, s) = Delta(viewer, o)
  <2>1. s.at = o.at
    BY DeltaValue
  <2> QED BY <2>1 DEF AInv, RowsKept
<1>2. f \in Bijection(X, D)
  <2>1. f \in [X -> D] /\ \A d \in D : \E s \in X : f[s] = d
    OBVIOUS
  <2>2. \A a, b \in X : f[a] = f[b] => a = b
    BY <1>1
  <2> HIDE DEF f, D
  <2> QED BY <2>1, <2>2 DEF Bijection, Injection, Surjection, IsInjective
<1>3. IsFiniteSet(X)
  BY FS_Subset DEF AInv, RowsKept
<1>4. IsFiniteSet(D) /\ Cardinality(D) = Cardinality(X)
  <2> HIDE DEF f, D
  <2> QED BY <1>2, <1>3, FS_Bijection DEF ExistsBijection
<1>5. \A d \in D : d.value \in Nat
  <2> TAKE d \in D
  <2>1. PICK s \in X : d = Delta(viewer, s)
    OBVIOUS
  <2>2. Delta(viewer, s).value \in 0 .. s.value /\ s.value \in Nat
    BY DeltaValue, Rows
  <2> QED BY <2>1, <2>2
<1> QED BY <1>1, <1>4, <1>5

LEMMA Period ==
  ASSUME AInv, NEW viewer, NEW from \in Int, NEW to \in Int
  PROVE  /\ IsFiniteSet(calculateDeltas(viewer, from, to))
         /\ Cardinality(calculateDeltas(viewer, from, to)) = Cardinality(InRange(viewer, from, to))
         /\ \A d \in calculateDeltas(viewer, from, to) : d.value \in Nat
<1>1. InRange(viewer, from, to) \in SUBSET snaps
  BY DEF InRange
<1>2. calculateDeltas(viewer, from, to) = {Delta(viewer, s) : s \in InRange(viewer, from, to)}
  BY Deltas
<1> QED BY <1>1, <1>2, DeltaSet

-----------------------------------------------------------------------------
(* What the reports promise. *)

\* Any period and the instant after it add up to the longer period, for every
\* viewer, however rows were stored, overwritten and restated: the difference of
\* a row does not depend on the period it is reported in.
THEOREM PeriodsAddUp == Spec => []RangesAddUp
<1>1. ASSUME AInv PROVE RangesAddUp
  <2> SUFFICES ASSUME NEW viewer \in Viewers, NEW from \in Times, NEW cut \in Times, from < cut
               PROVE  LET both == Compare(viewer, cut, cut + 1, from, cut)
                          whole == Aggregate(viewer, from, cut + 1)
                      IN  /\ both.current.value + both.previous.value = whole.value
                          /\ both.current.points + both.previous.points = whole.points
    BY DEF RangesAddUp
  <2> DEFINE A == calculateDeltas(viewer, from, cut)
             B == calculateDeltas(viewer, cut, cut + 1)
             W == calculateDeltas(viewer, from, cut + 1)
  <2>1. from \in Int /\ cut \in Int /\ cut + 1 \in Int
    BY LocalDays
  <2>2. \A s \in snaps : s.at \in Nat
    BY <1>1, Rows
  <2>3. /\ A = {Delta(viewer, s) : s \in InRange(viewer, from, cut)}
        /\ B = {Delta(viewer, s) : s \in InRange(viewer, cut, cut + 1)}
        /\ W = {Delta(viewer, s) : s \in InRange(viewer, from, cut + 1)}
    BY <1>1, <2>1, Deltas
  <2>4. InRange(viewer, from, cut + 1) =
          InRange(viewer, from, cut) \cup InRange(viewer, cut, cut + 1)
    BY <1>1, <2>1, <2>2 DEF InRange
  <2>5. W = A \cup B
    BY <2>3, <2>4
  <2>6. A \cap B = {}
    <3>1. ASSUME NEW s \in InRange(viewer, from, cut), NEW o \in InRange(viewer, cut, cut + 1)
          PROVE  Delta(viewer, s) # Delta(viewer, o)
      <4>1. s.at < cut /\ cut <= o.at /\ s \in snaps /\ o \in snaps
        BY DEF InRange
      <4>2. s # o
        BY <1>1, <2>1, <2>2, <4>1
      <4> QED BY <1>1, <4>1, <4>2, DeltaSet
    <3> QED BY <2>3, <3>1
  <2>7. IsFiniteSet(A) /\ IsFiniteSet(B) /\ \A d \in A \cup B : d.value \in Nat
    BY <1>1, <2>1, Period
  <2>8. /\ Accumulate(W).value = Accumulate(A).value + Accumulate(B).value
        /\ Accumulate(W).points = Accumulate(A).points + Accumulate(B).points
    <3> HIDE DEF A, B, W
    <3> QED BY <2>5, <2>6, <2>7, AccumulateSplit
  <2>9. /\ Accumulate(A) = [value |-> Total(A), points |-> Cardinality(A)]
        /\ Accumulate(B) = [value |-> Total(B), points |-> Cardinality(B)]
        /\ Total(A) \in Nat /\ Total(B) \in Nat
        /\ Cardinality(A) \in Nat /\ Cardinality(B) \in Nat
    <3> HIDE DEF A, B
    <3> QED BY <2>7, Accumulated, FS_CardinalityType
  <2> HIDE DEF A, B, W
  <2>10. /\ Accumulate(B).value + Accumulate(A).value = Accumulate(W).value
         /\ Accumulate(B).points + Accumulate(A).points = Accumulate(W).points
    BY <2>8, <2>9
  <2> QED BY <2>10 DEF Compare, Aggregate, A, B, W
<1> QED BY <1>1, AnalyticsInvariant, PTL

LEMMA Multiples ==
  ASSUME NEW m \in Nat, NEW n \in Nat, NEW k \in Nat, m < n
  PROVE  m * k + k <= n * k
<1>1. PICK j \in Nat : n = m + 1 + j
  <2>1. n - m - 1 \in Nat /\ n = m + 1 + (n - m - 1)
    OBVIOUS
  <2> QED BY <2>1
<1>2. n * k = m * k + k + j * k
  BY <1>1
<1>3. j * k \in Nat /\ m * k \in Nat
  BY <1>1
<1> QED BY <1>2, <1>3

\* A local day is the instants from its start to the start of the next.
LEMMA DayFrom ==
  ASSUME NEW i \in Nat, NEW d \in Nat
  PROVE  DayStart(d) \in Int /\ (d <= LocalDay(i) <=> DayStart(d) <= i)
<1> DEFINE q == LocalDay(i)
<1>1. ZoneShift \in Nat /\ DayLen \in Nat \ {0}
  BY AnalyticsAssumption
<1>2. q \in Nat /\ q * DayLen <= i + ZoneShift /\ i + ZoneShift < q * DayLen + DayLen
  <2>1. i + ZoneShift \in Nat
    BY <1>1
  <2> QED BY <1>1, <2>1, DivRange DEF LocalDay
<1>3. d * DayLen \in Nat /\ q * DayLen \in Nat
  BY <1>1, <1>2
<1> HIDE DEF q
<1>4. CASE d = 0
  BY <1>2, <1>4 DEF DayStart, q
<1>5. CASE d # 0
  <2>1. DayStart(d) = d * DayLen - ZoneShift
    BY <1>5 DEF DayStart
  <2>2. d <= q => d * DayLen <= q * DayLen
    <3>1. d < q => d * DayLen + DayLen <= q * DayLen
      BY <1>1, <1>2, Multiples
    <3> QED BY <1>1, <1>2, <1>3, <3>1
  <2>3. q < d => q * DayLen + DayLen <= d * DayLen
    BY <1>1, <1>2, Multiples
  <2>4. d <= q <=> DayStart(d) <= i
    BY <1>1, <1>2, <1>3, <2>1, <2>2, <2>3
  <2> QED BY <1>1, <1>3, <2>1, <2>4 DEF q
<1> QED BY <1>4, <1>5

LEMMA SameDay ==
  ASSUME AInv, NEW p \in snaps, NEW q \in snaps, NEW s \in snaps,
         p.at <= q.at, q.at <= s.at, p.day = s.day
  PROVE  q.day = s.day
<1>1. /\ p.at \in Nat /\ q.at \in Nat /\ s.at \in Nat
      /\ p.day = LocalDay(p.at) /\ q.day = LocalDay(q.at) /\ s.day = LocalDay(s.at)
      /\ p.day \in Nat /\ q.day \in Nat /\ s.day \in Nat
  BY Rows
<1>2. p.day <= q.day /\ q.day <= s.day
  BY <1>1, LocalDays
<1> QED BY <1>1, <1>2

\* A buyer who has had the account since the local day began is shown what the
\* account did, in every figure.
THEOREM SoleOwnersSeeAll == Spec => []SoleOwnerSeesAll
<1>1. ASSUME AInv PROVE SoleOwnerSeesAll
  <2> SUFFICES ASSUME NEW b \in Buyers, NEW from \in Times, NEW to \in Times, from < to,
                      \A i \in Times : DayStart(LocalDay(from)) <= i /\ i < to => owner[i] = b
               PROVE  BuyerRows(from, to)[b] = Aggregate(Everyone, from, to)
    BY DEF SoleOwnerSeesAll
  <2>1. from \in Nat /\ to \in Nat /\ from \in Int /\ to \in Int /\ LocalDay(from) \in Nat
    BY LocalDays
  <2>2. \A s \in snaps : Visible(Everyone, s)
    BY DEF Visible
  <2>3. ASSUME NEW s \in snaps, LocalDay(from) <= s.day, s.at < to
        PROVE  Visible(b, s)
    <3>1. s.at \in Times /\ s.at \in Nat /\ s.day = LocalDay(s.at)
      BY <1>1, Rows
    <3>2. DayStart(LocalDay(from)) <= s.at
      BY <2>1, <2>3, <3>1, DayFrom
    <3> QED BY <2>3, <3>1, <3>2 DEF Visible
  <2>4. ASSUME NEW s \in snaps, from <= s.at PROVE LocalDay(from) <= s.day
    BY <1>1, <2>1, <2>4, Rows, LocalDays
  <2>5. InRange(b, from, to) = InRange(Everyone, from, to)
    BY <2>2, <2>3, <2>4 DEF InRange
  <2>6. ASSUME NEW s \in InRange(Everyone, from, to) PROVE Delta(b, s) = Delta(Everyone, s)
    <3>1. s \in snaps /\ from <= s.at /\ s.at < to /\ LocalDay(from) <= s.day /\ s.at \in Nat
      BY <1>1, <2>4, Rows DEF InRange
    <3>2. \A q \in snaps : q.at \in Nat
      BY <1>1, Rows
    <3>3. ASSUME NEW q \in snaps, q.at < s.at, q.day = s.day PROVE Visible(b, q)
      BY <2>1, <2>3, <3>1, <3>2, <3>3
    <3>4. ASSUME NEW p \in Previous(b, s.at), p.day = s.day
          PROVE  p \in Previous(Everyone, s.at)
      <4>1. p \in snaps /\ p.at < s.at
        BY PreviousIn
      <4>2. ASSUME NEW q \in snaps, q.at < s.at, p.at < q.at PROVE FALSE
        <5>1. q.day = s.day
          BY <1>1, <3>1, <3>2, <3>4, <4>1, <4>2, SameDay
        <5>2. q.at <= p.at
          BY <3>3, <4>2, <5>1, PreviousIn
        <5> QED BY <3>2, <4>1, <4>2, <5>2
      <4>3. \A q \in snaps : q.at < s.at => q.at <= p.at
        BY <3>2, <4>1, <4>2
      <4> QED BY <2>2, <4>1, <4>3, PreviousIn
    <3>5. ASSUME NEW p \in Previous(Everyone, s.at), p.day = s.day
          PROVE  p \in Previous(b, s.at)
      <4>1. p \in snaps /\ p.at < s.at /\ \A q \in snaps : q.at < s.at => q.at <= p.at
        BY <2>2, PreviousIn
      <4> QED BY <3>3, <3>5, <4>1, PreviousIn
    <3>6. Delta(b, s).value = Delta(Everyone, s).value
      <4>1. CASE \E p \in Previous(b, s.at) : p.day = s.day
        BY <1>1, <3>1, <3>4, <4>1, DeltaValue
      <4>2. CASE \A p \in Previous(b, s.at) : p.day # s.day
        <5>1. \A p \in Previous(Everyone, s.at) : p.day # s.day
          BY <3>5, <4>2
        <5> QED BY <1>1, <3>1, <4>2, <5>1, DeltaValue
      <4> QED BY <4>1, <4>2
    <3> QED BY <3>6 DEF Delta
  <2>7. calculateDeltas(b, from, to) = calculateDeltas(Everyone, from, to)
    <3>1. /\ calculateDeltas(b, from, to) = {Delta(b, s) : s \in InRange(b, from, to)}
          /\ calculateDeltas(Everyone, from, to) =
               {Delta(Everyone, s) : s \in InRange(Everyone, from, to)}
      BY <1>1, <2>1, Deltas
    <3> QED BY <2>5, <2>6, <3>1
  <2> QED BY <2>7 DEF BuyerRows, Aggregate
<1> QED BY <1>1, AnalyticsInvariant, PTL

-----------------------------------------------------------------------------
(* The report of a local day. *)

\* What the row before said of the same day.
Base(s) ==
  IF \E p \in Previous(Everyone, s.at) : p.day = s.day
  THEN (CHOOSE p \in Previous(Everyone, s.at) : p.day = s.day).value
  ELSE 0

LEMMA BaseOf ==
  ASSUME AInv, NEW s \in snaps
  PROVE  /\ Base(s) \in Nat
         /\ Delta(Everyone, s).value = clamp(s.value - Base(s))
         /\ Base(s) # 0 =>
              \E p \in snaps : p.day = s.day /\ p.at < s.at /\ p.value = Base(s)
         /\ \A o \in snaps : o.day = s.day /\ o.at < s.at =>
              \E p \in snaps : /\ p.day = s.day /\ p.at < s.at /\ o.at <= p.at
                               /\ p.value = Base(s)
<1>1. s.value \in Nat /\ s.at \in Nat
  BY Rows
<1>2. \A p \in Previous(Everyone, s.at) : p \in snaps /\ p.at < s.at /\ p.value \in Nat
  BY PreviousIn, Rows
<1>3. ASSUME NEW p \in Previous(Everyone, s.at), p.day = s.day PROVE Base(s) = p.value
  <2>1. (CHOOSE q \in Previous(Everyone, s.at) : q.day = s.day) = p
    BY <1>3, OnePrevious
  <2> QED BY <1>3, <2>1 DEF Base
<1>4. ASSUME \A p \in Previous(Everyone, s.at) : p.day # s.day PROVE Base(s) = 0
  BY <1>4 DEF Base
<1>5. ASSUME NEW o \in snaps, o.day = s.day, o.at < s.at
      PROVE  \E p \in snaps : /\ p.day = s.day /\ p.at < s.at /\ o.at <= p.at
                              /\ p.value = Base(s)
  <2>1. PICK p \in Previous(Everyone, s.at) : o.at <= p.at
    BY <1>1, <1>5, Latest DEF Visible
  <2>2. p \in snaps /\ p.at < s.at
    BY <1>2
  <2>3. p.at \in Nat
    BY <2>2, Rows
  <2>4. p.day = s.day
    BY <1>1, <1>5, <2>1, <2>2, <2>3, SameDay
  <2> QED BY <1>3, <2>1, <2>2, <2>4
<1>6. CASE \E p \in Previous(Everyone, s.at) : p.day = s.day
  <2>1. PICK p \in Previous(Everyone, s.at) : p.day = s.day
    BY <1>6
  <2>2. Base(s) = p.value /\ Delta(Everyone, s).value = clamp(s.value - p.value)
    BY <1>3, <2>1, DeltaValue
  <2> QED BY <1>2, <1>5, <2>1, <2>2
<1>7. CASE \A p \in Previous(Everyone, s.at) : p.day # s.day
  <2>1. Base(s) = 0 /\ Delta(Everyone, s).value = s.value
    BY <1>4, <1>7, DeltaValue
  <2>2. s.value = clamp(s.value - 0)
    BY <1>1 DEF clamp
  <2> QED BY <1>5, <2>1, <2>2
<1> QED BY <1>6, <1>7

DayDeltas(d) == {Delta(Everyone, s) : s \in OfDay(d)}

LEMMA DayReport ==
  ASSUME AInv, NEW d \in Days
  PROVE  /\ IsFiniteSet(Units(Values(DayDeltas(d)), DayDeltas(d)))
         /\ DayTotal(d) = Cardinality(Units(Values(DayDeltas(d)), DayDeltas(d)))
<1>1. d \in Nat /\ d + 1 \in Nat
  BY LocalDays, AnalyticsAssumption DEF Days
<1>2. DayStart(d) \in Int /\ DayStart(d + 1) \in Int
  BY <1>1, DayFrom
<1>3. InRange(Everyone, DayStart(d), DayStart(d + 1)) = OfDay(d)
  <2>1. ASSUME NEW s \in snaps
        PROVE  s.day = d <=> DayStart(d) <= s.at /\ s.at < DayStart(d + 1)
    <3>1. s.at \in Nat /\ s.day \in Nat /\ s.day = LocalDay(s.at)
      BY Rows
    <3>2. d <= s.day <=> DayStart(d) <= s.at
      BY <1>1, <3>1, DayFrom
    <3>3. d + 1 <= s.day <=> DayStart(d + 1) <= s.at
      BY <1>1, <3>1, DayFrom
    <3> QED BY <1>1, <1>2, <3>1, <3>2, <3>3
  <2> QED BY <2>1 DEF InRange, OfDay, Visible
<1>4. calculateDeltas(Everyone, DayStart(d), DayStart(d + 1)) = DayDeltas(d)
  BY <1>2, <1>3, Deltas DEF DayDeltas
<1>5. DayTotal(d) = Accumulate(DayDeltas(d)).value
  BY <1>4 DEF DayTotal, Summary, Aggregate, Viewer
<1>6. IsFiniteSet(DayDeltas(d)) /\ \A e \in DayDeltas(d) : e.value \in Nat
  BY <1>2, <1>4, Period
<1>7. DayTotal(d) = Total(DayDeltas(d))
  BY <1>5, <1>6, Accumulated
<1>8. Values(DayDeltas(d)) \in [DayDeltas(d) -> Nat]
  BY <1>6 DEF Values
<1>9. IsFiniteSet(Units(Values(DayDeltas(d)), DayDeltas(d)))
  BY <1>6, <1>8, UnitsFinite
<1> QED BY <1>7, <1>9 DEF Total

LEMMA DayUnits ==
  ASSUME AInv, NEW d \in Days, NEW u
  PROVE  u \in Units(Values(DayDeltas(d)), DayDeltas(d)) <=>
           \E s \in OfDay(d) : \E k \in 1 .. Delta(Everyone, s).value :
             u = <<Delta(Everyone, s), k>>
<1> DEFINE D == DayDeltas(d)
<1>1. \A s \in OfDay(d) : Delta(Everyone, s) \in D
  BY DEF DayDeltas
<1>2. \A e \in D : \E s \in OfDay(d) : e = Delta(Everyone, s)
  BY DEF DayDeltas
<1>3. \A e \in D : Values(D)[e] = e.value
  BY DEF Values
<1> HIDE DEF D
<1>4. u \in Units(Values(D), D) <=> \E e \in D : \E k \in 1 .. Values(D)[e] : u = <<e, k>>
  BY UnitsOf
<1> QED BY <1>1, <1>2, <1>3, <1>4 DEF D

\* The first row of the day that shows j units.
First(d, j) ==
  CHOOSE s \in OfDay(d) : s.value >= j /\ \A o \in OfDay(d) : o.value >= j => s.at <= o.at

LEMMA FirstRow ==
  ASSUME AInv, NEW d, NEW j \in Nat, NEW r \in OfDay(d), r.value >= j
  PROVE  /\ First(d, j) \in OfDay(d) /\ First(d, j).value >= j
         /\ \A o \in OfDay(d) : o.value >= j => First(d, j).at <= o.at
<1> DEFINE R == {ss \in Nat \X Nat : ss[1] < ss[2]}
           T == {s.at : s \in {o \in OfDay(d) : o.value >= j}}
<1>1. IsWellFoundedOn(R, Nat)
  BY NatLessThanWellFounded DEF OpToRel
<1>2. \A s \in OfDay(d) : s.at \in Nat
  BY Rows DEF OfDay
<1>3. T \subseteq Nat /\ T # {}
  BY <1>2
<1>4. PICK t \in T : \A u \in T : <<u, t>> \notin R
  <2> HIDE DEF T, R
  <2> QED BY <1>1, <1>3, WFMin
<1>5. PICK s \in OfDay(d) : s.value >= j /\ t = s.at
  BY <1>4
<1>6. ASSUME NEW o \in OfDay(d), o.value >= j PROVE s.at <= o.at
  <2>1. o.at \in T /\ o.at \in Nat /\ s.at \in Nat
    BY <1>2, <1>5, <1>6
  <2>2. <<o.at, s.at>> \notin R
    <3> HIDE DEF T, R
    <3> QED BY <1>4, <1>5, <2>1
  <2> QED BY <2>1, <2>2
<1> QED BY <1>5, <1>6 DEF First

\* The report of a local day never shows less than some snapshot of that day saw:
\* each unit of a row is counted at the first row of the day that shows it.
THEOREM NothingGetsLost == Spec => []NothingLost
<1>1. ASSUME AInv PROVE NothingLost
  <2> SUFFICES ASSUME NEW d \in Days, NEW r \in OfDay(d) PROVE DayTotal(d) >= r.value
    BY DEF NothingLost
  <2> DEFINE n == r.value
             U == Units(Values(DayDeltas(d)), DayDeltas(d))
             f == [j \in 1 .. n |-> <<Delta(Everyone, First(d, j)), j - Base(First(d, j))>>]
  <2>1. n \in Nat
    BY <1>1, Rows DEF OfDay
  <2>2. ASSUME NEW j \in 1 .. n
        PROVE  /\ First(d, j) \in OfDay(d) /\ First(d, j) \in snaps
               /\ j - Base(First(d, j)) \in 1 .. Delta(Everyone, First(d, j)).value
               /\ Base(First(d, j)) \in Nat
    <3> DEFINE s == First(d, j)
    <3>1. s \in OfDay(d) /\ s.value >= j /\ \A o \in OfDay(d) : o.value >= j => s.at <= o.at
      BY <1>1, <2>1, FirstRow
    <3>2. s \in snaps /\ s.day = d
      BY <3>1 DEF OfDay
    <3> HIDE DEF s
    <3>3. s.value \in Nat /\ s.at \in Nat /\ Base(s) \in Nat
          /\ Delta(Everyone, s).value = clamp(s.value - Base(s))
      BY <1>1, <3>2, Rows, BaseOf
    <3>4. Base(s) < j
      <4>1. CASE Base(s) = 0
        BY <4>1
      <4>2. CASE Base(s) # 0
        <5>1. PICK p \in snaps : p.day = s.day /\ p.at < s.at /\ p.value = Base(s)
          BY <1>1, <3>2, <4>2, BaseOf
        <5>2. p \in OfDay(d) /\ p.at \in Nat
          BY <1>1, <3>2, <5>1, Rows DEF OfDay
        <5>3. ~ (p.value >= j)
          BY <3>1, <3>3, <5>1, <5>2
        <5> QED BY <3>3, <5>1, <5>3
      <4> QED BY <4>1, <4>2
    <3>5. j - Base(s) \in 1 .. Delta(Everyone, s).value
      BY <3>1, <3>3, <3>4 DEF clamp
    <3> QED BY <3>1, <3>2, <3>3, <3>5 DEF s
  <2>3. f \in Injection(1 .. n, U)
    <3>1. ASSUME NEW j \in 1 .. n PROVE f[j] \in U
      BY <1>1, <2>2, DayUnits
    <3>2. f \in [1 .. n -> U]
      BY <3>1
    <3>3. ASSUME NEW i \in 1 .. n, NEW j \in 1 .. n, f[i] = f[j] PROVE i = j
      <4>1. Delta(Everyone, First(d, i)) = Delta(Everyone, First(d, j))
            /\ i - Base(First(d, i)) = j - Base(First(d, j))
        BY <3>3
      <4>2. First(d, i) = First(d, j)
        BY <1>1, <2>2, <4>1, DeltaSet
      <4>3. Base(First(d, i)) \in Nat
        BY <2>2
      <4> QED BY <2>1, <4>1, <4>2, <4>3
    <3> HIDE DEF f, U, n
    <3> QED BY <3>2, <3>3 DEF Injection, IsInjective
  <2>4. IsFiniteSet(U) /\ DayTotal(d) = Cardinality(U)
    BY <1>1, DayReport
  <2>5. Cardinality(1 .. n) = n
    BY <2>1, FS_Interval
  <2> HIDE DEF f, U
  <2>6. Cardinality(1 .. n) <= Cardinality(U)
    BY <2>3, <2>4, FS_Injection
  <2> QED BY <2>4, <2>5, <2>6
<1> QED BY <1>1, AnalyticsInvariant, PTL

RowWith(d, e) == CHOOSE s \in OfDay(d) : Delta(Everyone, s) = e

\* The report of a local day never shows more than Meta counted, as long as its
\* answers are orderly: each unit of the report is another unit of the meter.
THEOREM NothingGetsInvented == Spec => []NothingInvented
<1>1. ASSUME AInv PROVE NothingInvented
  <2> SUFFICES ASSUME NEW d \in Days, Orderly(d) PROVE DayTotal(d) <= meter[d]
    BY DEF NothingInvented
  <2> DEFINE U == Units(Values(DayDeltas(d)), DayDeltas(d))
             f == [u \in U |-> Base(RowWith(d, u[1])) + u[2]]
  <2>1. meter[d] \in Nat
    BY <1>1, AnalyticsAssumption DEF AInv, TypeOK
  <2>2. ASSUME NEW u \in U
        PROVE  \E s \in OfDay(d) :
                 /\ RowWith(d, u[1]) = s /\ u[1] = Delta(Everyone, s)
                 /\ u[2] \in Nat /\ u[2] >= 1 /\ Base(s) + u[2] <= s.value
                 /\ u = <<u[1], u[2]>>
    <3>0. PICK s \in OfDay(d) :
            \E k \in 1 .. Delta(Everyone, s).value : u = <<Delta(Everyone, s), k>>
      BY <1>1, <2>2, DayUnits
    <3>1. PICK k \in 1 .. Delta(Everyone, s).value : u = <<Delta(Everyone, s), k>>
      BY <3>0
    <3>2. u[1] = Delta(Everyone, s) /\ u[2] = k
      BY <3>1
    <3>3. RowWith(d, u[1]) = s
      BY <1>1, <3>2, DeltaSet DEF RowWith, OfDay
    <3>4. s \in snaps /\ s.value \in Nat /\ Base(s) \in Nat
          /\ Delta(Everyone, s).value = clamp(s.value - Base(s))
      BY <1>1, Rows, BaseOf DEF OfDay
    <3>5. k \in Nat /\ k >= 1 /\ k <= s.value - Base(s)
      BY <3>4 DEF clamp
    <3> QED BY <3>1, <3>2, <3>3, <3>4, <3>5
  <2>3. ASSUME NEW r \in OfDay(d), NEW s \in OfDay(d), r.at < s.at PROVE r.value <= Base(s)
    <3>1. r \in snaps /\ s \in snaps /\ r.day = d /\ s.day = d
      BY DEF OfDay
    <3>2. PICK p \in snaps : p.day = s.day /\ r.at <= p.at /\ p.value = Base(s)
      BY <1>1, <2>3, <3>1, BaseOf
    <3>3. r.at \in Nat /\ p.at \in Nat /\ r.value \in Nat
      BY <1>1, <3>1, Rows
    <3>4. CASE r.at < p.at
      BY <3>1, <3>2, <3>4 DEF Orderly, OfDay
    <3>5. CASE r.at = p.at
      <4>1. r = p
        BY <1>1, <3>1, <3>5 DEF AInv, RowsKept
      <4> QED BY <3>2, <3>3, <4>1
    <3> QED BY <3>2, <3>3, <3>4, <3>5
  <2>4. \A s \in OfDay(d) : s.at \in Nat /\ s.value \in Nat /\ s.value <= meter[d] /\ Base(s) \in Nat
    BY <1>1, Rows, BaseOf DEF Orderly, OfDay
  <2>5. f \in Injection(U, 1 .. meter[d])
    <3>1. ASSUME NEW u \in U PROVE f[u] \in 1 .. meter[d]
      <4>1. PICK s \in OfDay(d) :
              /\ RowWith(d, u[1]) = s /\ u[2] \in Nat /\ u[2] >= 1 /\ Base(s) + u[2] <= s.value
        BY <2>2
      <4>2. f[u] = Base(s) + u[2]
        BY <4>1
      <4> QED BY <2>1, <2>4, <4>1, <4>2
    <3>2. f \in [U -> 1 .. meter[d]]
      <4> HIDE DEF U
      <4> QED BY <3>1
    <3>3. ASSUME NEW u \in U, NEW w \in U, f[u] = f[w] PROVE u = w
      <4>1. PICK r \in OfDay(d) :
              /\ RowWith(d, u[1]) = r /\ u[1] = Delta(Everyone, r)
              /\ u[2] \in Nat /\ u[2] >= 1 /\ Base(r) + u[2] <= r.value /\ u = <<u[1], u[2]>>
        BY <2>2
      <4>2. PICK s \in OfDay(d) :
              /\ RowWith(d, w[1]) = s /\ w[1] = Delta(Everyone, s)
              /\ w[2] \in Nat /\ w[2] >= 1 /\ Base(s) + w[2] <= s.value /\ w = <<w[1], w[2]>>
        BY <2>2
      <4>3. Base(r) + u[2] = Base(s) + w[2]
        BY <3>3, <4>1, <4>2
      <4>4. r.at = s.at
        <5>1. ~ (r.at < s.at)
          BY <2>3, <2>4, <4>1, <4>2, <4>3
        <5>2. ~ (s.at < r.at)
          BY <2>3, <2>4, <4>1, <4>2, <4>3
        <5> QED BY <2>4, <5>1, <5>2
      <4>5. r = s
        BY <1>1, <4>4 DEF AInv, RowsKept, OfDay
      <4>6. u[2] = w[2]
        BY <2>4, <4>1, <4>2, <4>3, <4>5
      <4>7. u[1] = w[1]
        BY <4>1, <4>2, <4>5
      <4> QED BY <4>1, <4>2, <4>6, <4>7
    <3> HIDE DEF f, U
    <3> QED BY <3>2, <3>3 DEF Injection, IsInjective
  <2>6. DayTotal(d) = Cardinality(U)
    BY <1>1, DayReport
  <2>7. IsFiniteSet(1 .. meter[d]) /\ Cardinality(1 .. meter[d]) = meter[d]
    BY <2>1, FS_Interval
  <2> HIDE DEF f, U
  <2>8. Cardinality(U) <= Cardinality(1 .. meter[d])
    BY <2>5, <2>7, FS_Injection
  <2> QED BY <2>6, <2>7, <2>8
<1> QED BY <1>1, AnalyticsInvariant, PTL

-----------------------------------------------------------------------------
(* The chart. *)

LEMMA Remainder ==
  ASSUME NEW x \in Nat, NEW k \in Nat \ {0}
  PROVE  x - (x % k) = (x \div k) * k
OBVIOUS

\* A bucket is BucketLen instants from its start.
LEMMA Bucket ==
  ASSUME NEW a \in Nat, NEW c \in Nat
  PROVE  /\ bucketStart(a) \in Nat
         /\ bucketStart(c) = bucketStart(a) <=>
              bucketStart(a) <= c /\ c < bucketStart(a) + BucketLen
<1> DEFINE m == a \div BucketLen
           n == c \div BucketLen
<1>1. BucketLen \in Nat \ {0}
  BY AnalyticsAssumption
<1>2. bucketStart(a) = m * BucketLen /\ bucketStart(c) = n * BucketLen
  BY <1>1, Remainder DEF bucketStart
<1>3. /\ m \in Nat /\ n \in Nat
      /\ n * BucketLen <= c /\ c < n * BucketLen + BucketLen
  BY <1>1, DivRange
<1> HIDE DEF m, n
<1>4. m * BucketLen \in Nat /\ n * BucketLen \in Nat
  BY <1>1, <1>3
<1>5. m < n => m * BucketLen + BucketLen <= n * BucketLen
  BY <1>1, <1>3, Multiples
<1>6. n < m => n * BucketLen + BucketLen <= m * BucketLen
  BY <1>1, <1>3, Multiples
<1>7. m < n \/ n < m \/ m = n
  BY <1>3
<1> QED BY <1>1, <1>2, <1>3, <1>4, <1>5, <1>6, <1>7

\* The differences of one bar.
InBucket(D, k) == {d \in D : bucketStart(d.at) = k}

\* Bars divide the differences: their sums add up to the whole.
LEMMA BarsAddUp ==
  ASSUME NEW D, IsFiniteSet(D), \A d \in D : d.value \in Nat
  PROVE  BarSum(buildTimeseries(D), DOMAIN buildTimeseries(D)) = Total(D)
<1> DEFINE K == {bucketStart(d.at) : d \in D}
           bars == buildTimeseries(D)
           v == [k \in K |-> Total(InBucket(D, k))]
           Under(s) == {d \in D : bucketStart(d.at) \in s}
           g == [s \in SUBSET K |-> Cardinality(Units(Values(D), Under(s)))]
<1>1. IsFiniteSet(K)
  <2> DEFINE f == [d \in D |-> bucketStart(d.at)]
  <2>1. f \in Surjection(D, K)
    BY DEF Surjection
  <2> HIDE DEF f, K
  <2> QED BY <2>1, FS_Surjection
<1>2. DOMAIN bars = K /\ \A k \in K : bars[k] = Accumulate(InBucket(D, k))
  BY DEF buildTimeseries, InBucket
<1>3. \A k \in K : v[k] = bars[k].value
  <2> TAKE k \in K
  <2>1. InBucket(D, k) \in SUBSET D
    BY DEF InBucket
  <2>2. IsFiniteSet(InBucket(D, k)) /\ \A d \in InBucket(D, k) : d.value \in Nat
    BY <2>1, FS_Subset
  <2>3. Accumulate(InBucket(D, k)).value = Total(InBucket(D, k))
    BY <2>2, Accumulated
  <2> QED BY <1>2, <2>3
<1>4. Values(D) \in [D -> Nat]
  BY DEF Values
<1>5. ASSUME NEW A \in SUBSET D PROVE Units(Values(D), A) = Units(Values(A), A)
  BY DEF Units, Values
<1>split. \A A, B \in SUBSET D : A \cap B = {} =>
            Cardinality(Units(Values(D), A \cup B)) =
              Cardinality(Units(Values(D), A)) + Cardinality(Units(Values(D), B))
  BY <1>4, UnitsSplit
<1>6. ASSUME NEW s \in SUBSET K
      PROVE  g[s] = IF s = {} THEN 0 ELSE v[Chosen(s)] + g[s \ {Chosen(s)}]
  <2>1. CASE s = {}
    <3>1. Units(Values(D), Under(s)) = {}
      BY <2>1 DEF Units
    <3> QED BY <2>1, <3>1, FS_EmptySet
  <2>2. CASE s # {}
    <3> DEFINE x == Chosen(s)
    <3>1. x \in s /\ x \in K
      BY <2>2 DEF Chosen
    <3>2. /\ Under(s) = InBucket(D, x) \cup Under(s \ {x})
          /\ InBucket(D, x) \cap Under(s \ {x}) = {}
          /\ InBucket(D, x) \in SUBSET D /\ Under(s \ {x}) \in SUBSET D
      BY <3>1 DEF InBucket
    <3>3. v[x] = Cardinality(Units(Values(D), InBucket(D, x)))
      BY <1>5, <3>1, <3>2 DEF Total
    <3>4. s \ {x} \in SUBSET K
      OBVIOUS
    <3> HIDE DEF Under, x
    <3>5. Cardinality(Units(Values(D), InBucket(D, x) \cup Under(s \ {x}))) =
            Cardinality(Units(Values(D), InBucket(D, x)))
              + Cardinality(Units(Values(D), Under(s \ {x})))
      BY <1>split, <3>2
    <3>6. g[s] = Cardinality(Units(Values(D), Under(s)))
          /\ g[s \ {x}] = Cardinality(Units(Values(D), Under(s \ {x})))
      BY <3>4
    <3> HIDE DEF g, v
    <3> QED BY <2>2, <3>2, <3>3, <3>5, <3>6 DEF x
  <2> QED BY <2>1, <2>2
<1>7. Adds(v, K, g)
  BY <1>6 DEF Adds
<1>8. g[K] = Total(D)
  <2>1. Under(K) = D
    OBVIOUS
  <2> QED BY <2>1 DEF Total
<1>9. BarSum(bars, K) = g[K]
  <2> HIDE DEF K, bars, v, g
  <2> QED BY <1>1, <1>3, <1>7, SumOfBars
<1> HIDE DEF K, g
<1> QED BY <1>2, <1>8, <1>9

\* Every bar of a chart is the summary of its bucket, cut to the period; all bars
\* together are the figures above the chart; and these come from as many rows as
\* the listing of the period shows.
THEOREM ChartIsSummary == Spec => []SeriesMatchesSummary
<1>1. ASSUME AInv PROVE SeriesMatchesSummary
  <2> SUFFICES ASSUME NEW viewer \in Viewers, NEW from \in Times
               PROVE  LET page == Detail(viewer, from, MaxTime)
                          bars == page.timeseries
                      IN  /\ \A k \in DOMAIN bars :
                               bars[k] = Aggregate(viewer, IF k < from THEN from ELSE k,
                                                   IF k + BucketLen > MaxTime THEN MaxTime
                                                                              ELSE k + BucketLen)
                          /\ page.kpis.value = MapThenSumSet(LAMBDA k : bars[k].value, DOMAIN bars)
                          /\ page.kpis.points = Cardinality(Listing(Everyone, viewer, from, MaxTime))
    BY DEF SeriesMatchesSummary
  <2> DEFINE D == calculateDeltas(viewer, from, MaxTime)
             bars == buildTimeseries(D)
  <2>1. from \in Nat /\ MaxTime \in Nat /\ from \in Int /\ MaxTime \in Int /\ BucketLen \in Nat
    BY LocalDays, AnalyticsAssumption
  <2>2. /\ IsFiniteSet(D) /\ \A d \in D : d.value \in Nat
        /\ Cardinality(D) = Cardinality(InRange(viewer, from, MaxTime))
        /\ D = {Delta(viewer, s) : s \in InRange(viewer, from, MaxTime)}
    BY <1>1, <2>1, Period, Deltas
  <2>3. /\ Detail(viewer, from, MaxTime).kpis = Accumulate(D)
        /\ Detail(viewer, from, MaxTime).timeseries = bars
    BY DEF Detail, Aggregate, Timeseries
  <2>4. Accumulate(D) = [value |-> Total(D), points |-> Cardinality(D)]
    <3> HIDE DEF D
    <3> QED BY <2>2, Accumulated
  <2>5. Total(D) = BarSum(bars, DOMAIN bars)
    <3> HIDE DEF D
    <3> QED BY <2>2, BarsAddUp
  <2>6. Listing(Everyone, viewer, from, MaxTime) = InRange(viewer, from, MaxTime)
    BY AnalyticsAssumption DEF Listing, Viewer
  <2>7. ASSUME NEW k \in DOMAIN bars
        PROVE  bars[k] = Aggregate(viewer, IF k < from THEN from ELSE k,
                                   IF k + BucketLen > MaxTime THEN MaxTime ELSE k + BucketLen)
    <3> DEFINE lo == IF k < from THEN from ELSE k
               hi == IF k + BucketLen > MaxTime THEN MaxTime ELSE k + BucketLen
    <3>1. bars[k] = Accumulate(InBucket(D, k)) /\ \E d \in D : k = bucketStart(d.at)
      BY DEF buildTimeseries, InBucket
    <3>2. PICK o \in InRange(viewer, from, MaxTime) : k = bucketStart(o.at)
      <4>1. PICK d \in D : k = bucketStart(d.at)
        BY <3>1
      <4>2. PICK o \in InRange(viewer, from, MaxTime) : d = Delta(viewer, o)
        BY <2>2
      <4> QED BY <4>1, <4>2 DEF Delta
    <3>3. \A s \in snaps : s.at \in Nat
      BY <1>1, Rows
    <3>4. k \in Nat /\ \A s \in snaps :
            bucketStart(s.at) = k <=> k <= s.at /\ s.at < k + BucketLen
      BY <3>2, <3>3, Bucket DEF InRange
    <3>5. lo \in Int /\ hi \in Int
      BY <2>1, <3>4
    <3>6. \A s \in snaps :
            (from <= s.at /\ s.at < MaxTime /\ bucketStart(s.at) = k) <=> (lo <= s.at /\ s.at < hi)
      BY <2>1, <3>3, <3>4
    <3>7. InRange(viewer, lo, hi) = {s \in InRange(viewer, from, MaxTime) : bucketStart(s.at) = k}
      <4> HIDE DEF lo, hi
      <4> QED BY <3>6 DEF InRange
    <3>8. InBucket(D, k) = {Delta(viewer, s) : s \in InRange(viewer, lo, hi)}
      <4>1. \A s \in snaps : Delta(viewer, s).at = s.at
        BY DEF Delta
      <4> HIDE DEF lo, hi, D
      <4> QED BY <2>2, <3>7, <4>1 DEF InBucket, InRange
    <3>9. InBucket(D, k) = calculateDeltas(viewer, lo, hi)
      <4> HIDE DEF lo, hi, D
      <4> QED BY <1>1, <3>5, <3>8, Deltas
    <3> QED BY <3>1, <3>9 DEF Aggregate
  <2> HIDE DEF D, bars
  <2>8. /\ Accumulate(D).value = BarSum(bars, DOMAIN bars)
        /\ Accumulate(D).points = Cardinality(Listing(Everyone, viewer, from, MaxTime))
    BY <2>2, <2>4, <2>5, <2>6
  <2> QED BY <2>3, <2>7, <2>8 DEF BarSum
<1> QED BY <1>1, AnalyticsInvariant, PTL

-----------------------------------------------------------------------------
(* The history of owners. *)

Covers(h, x) == h.from <= x /\ (h.to = Open \/ x < h.to)

\* BIGSERIAL and buyer_account_history_one_current.
RowsOK ==
  /\ \A h \in rows : h.id < nextId
  /\ \A h, g \in rows : h.id = g.id => h = g
  /\ \A h, g \in rows : h.to = Open /\ g.to = Open => h = g

\* What the transaction of request r relies on.
ClosesOK(r) ==
  closes[r] # NoId =>
    /\ pc[r] \in {"insert", "commit"}
    /\ \E h \in rows : h.id = closes[r] /\ h.to = Open /\ h.from < at[r]

InsertsOK(r) ==
  inserts[r] # NoId =>
    /\ pc[r] = "commit" /\ inserts[r] < nextId
    /\ \A h \in rows : h.id # inserts[r]
    /\ \A q \in Request \ {r} : inserts[q] = NoId /\ closes[q] = NoId
    /\ \A h \in rows : h.to = Open => h.id = closes[r]

StepOK(r) ==
  /\ target[r] # NoId => \E h \in rows : h.id = target[r]
  /\ pc[r] = "insert" => buyer[r] # NoBuyer
  /\ pc[r] = "commit" => (inserts[r] # NoId <=> buyer[r] # NoBuyer)

RequestsOK ==
  /\ \A r \in Request : ClosesOK(r) /\ InsertsOK(r) /\ StepOK(r)
  /\ \A r, q \in Request : closes[r] # NoId /\ closes[r] = closes[q] => r = q

\* What follows a row that an assignment has closed: a later open row, or a row
\* that an unassignment has closed later still.
Followed(g) ==
  \/ \E k \in rows : k.to = Open /\ k.from >= g.to
  \/ \E u \in rows : u.by = "unassign" /\ u.to > g.to

AllFollowed == \A g \in rows : g.to # Open /\ g.by # "unassign" => Followed(g)

\* An unassignment later than x has cleared the way for a request from before it.
Cleared(x) == \E u \in rows : u.by = "unassign" /\ x < u.to

Apart == \A h, g \in rows, x \in Moments : Covers(h, x) /\ Covers(g, x) => h = g \/ Cleared(x)

HistoryInv == HistoryTypeOK /\ RowsOK /\ RequestsOK /\ AllFollowed /\ Apart

-----------------------------------------------------------------------------
USE DEF Open, NoId

\* At the start nobody owns the account and no request is in progress.
LEMMA HistoryStart == HistoryInit => HistoryInv
BY OwnershipAssumption
   DEF HistoryInit, HistoryInv, HistoryTypeOK, RowsOK, RequestsOK, ClosesOK, InsertsOK,
       StepOK, AllFollowed, Apart,
       Ids, Moments, HistoryRow

\* A row found by its id.
LEMMA RowOfFound ==
  ASSUME RowsOK, NEW id, NEW g \in rows, g.id = id
  PROVE  RowOf(id) = g
<1>1. \A h \in rows : h.id = id => h = g
  BY DEF RowsOK
<1> QED BY <1>1 DEF RowOf

\* The steps before the commit leave the rows alone; what they say about the
\* rows stays true.
LEMMA SameRows ==
  ASSUME rows' = rows, RowsOK, AllFollowed, Apart, nextId' >= nextId, nextId \in Int, nextId' \in Int,
         rows \subseteq HistoryRow
  PROVE  RowsOK' /\ AllFollowed' /\ Apart'
<1>1. RowsOK'
  BY DEF RowsOK, HistoryRow, Ids
<1>2. AllFollowed'
  BY DEF AllFollowed, Followed
<1>3. Apart'
  BY DEF Apart, Covers, Cleared
<1> QED BY <1>1, <1>2, <1>3

\* What another request relies on when neither its own locals nor the rows change.
LEMMA OtherRequest ==
  ASSUME RequestsOK, RowsOK, nextId \in Int, nextId' \in Int, nextId' >= nextId, rows' = rows,
         rows \subseteq HistoryRow, inserts \in [Request -> Ids \cup {NoId}],
         NEW q \in Request,
         pc'[q] = pc[q], buyer'[q] = buyer[q], at'[q] = at[q], target'[q] = target[q],
         closes'[q] = closes[q], inserts'[q] = inserts[q]
  PROVE  /\ ClosesOK(q)' /\ StepOK(q)'
         /\ (\A s \in Request \ {q} : inserts[q] # NoId => inserts'[s] = NoId /\ closes'[s] = NoId)
              => InsertsOK(q)'
<1>1. ClosesOK(q) /\ InsertsOK(q) /\ StepOK(q)
  BY DEF RequestsOK
<1>2. inserts[q] \in Int
  BY DEF Ids
<1>3. ClosesOK(q)'
  BY <1>1 DEF ClosesOK
<1>4. StepOK(q)'
  BY <1>1 DEF StepOK
<1>5. ASSUME \A s \in Request \ {q} : inserts[q] # NoId => inserts'[s] = NoId /\ closes'[s] = NoId
      PROVE  InsertsOK(q)'
  BY <1>1, <1>2, <1>5 DEF InsertsOK
<1> QED BY <1>3, <1>4, <1>5

\* A step of request r before the commit: it is enough to look at r and at what
\* others rely on when it closes or inserts.
LEMMA OneRequest ==
  ASSUME HistoryInv, nextId' \in Int, nextId' >= nextId, rows' = rows, HistoryTypeOK',
         NEW r \in Request,
         \A q \in Request \ {r} :
           /\ pc'[q] = pc[q] /\ buyer'[q] = buyer[q] /\ at'[q] = at[q]
           /\ target'[q] = target[q] /\ closes'[q] = closes[q] /\ inserts'[q] = inserts[q],
         ClosesOK(r)', InsertsOK(r)', StepOK(r)',
         closes'[r] # closes[r] =>
           closes'[r] = NoId \/ \A q \in Request \ {r} : closes[q] # closes'[r],
         \A q \in Request \ {r} :
           inserts[q] # NoId => inserts'[r] = NoId /\ closes'[r] = NoId
  PROVE  HistoryInv'
<1>1. /\ RequestsOK /\ RowsOK /\ AllFollowed /\ Apart /\ nextId \in Int
      /\ rows \subseteq HistoryRow /\ inserts \in [Request -> Ids \cup {NoId}]
  BY DEF HistoryInv, HistoryTypeOK
<1>2. ASSUME NEW q \in Request
      PROVE  ClosesOK(q)' /\ InsertsOK(q)' /\ StepOK(q)'
  <2>1. CASE q = r
    BY <2>1
  <2>2. CASE q # r
    <3>1. InsertsOK(q)
      BY <1>1 DEF RequestsOK
    <3>2. \A s \in Request \ {q} : inserts[q] # NoId => inserts'[s] = NoId /\ closes'[s] = NoId
      BY <2>2, <3>1 DEF InsertsOK
    <3> QED BY <1>1, <2>2, <3>2, OtherRequest
  <2> QED BY <2>1, <2>2
<1>3. ASSUME NEW p \in Request, NEW q \in Request, closes'[p] # NoId, closes'[p] = closes'[q]
      PROVE  p = q
  BY <1>1, <1>3 DEF RequestsOK
<1>4. RequestsOK'
  BY <1>2, <1>3 DEF RequestsOK
<1>5. RowsOK' /\ AllFollowed' /\ Apart'
  BY <1>1, SameRows
<1> QED BY <1>4, <1>5 DEF HistoryInv

LEMMA ClockStep == ASSUME HistoryInv, ClockTick PROVE HistoryInv'
<1>1. HistoryTypeOK'
  BY OwnershipAssumption DEF HistoryInv, HistoryTypeOK, ClockTick, reqVars, Moments
<1>2. nextId \in Int /\ rows \subseteq HistoryRow /\ inserts \in [Request -> Ids \cup {NoId}]
  BY DEF HistoryInv, HistoryTypeOK
<1>3. RowsOK' /\ AllFollowed' /\ Apart'
  BY <1>2, SameRows DEF HistoryInv, ClockTick
<1>4. RequestsOK'
  BY DEF HistoryInv, ClockTick, reqVars, RequestsOK, ClosesOK, InsertsOK, StepOK
<1> QED BY <1>1, <1>3, <1>4 DEF HistoryInv

LEMMA BeginStep ==
  ASSUME HistoryInv, NEW r \in Request, NEW b \in Buyer \cup {NoBuyer}, BeginRequest(r, b)
  PROVE  HistoryInv'
<1>0. HistoryTypeOK /\ ClosesOK(r) /\ InsertsOK(r) /\ StepOK(r)
  BY DEF HistoryInv, RequestsOK
<1>1. HistoryTypeOK'
  BY <1>0 DEF HistoryTypeOK, BeginRequest
<1>2. closes'[r] = NoId /\ inserts'[r] = NoId
  BY <1>0 DEF BeginRequest, ClosesOK, InsertsOK
<1>3. pc'[r] = "find" /\ target'[r] = target[r] /\ rows' = rows /\ nextId' = nextId
  BY <1>0 DEF BeginRequest, HistoryTypeOK
<1>4. ClosesOK(r)' /\ InsertsOK(r)' /\ StepOK(r)'
  BY <1>0, <1>2, <1>3 DEF ClosesOK, InsertsOK, StepOK
<1>5. nextId \in Int
  BY <1>0 DEF HistoryTypeOK
<1>6. \A q \in Request \ {r} :
        /\ pc'[q] = pc[q] /\ buyer'[q] = buyer[q] /\ at'[q] = at[q]
        /\ target'[q] = target[q] /\ closes'[q] = closes[q] /\ inserts'[q] = inserts[q]
  BY <1>0 DEF BeginRequest, HistoryTypeOK
<1> QED BY <1>1, <1>2, <1>3, <1>4, <1>5, <1>6, OneRequest

LEMMA FindStep == ASSUME HistoryInv, NEW r \in Request, FindOpen(r) PROVE HistoryInv'
<1>0. HistoryTypeOK /\ ClosesOK(r) /\ InsertsOK(r) /\ StepOK(r)
  BY DEF HistoryInv, RequestsOK
<1>1. target'[r] # NoId => \E h \in rows : h.id = target'[r]
  BY <1>0 DEF FindOpen, HistoryTypeOK, OpenRows
<1>2. target'[r] \in Ids \cup {NoId}
  BY <1>0, <1>1 DEF FindOpen, HistoryTypeOK, HistoryRow
<1>3. HistoryTypeOK'
  BY <1>0, <1>2 DEF HistoryTypeOK, FindOpen
<1>4. closes'[r] = NoId /\ inserts'[r] = NoId /\ pc'[r] = "close" /\ rows' = rows /\ nextId' = nextId
  BY <1>0 DEF FindOpen, ClosesOK, InsertsOK, HistoryTypeOK
<1>5. ClosesOK(r)' /\ InsertsOK(r)' /\ StepOK(r)'
  BY <1>0, <1>1, <1>4 DEF ClosesOK, InsertsOK, StepOK
<1>6. nextId \in Int
  BY <1>0 DEF HistoryTypeOK
<1>7. \A q \in Request \ {r} :
        /\ pc'[q] = pc[q] /\ buyer'[q] = buyer[q] /\ at'[q] = at[q]
        /\ target'[q] = target[q] /\ closes'[q] = closes[q] /\ inserts'[q] = inserts[q]
  BY <1>0 DEF FindOpen, HistoryTypeOK
<1> QED BY <1>3, <1>4, <1>5, <1>6, <1>7, OneRequest

LEMMA CloseStep == ASSUME HistoryInv, NEW r \in Request, CloseOpen(r) PROVE HistoryInv'
<1>0. HistoryTypeOK /\ RowsOK /\ ClosesOK(r) /\ InsertsOK(r) /\ StepOK(r)
  BY DEF HistoryInv, RequestsOK
<1>1. HistoryTypeOK'
  BY <1>0 DEF HistoryTypeOK, CloseOpen
<1>2. closes[r] = NoId /\ inserts[r] = NoId /\ inserts' = inserts /\ rows' = rows /\ nextId' = nextId
  BY <1>0 DEF CloseOpen, ClosesOK, InsertsOK
<1>3. /\ buyer'[r] = NoBuyer => pc'[r] = "commit"
      /\ buyer'[r] # NoBuyer => pc'[r] = "insert"
      /\ target' = target /\ buyer' = buyer /\ at' = at
  BY <1>0 DEF CloseOpen, HistoryTypeOK
<1>4. nextId \in Int
  BY <1>0 DEF HistoryTypeOK
<1>5. \A q \in Request \ {r} :
        /\ pc'[q] = pc[q] /\ buyer'[q] = buyer[q] /\ at'[q] = at[q]
        /\ target'[q] = target[q] /\ closes'[q] = closes[q] /\ inserts'[q] = inserts[q]
  BY <1>0 DEF CloseOpen, HistoryTypeOK
<1>6. StepOK(r)' /\ InsertsOK(r)'
  BY <1>0, <1>2, <1>3 DEF StepOK, InsertsOK
<1>7. CASE closes' = closes
  <2>1. ClosesOK(r)'
    BY <1>2, <1>7 DEF ClosesOK
  <2> QED BY <1>1, <1>2, <1>4, <1>5, <1>6, <1>7, <2>1, OneRequest
<1>8. CASE closes' # closes
  <2>1. /\ target[r] # NoId /\ ~Locked(target[r]) /\ RowOf(target[r]).to = Open
        /\ MayClose(r) /\ closes'[r] = target[r]
    BY <1>0, <1>8 DEF CloseOpen, HistoryTypeOK
  <2>2. PICK g \in rows : g.id = target[r]
    BY <1>0, <2>1 DEF StepOK
  <2>3. RowOf(target[r]) = g
    BY <1>0, <2>2, RowOfFound
  <2>4. g.to = Open /\ g.from < at[r]
    BY <1>0, <2>1, <2>3 DEF MayClose, HistoryTypeOK, HistoryRow, Moments
  <2>5. ClosesOK(r)'
    BY <1>2, <1>3, <2>1, <2>2, <2>4 DEF ClosesOK
  <2>6. \A q \in Request : closes[q] # closes'[r]
    BY <2>1 DEF Locked
  <2>7. \A q \in Request : inserts[q] = NoId
    <3>1. ASSUME NEW q \in Request, inserts[q] # NoId PROVE FALSE
      <4>1. InsertsOK(q)
        BY DEF HistoryInv, RequestsOK
      <4>2. g.id = closes[q]
        BY <2>4, <3>1, <4>1 DEF InsertsOK
      <4> QED BY <2>1, <2>2, <2>6, <4>2
    <3> QED BY <3>1
  <2> QED BY <1>1, <1>2, <1>4, <1>5, <1>6, <2>5, <2>6, <2>7, OneRequest
<1> QED BY <1>7, <1>8

LEMMA InsertStep == ASSUME HistoryInv, NEW r \in Request, InsertRow(r) PROVE HistoryInv'
<1>0. HistoryTypeOK /\ RowsOK /\ ClosesOK(r) /\ InsertsOK(r) /\ StepOK(r)
  BY DEF HistoryInv, RequestsOK
<1>1. HistoryTypeOK'
  BY <1>0, OwnershipAssumption DEF HistoryTypeOK, InsertRow, Ids
<1>2. /\ inserts'[r] = nextId /\ closes' = closes /\ rows' = rows /\ nextId' = nextId + 1
      /\ pc'[r] = "commit" /\ target' = target /\ buyer' = buyer /\ at' = at
      /\ pc[r] = "insert" /\ nextId \in Nat \ {0}
  BY <1>0 DEF InsertRow, HistoryTypeOK
<1>3. \A q \in Request \ {r} :
        /\ pc'[q] = pc[q] /\ buyer'[q] = buyer[q] /\ at'[q] = at[q]
        /\ target'[q] = target[q] /\ closes'[q] = closes[q] /\ inserts'[q] = inserts[q]
  BY <1>0 DEF InsertRow, HistoryTypeOK
<1>4. \A q \in Request \ {r} : inserts[q] = NoId /\ closes[q] = NoId
  BY DEF InsertRow, IndexAllows
<1>5. \A h \in rows : h.to = Open => h.id = closes[r]
  BY DEF InsertRow, IndexAllows, OpenRows
<1>6. ClosesOK(r)' /\ StepOK(r)'
  BY <1>0, <1>2 DEF ClosesOK, StepOK
<1>7. \A h \in rows : h.id # nextId
  BY <1>0, <1>2 DEF RowsOK, HistoryTypeOK, HistoryRow, Ids
<1>8. InsertsOK(r)'
  BY <1>2, <1>3, <1>4, <1>5, <1>7 DEF InsertsOK
<1> QED BY <1>1, <1>2, <1>3, <1>4, <1>6, <1>8, OneRequest

LEMMA RollbackStep == ASSUME HistoryInv, NEW r \in Request, Rollback(r) PROVE HistoryInv'
<1>0. HistoryTypeOK
  BY DEF HistoryInv
<1>1. HistoryTypeOK'
  BY <1>0, OwnershipAssumption DEF HistoryTypeOK, Rollback, EndTx, Moments
<1>2. /\ closes'[r] = NoId /\ inserts'[r] = NoId /\ target'[r] = NoId /\ pc'[r] = "idle"
      /\ rows' = rows /\ nextId' = nextId /\ nextId \in Int
  BY <1>0 DEF Rollback, EndTx, HistoryTypeOK
<1>3. \A q \in Request \ {r} :
        /\ pc'[q] = pc[q] /\ buyer'[q] = buyer[q] /\ at'[q] = at[q]
        /\ target'[q] = target[q] /\ closes'[q] = closes[q] /\ inserts'[q] = inserts[q]
  BY <1>0 DEF Rollback, EndTx, HistoryTypeOK
<1>4. ClosesOK(r)' /\ InsertsOK(r)' /\ StepOK(r)'
  BY <1>2 DEF ClosesOK, InsertsOK, StepOK
<1> QED BY <1>1, <1>2, <1>3, <1>4, OneRequest

-----------------------------------------------------------------------------
(* The commit. *)

\* What a commit makes of a row.
LEMMA RewrittenRow ==
  ASSUME HistoryInv, NEW r \in Request, pc[r] = "commit", NEW h \in rows
  PROVE  /\ Rewritten(h, r) \in HistoryRow
         /\ Rewritten(h, r).id = h.id /\ Rewritten(h, r).from = h.from
         /\ Rewritten(h, r).to # Open => Rewritten(h, r).from < Rewritten(h, r).to
         /\ h.id # closes[r] => Rewritten(h, r) = h
         /\ h.id = closes[r] =>
              /\ h.to = Open /\ h.from < at[r] /\ Rewritten(h, r).to = at[r]
              /\ buyer[r] = NoBuyer => Rewritten(h, r).by = "unassign"
<1>1. /\ h \in HistoryRow /\ (h.to # Open => h.from < h.to) /\ at[r] \in Moments
      /\ ClosesOK(r) /\ RowsOK
  BY DEF HistoryInv, HistoryTypeOK, RequestsOK
<1>2. CASE h.id # closes[r]
  BY <1>1, <1>2 DEF Rewritten
<1>3. CASE h.id = closes[r]
  <2>1. closes[r] # NoId
    BY <1>1, <1>3 DEF HistoryRow, Ids
  <2>2. h.to = Open /\ h.from < at[r]
    BY <1>1, <1>3, <2>1 DEF ClosesOK, RowsOK
  <2>3. Rewritten(h, r) = Closed(h, r)
    BY <1>3 DEF Rewritten
  <2>4. /\ Closed(h, r) \in HistoryRow /\ Closed(h, r).id = h.id /\ Closed(h, r).from = h.from
        /\ Closed(h, r).to = at[r] /\ (buyer[r] = NoBuyer => Closed(h, r).by = "unassign")
    BY <1>1 DEF Closed, HistoryRow
  <2> QED BY <1>3, <2>2, <2>3, <2>4
<1> QED BY <1>2, <1>3

\* A commit of an assignment adds its open row, one of an unassignment none.
LEMMA InsertedRow ==
  ASSUME HistoryInv, NEW r \in Request, pc[r] = "commit", NEW n \in Inserted(r)
  PROVE  /\ n \in HistoryRow /\ n.to = Open /\ n.from = at[r] /\ n.id = inserts[r]
         /\ inserts[r] # NoId /\ inserts[r] < nextId
         /\ Inserted(r) = {n}
<1>1. StepOK(r) /\ InsertsOK(r) /\ HistoryTypeOK
  BY DEF HistoryInv, RequestsOK
<1>2. inserts[r] # NoId
  BY DEF Inserted
<1>3. n = [id |-> inserts[r], buyer |-> buyer[r], from |-> at[r], to |-> Open, by |-> "nobody"]
  BY <1>2 DEF Inserted
<1>4. /\ inserts[r] \in Ids /\ at[r] \in Moments /\ buyer[r] \in Buyer /\ inserts[r] < nextId
      /\ Inserted(r) = {n}
  BY <1>1, <1>2, <1>3 DEF StepOK, InsertsOK, HistoryTypeOK, Inserted
<1> QED BY <1>2, <1>3, <1>4 DEF HistoryRow

\* An unassignment that has closed a row stays in the history.
LEMMA ClearedStays ==
  ASSUME HistoryInv, NEW r \in Request, Commit(r), NEW x \in Nat, Cleared(x)
  PROVE  Cleared(x)'
<1>1. PICK u \in rows : u.by = "unassign" /\ x < u.to
  BY DEF Cleared
<1>2. u.to # Open
  BY <1>1
<1>3. pc[r] = "commit" /\ Rewritten(u, r) \in rows'
  BY DEF Commit
<1>4. Rewritten(u, r) = u
  BY <1>2, <1>3, RewrittenRow
<1> QED BY <1>1, <1>3, <1>4 DEF Cleared

LEMMA CommitType == ASSUME HistoryInv, NEW r \in Request, Commit(r) PROVE HistoryTypeOK'
<1>0. HistoryTypeOK /\ pc[r] = "commit"
  BY DEF HistoryInv, Commit
<1>1. ASSUME NEW k \in rows'
      PROVE  k \in HistoryRow /\ (k.to # Open => k.from < k.to)
  <2>1. CASE k \in Inserted(r)
    BY <1>0, <2>1, InsertedRow
  <2>2. CASE \E h \in rows : k = Rewritten(h, r)
    BY <1>0, <2>2, RewrittenRow
  <2> QED BY <2>1, <2>2 DEF Commit
<1>2. rows' \subseteq HistoryRow /\ \A h \in rows' : h.to # Open => h.from < h.to
  BY <1>1
<1>3. UNCHANGED <<clock, nextId>> /\ EndTx(r)
  BY DEF Commit
<1> QED BY <1>0, <1>2, <1>3, OwnershipAssumption DEF HistoryTypeOK, EndTx, Moments

\* Ids stay unique, and so does the open row: an assignment has closed the one
\* that was there.
LEMMA CommitRows == ASSUME HistoryInv, NEW r \in Request, Commit(r) PROVE RowsOK'
<1>0. pc[r] = "commit" /\ RowsOK /\ InsertsOK(r) /\ nextId' = nextId
  BY DEF HistoryInv, Commit, RequestsOK
<1>1. ASSUME NEW k \in rows'
      PROVE  \/ k \in Inserted(r)
             \/ \E h \in rows : k = Rewritten(h, r) /\ k.id = h.id
                               /\ (k.to = Open => k = h /\ h.id # closes[r])
  <2>1. CASE \E h \in rows : k = Rewritten(h, r)
    <3>1. PICK h \in rows : k = Rewritten(h, r)
      BY <2>1
    <3>2. at[r] # Open
      BY DEF HistoryInv, HistoryTypeOK, Moments
    <3> QED BY <1>0, <3>1, <3>2, RewrittenRow
  <2> QED BY <2>1 DEF Commit
<1>2. \A k \in rows' : k.id < nextId'
  BY <1>0, <1>1, InsertedRow DEF RowsOK
<1>3. ASSUME NEW k \in rows', NEW g \in rows', k.id = g.id
      PROVE  k = g
  <2>1. CASE k \in Inserted(r) /\ g \in Inserted(r)
    BY <1>0, <2>1, InsertedRow
  <2>2. ASSUME NEW n \in Inserted(r), NEW h \in rows PROVE n.id # h.id
    BY <1>0, <2>2, InsertedRow DEF InsertsOK
  <2>3. CASE k \notin Inserted(r) /\ g \notin Inserted(r)
    BY <1>0, <1>1, <1>3, <2>3 DEF RowsOK
  <2> QED BY <1>1, <1>3, <2>1, <2>2, <2>3
<1>4. ASSUME NEW k \in rows', NEW g \in rows', k.to = Open, g.to = Open
      PROVE  k = g
  <2>1. CASE k \in Inserted(r) /\ g \in Inserted(r)
    BY <1>0, <2>1, InsertedRow
  <2>2. ASSUME NEW n \in Inserted(r), NEW h \in rows, h.to = Open PROVE h.id = closes[r]
    BY <1>0, <2>2, InsertedRow DEF InsertsOK
  <2>3. CASE k \notin Inserted(r) /\ g \notin Inserted(r)
    BY <1>0, <1>1, <1>4, <2>3 DEF RowsOK
  <2> QED BY <1>1, <1>4, <2>1, <2>2, <2>3
<1> QED BY <1>2, <1>3, <1>4 DEF RowsOK

\* The other requests keep what they rely on: they have other rows.
LEMMA CommitRequests == ASSUME HistoryInv, NEW r \in Request, Commit(r) PROVE RequestsOK'
<1>0. pc[r] = "commit" /\ RequestsOK /\ HistoryTypeOK /\ nextId' = nextId /\ EndTx(r)
  BY DEF HistoryInv, Commit
<1>1. /\ pc'[r] = "idle" /\ target'[r] = NoId /\ closes'[r] = NoId /\ inserts'[r] = NoId
      /\ \A q \in Request \ {r} :
           /\ pc'[q] = pc[q] /\ buyer'[q] = buyer[q] /\ at'[q] = at[q]
           /\ target'[q] = target[q] /\ closes'[q] = closes[q] /\ inserts'[q] = inserts[q]
  BY <1>0 DEF EndTx, HistoryTypeOK
<1>2. \A h \in rows : Rewritten(h, r) \in rows'
  BY DEF Commit
<1>3. ASSUME NEW q \in Request, q # r
      PROVE  ClosesOK(q)' /\ InsertsOK(q)' /\ StepOK(q)'
  <2>0. ClosesOK(q) /\ InsertsOK(q) /\ StepOK(q)
    BY <1>0 DEF RequestsOK
  <2>1. ClosesOK(q)'
    <3>1. SUFFICES ASSUME closes[q] # NoId
                   PROVE  /\ pc[q] \in {"insert", "commit"}
                          /\ \E h \in rows' : h.id = closes[q] /\ h.to = Open /\ h.from < at[q]
      BY <1>1, <1>3 DEF ClosesOK
    <3>2. PICK h \in rows : h.id = closes[q] /\ h.to = Open /\ h.from < at[q]
      BY <2>0, <3>1 DEF ClosesOK
    <3>3. closes[q] # closes[r]
      BY <1>0, <1>3, <3>1 DEF RequestsOK
    <3>4. Rewritten(h, r) = h
      BY <1>0, <3>2, <3>3, RewrittenRow
    <3> QED BY <1>2, <2>0, <3>1, <3>2, <3>4 DEF ClosesOK
  <2>2. InsertsOK(q)'
    <3>1. SUFFICES ASSUME inserts[q] # NoId PROVE InsertsOK(q)'
      BY <1>1, <1>3 DEF InsertsOK
    <3>2. inserts[r] = NoId /\ closes[r] = NoId
      BY <1>3, <2>0, <3>1 DEF InsertsOK
    <3>3. \A h \in rows : h.id # closes[r]
      BY <1>0, <3>2 DEF HistoryTypeOK, HistoryRow, Ids
    <3>4. \A h \in rows : Rewritten(h, r) = h
      BY <1>0, <3>3, RewrittenRow
    <3>5. rows' = rows
      BY <3>2, <3>4 DEF Commit, Inserted
    <3> QED BY <1>0, <1>1, <1>3, <2>0, <3>5 DEF InsertsOK
  <2>3. StepOK(q)'
    <3>1. target[q] # NoId => \E h \in rows' : h.id = target[q]
      BY <1>0, <1>2, <2>0, RewrittenRow DEF StepOK
    <3> QED BY <1>1, <1>3, <2>0, <3>1 DEF StepOK
  <2> QED BY <2>1, <2>2, <2>3
<1>4. ClosesOK(r)' /\ InsertsOK(r)' /\ StepOK(r)'
  BY <1>1 DEF ClosesOK, InsertsOK, StepOK
<1>5. \A p, q \in Request : closes'[p] # NoId /\ closes'[p] = closes'[q] => p = q
  BY <1>0, <1>1 DEF RequestsOK
<1> QED BY <1>3, <1>4, <1>5 DEF RequestsOK

\* A row that an assignment closes is followed by the row it inserts; an open row
\* that followed another is closed after it.
LEMMA CommitFollowed == ASSUME HistoryInv, NEW r \in Request, Commit(r) PROVE AllFollowed'
<1>0. pc[r] = "commit" /\ HistoryTypeOK /\ AllFollowed /\ StepOK(r)
  BY DEF HistoryInv, Commit, RequestsOK
<1>1. \A h \in rows : Rewritten(h, r) \in rows'
  BY DEF Commit
<1>2. ASSUME buyer[r] # NoBuyer
      PROVE  \E n \in rows' : n.to = Open /\ n.from = at[r]
  <2>1. Inserted(r) # {}
    BY <1>0, <1>2 DEF StepOK, Inserted
  <2> QED BY <1>0, <2>1, InsertedRow DEF Commit
<1>3. ASSUME NEW g \in rows', g.to # Open, g.by # "unassign"
      PROVE  Followed(g)'
  <2>1. PICK h \in rows : g = Rewritten(h, r)
    BY <1>0, <1>3, InsertedRow DEF Commit
  <2>2. CASE h.id = closes[r]
    <3>1. g.to = at[r] /\ buyer[r] # NoBuyer /\ at[r] \in Int
      BY <1>0, <1>3, <2>1, <2>2, RewrittenRow DEF HistoryTypeOK, Moments
    <3>2. PICK n \in rows' : n.to = Open /\ n.from = at[r]
      BY <1>2, <3>1
    <3> QED BY <3>1, <3>2 DEF Followed
  <2>3. CASE h.id # closes[r]
    <3>1. g = h
      BY <1>0, <2>1, <2>3, RewrittenRow
    <3>2. CASE \E u \in rows : u.by = "unassign" /\ u.to > g.to
      <4>1. PICK u \in rows : u.by = "unassign" /\ u.to > g.to
        BY <3>2
      <4>2. u.to # Open
        BY <1>0, <1>3, <3>1, <4>1 DEF HistoryTypeOK, HistoryRow, Moments
      <4>3. Rewritten(u, r) = u
        BY <1>0, <4>2, RewrittenRow
      <4> QED BY <1>1, <4>1, <4>3 DEF Followed
    <3>3. CASE \E k \in rows : k.to = Open /\ k.from >= g.to
      <4>1. PICK k \in rows : k.to = Open /\ k.from >= g.to
        BY <3>3
      <4>2. CASE k.id # closes[r]
        <5>1. Rewritten(k, r) = k
          BY <1>0, <4>2, RewrittenRow
        <5> QED BY <1>1, <4>1, <5>1 DEF Followed
      <4>3. CASE k.id = closes[r]
        <5>1. /\ k.from < at[r] /\ Rewritten(k, r).to = at[r]
              /\ buyer[r] = NoBuyer => Rewritten(k, r).by = "unassign"
          BY <1>0, <4>3, RewrittenRow
        <5>2. at[r] > g.to
          BY <1>0, <3>1, <4>1, <5>1 DEF HistoryTypeOK, HistoryRow, Moments
        <5>3. CASE buyer[r] = NoBuyer
          BY <1>1, <5>1, <5>2, <5>3 DEF Followed
        <5>4. CASE buyer[r] # NoBuyer
          <6>1. PICK n \in rows' : n.to = Open /\ n.from = at[r]
            BY <1>2, <5>4
          <6>2. n.from >= g.to
            BY <1>0, <3>1, <5>2, <6>1 DEF HistoryTypeOK, HistoryRow, Moments
          <6> QED BY <6>1, <6>2 DEF Followed
        <5> QED BY <5>3, <5>4
      <4> QED BY <4>2, <4>3
    <3>4. Followed(g)
      BY <1>0, <1>3, <3>1 DEF AllFollowed
    <3> QED BY <3>2, <3>3, <3>4 DEF Followed
  <2> QED BY <2>2, <2>3
<1> QED BY <1>3 DEF AllFollowed

\* A new row shares a moment only with a row after which the account was unowned
\* or that an unassignment has outlived.
LEMMA CommitApart == ASSUME HistoryInv, NEW r \in Request, Commit(r) PROVE Apart'
<1>0. pc[r] = "commit" /\ HistoryTypeOK /\ AllFollowed /\ Apart /\ InsertsOK(r) /\ at[r] \in Moments
  BY DEF HistoryInv, Commit, RequestsOK, HistoryTypeOK
<1>1. ASSUME NEW x \in Moments, NEW h \in rows, Covers(Rewritten(h, r), x)
      PROVE  Covers(h, x)
  <2>1. CASE h.id = closes[r]
    BY <1>0, <1>1, <2>1, RewrittenRow DEF Covers
  <2>2. CASE h.id # closes[r]
    BY <1>0, <1>1, <2>2, RewrittenRow DEF Covers
  <2> QED BY <2>1, <2>2
<1>2. ASSUME NEW x \in Moments, NEW n \in Inserted(r), Covers(n, x),
             NEW h \in rows, Covers(Rewritten(h, r), x)
      PROVE  Cleared(x)
  <2>1. n.from = at[r] /\ inserts[r] # NoId
    BY <1>0, InsertedRow
  <2>2. at[r] <= x /\ x \in Int /\ at[r] \in Int /\ at[r] # Open
    BY <1>0, <1>2, <2>1 DEF Covers, Moments
  <2>3. h.id # closes[r]
    <3>1. SUFFICES ASSUME h.id = closes[r] PROVE FALSE
      OBVIOUS
    <3>2. Rewritten(h, r).to = at[r]
      BY <1>0, <3>1, RewrittenRow
    <3> QED BY <1>2, <2>2, <3>2 DEF Covers
  <2>4. h.to # Open
    BY <1>0, <2>1, <2>3 DEF InsertsOK
  <2>5. x < h.to /\ h.to \in Int
    BY <1>0, <1>1, <1>2, <2>4 DEF Covers, HistoryTypeOK, HistoryRow, Moments
  <2>6. CASE h.by = "unassign"
    BY <2>5, <2>6 DEF Cleared
  <2>7. CASE h.by # "unassign"
    <3>1. CASE \E u \in rows : u.by = "unassign" /\ u.to > h.to
      <4>1. PICK u \in rows : u.by = "unassign" /\ u.to > h.to
        BY <3>1
      <4>2. x < u.to
        BY <1>0, <2>2, <2>5, <4>1 DEF HistoryTypeOK, HistoryRow, Moments
      <4> QED BY <4>1, <4>2 DEF Cleared
    <3>2. CASE \E k \in rows : k.to = Open /\ k.from >= h.to
      <4>1. PICK k \in rows : k.to = Open /\ k.from >= h.to
        BY <3>2
      <4>2. k.id = closes[r]
        BY <1>0, <2>1, <4>1 DEF InsertsOK
      <4>3. k.from < at[r] /\ k.from \in Int
        BY <1>0, <4>2, RewrittenRow DEF HistoryTypeOK, HistoryRow, Moments
      <4> QED BY <2>2, <2>5, <4>1, <4>3
    <3>3. Followed(h)
      BY <1>0, <2>4, <2>7 DEF AllFollowed
    <3> QED BY <3>1, <3>2, <3>3 DEF Followed
  <2> QED BY <2>6, <2>7
<1>3. ASSUME NEW h \in rows', NEW g \in rows', NEW x \in Moments, Covers(h, x), Covers(g, x)
      PROVE  h = g \/ Cleared(x)'
  <2>1. Cleared(x) => Cleared(x)'
    BY ClearedStays DEF Moments
  <2>2. CASE h \in Inserted(r) /\ g \in Inserted(r)
    BY <1>0, <2>2, InsertedRow
  <2>3. CASE h \in Inserted(r) /\ g \notin Inserted(r)
    BY <1>2, <1>3, <2>1, <2>3 DEF Commit
  <2>4. CASE h \notin Inserted(r) /\ g \in Inserted(r)
    BY <1>2, <1>3, <2>1, <2>4 DEF Commit
  <2>5. CASE h \notin Inserted(r) /\ g \notin Inserted(r)
    <3>1. PICK h0 \in rows : h = Rewritten(h0, r)
      BY <2>5 DEF Commit
    <3>2. PICK g0 \in rows : g = Rewritten(g0, r)
      BY <2>5 DEF Commit
    <3>3. h0 = g0 \/ Cleared(x)
      BY <1>0, <1>1, <1>3, <3>1, <3>2 DEF Apart
    <3> QED BY <2>1, <3>1, <3>2, <3>3
  <2> QED BY <2>2, <2>3, <2>4, <2>5
<1> QED BY <1>3 DEF Apart, Covers, Cleared

LEMMA HistoryStep == HistoryInv /\ [HistoryNext]_historyVars => HistoryInv'
<1>1. ASSUME HistoryInv, UNCHANGED historyVars
      PROVE  HistoryInv'
  BY <1>1 DEF historyVars, reqVars, HistoryInv, HistoryTypeOK, RowsOK, RequestsOK, ClosesOK,
         InsertsOK, StepOK,
              AllFollowed, Followed, Apart, Covers, Cleared
<1>2. ASSUME HistoryInv, NEW r \in Request, Commit(r)
      PROVE  HistoryInv'
  BY <1>2, CommitType, CommitRows, CommitRequests, CommitFollowed, CommitApart DEF HistoryInv
<1> QED
  BY <1>1, <1>2, ClockStep, BeginStep, FindStep, CloseStep, InsertStep, RollbackStep
     DEF HistoryNext

LEMMA HistoryInvariance == HistorySpec => []HistoryInv
BY HistoryStart, HistoryStep, PTL DEF HistorySpec

-----------------------------------------------------------------------------
\* The history, the clock and the locals of the requests are typed.
THEOREM HistoryTypeCorrect == HistorySpec => []HistoryTypeOK
<1>1. HistoryInv => HistoryTypeOK
  BY DEF HistoryInv
<1> QED BY <1>1, HistoryInvariance, PTL

\* Reassigning alone never gives a moment two owners, however many requests race:
\* closeCurrentAssignment and the index on the open row see to it.
THEOREM ReassigningKeepsOneOwner == HistorySpec => []ReassignKeepsOneOwner
<1>1. ASSUME HistoryInv, NEW x \in Moments, Cardinality(Covering(x)) > 1
      PROVE  \E h \in rows : h.by = "unassign" /\ x < h.to
  <2>1. \A h, g \in Covering(x) : h = g \/ Cleared(x)
    BY <1>1 DEF HistoryInv, Apart, Covering, Covers
  <2>2. CASE Covering(x) = {}
    BY <1>1, <2>2, FS_EmptySet
  <2>3. CASE \E h \in Covering(x) : Covering(x) = {h}
    <3>1. PICK h \in Covering(x) : Covering(x) = {h}
      BY <2>3
    <3>2. Cardinality({h}) = 1
      BY FS_Singleton
    <3> QED BY <1>1, <3>1, <3>2
  <2>4. CASE \E h, g \in Covering(x) : h # g
    <3>1. Cleared(x)
      BY <2>1, <2>4
    <3> QED BY <3>1 DEF Cleared
  <2> QED BY <2>2, <2>3, <2>4
<1>2. HistoryInv => ReassignKeepsOneOwner
  BY <1>1 DEF ReassignKeepsOneOwner
<1> QED BY <1>2, HistoryInvariance, PTL

\* A closed interval is never rewritten: a commit rewrites an open row only.
THEOREM ThePastIsFinal == HistorySpec => PastIsFinal
<1>1. ASSUME HistoryInv, [HistoryNext]_historyVars
      PROVE  [\A h \in rows : h.to # Open => h \in rows']_historyVars
  <2>1. CASE rows' = rows
    BY <2>1
  <2>2. ASSUME NEW r \in Request, Commit(r), NEW h \in rows, h.to # Open
        PROVE  h \in rows'
    <3>1. pc[r] = "commit" /\ Rewritten(h, r) \in rows'
      BY <2>2 DEF Commit
    <3>2. Rewritten(h, r) = h
      BY <1>1, <2>2, <3>1, RewrittenRow
    <3> QED BY <3>1, <3>2
  <2>3. rows' = rows \/ \E r \in Request : Commit(r)
    BY <1>1 DEF HistoryNext, ClockTick, BeginRequest, FindOpen, CloseOpen, InsertRow, Rollback,
           historyVars
  <2> QED BY <2>1, <2>2, <2>3
<1> QED BY <1>1, HistoryInvariance, PTL DEF HistorySpec, PastIsFinal
=============================================================================
