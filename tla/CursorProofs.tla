---------------------------- MODULE CursorProofs ----------------------------
(***************************************************************************)
(* Proofs about the cursor of one profile, for every finite set of accounts *)
(* and every configured batch size: the arithmetic of RoundRobin, what a    *)
(* claim promises (SyncCursor, with the history of waits of MCSyncCursor)   *)
(* and how its statements keep it with any number of tasks at once          *)
(* (CursorClaim).                                                           *)
(***************************************************************************)
EXTENDS CursorClaim, MCSyncCursor, FiniteSetTheorems, TLAPS

-----------------------------------------------------------------------------
(* The arithmetic of the cursor. *)

\* Integer division by a positive divisor, in the form the solver can use.
LEMMA DivBounds ==
  ASSUME NEW x \in Nat, NEW k \in Nat \ {0}
  PROVE  /\ x \div k \in Nat
         /\ (x \div k) * k <= x
         /\ x < (x \div k) * k + k
OBVIOUS

\* A batch that is one divisor smaller takes exactly one task less.
LEMMA DivStep ==
  ASSUME NEW x \in Nat, NEW k \in Nat \ {0}
  PROVE  (x + k) \div k = x \div k + 1
OBVIOUS

LEMMA DivMonotone ==
  ASSUME NEW x \in Nat, NEW y \in Nat, NEW k \in Nat \ {0}
  PROVE  x \div k <= (x + y) \div k
OBVIOUS

\* What fits in one batch is zero tasks away.
LEMMA DivZero ==
  ASSUME NEW x \in Nat, NEW k \in Nat \ {0}
  PROVE  x \div k = 0 <=> x < k
OBVIOUS

\* The cursor written back always names a position of the list, whatever was
\* stored before (the clamp and the wrap of the claim).
THEOREM NextOffsetInList ==
  ASSUME NEW n \in Nat \ {0}, NEW k \in Nat \ {0}, NEW o \in Nat
  PROVE  NextOffset(o, n, k) \in 0 .. n - 1
BY DEF NextOffset, EndOf, StartOf

\* A claim on a non-empty list takes at least one and at most k positions, all
\* of them in the list.
THEOREM BatchInList ==
  ASSUME NEW n \in Nat \ {0}, NEW k \in Nat \ {0}, NEW o \in Nat
  PROVE  /\ StartOf(o, n) \in Positions(o, n, k)
         /\ Positions(o, n, k) \subseteq 0 .. n - 1
         /\ EndOf(o, n, k) - StartOf(o, n) <= k
BY DEF Positions, EndOf, StartOf

\* The predictor and the claim agree on the next batch: a position is predicted
\* to be 0 tasks away exactly when the next claim takes it.
THEOREM PredictedNowIsTaken ==
  ASSUME NEW n \in Nat \ {0}, NEW k \in Nat \ {0}, NEW o \in Nat,
         NEW i \in 0 .. n - 1
  PROVE  /\ BatchesUntil(i, o, n, k) \in Nat
         /\ BatchesUntil(i, o, n, k) = 0 <=> i \in Positions(o, n, k)
<1> DEFINE s == StartOf(o, n)
<1>1. s \in 0 .. n - 1
  BY DEF StartOf
<1>2. CASE i >= s
  <2>1. i - s \in Nat /\ BatchesUntil(i, o, n, k) = (i - s) \div k
    BY <1>1, <1>2 DEF BatchesUntil
  <2>2. i \in Positions(o, n, k) <=> i - s < k
    BY <1>1, <1>2 DEF Positions, EndOf
  <2> QED  BY <2>1, <2>2, DivBounds, DivZero
<1>3. CASE i < s
  <2> DEFINE x == n - s - 1
  <2>1. /\ x \in Nat /\ n - s + k - 1 = x + k
        /\ i \div k \in Nat /\ x \div k \in Nat
    BY <1>1, DivBounds
  <2>2. BatchesUntil(i, o, n, k) = (x + k) \div k + i \div k
    BY <1>1, <1>3, <2>1 DEF BatchesUntil
  <2>3. (x + k) \div k = x \div k + 1
    BY <2>1, DivStep
  <2>4. i \notin Positions(o, n, k)
    BY <1>1, <1>3 DEF Positions
  <2> HIDE DEF x, s
  <2> QED  BY <2>1, <2>2, <2>3, <2>4
<1> QED  BY <1>1, <1>2, <1>3

\* A claim on an unchanged list brings every position it does not take exactly
\* one task closer, across the wrap at the end of the list too.
THEOREM PredictedComesCloser ==
  ASSUME NEW n \in Nat \ {0}, NEW k \in Nat \ {0}, NEW o \in Nat,
         NEW i \in 0 .. n - 1,
         i \notin Positions(o, n, k)
  PROVE  BatchesUntil(i, NextOffset(o, n, k), n, k) = BatchesUntil(i, o, n, k) - 1
<1> DEFINE s == StartOf(o, n)
           x == n - s - 1
<1>1. s \in 0 .. n - 1 /\ x \in Nat
  BY DEF StartOf
<1>2. CASE i >= s
  <2> DEFINE y == i - s - k
  <2>1. y \in Nat /\ s + k < n
    BY <1>1, <1>2 DEF Positions, EndOf
  <2>2. NextOffset(o, n, k) = s + k /\ StartOf(s + k, n) = s + k
    BY <1>1, <2>1 DEF NextOffset, EndOf, StartOf
  <2>3. BatchesUntil(i, NextOffset(o, n, k), n, k) = y \div k
    <3>1. i >= s + k /\ i - (s + k) = y
      BY <1>1, <2>1
    <3> QED  BY <2>2, <3>1 DEF BatchesUntil
  <2>4. BatchesUntil(i, o, n, k) = (y + k) \div k
    <3>1. i - s = y + k
      BY <1>1
    <3> QED  BY <1>2, <3>1 DEF BatchesUntil
  <2>5. y \div k \in Nat /\ (y + k) \div k = y \div k + 1
    BY <2>1, DivStep, DivBounds
  <2> HIDE DEF y, s
  <2> QED  BY <2>3, <2>4, <2>5
<1>3. CASE i < s
  <2>1. BatchesUntil(i, o, n, k) = (x + k) \div k + i \div k
    <3>1. n - s + k - 1 = x + k
      BY <1>1
    <3> QED  BY <1>1, <1>3, <3>1 DEF BatchesUntil
  <2>2. /\ (x + k) \div k = x \div k + 1
        /\ x \div k \in Nat /\ i \div k \in Nat
    <3>1. x \in Nat /\ i \in Nat
      BY <1>1
    <3> HIDE DEF x, s
    <3> QED  BY <3>1, DivStep, DivBounds
  <2>3. CASE s + k < n
    <3>1. NextOffset(o, n, k) = s + k /\ StartOf(s + k, n) = s + k
      BY <1>1, <2>3 DEF NextOffset, EndOf, StartOf
    <3>2. n - (s + k) + k - 1 = x /\ ~ (i >= s + k)
      BY <1>1, <1>3
    <3>3. BatchesUntil(i, NextOffset(o, n, k), n, k) = x \div k + i \div k
      BY <3>1, <3>2 DEF BatchesUntil
    <3> HIDE DEF x, s
    <3> QED  BY <2>1, <2>2, <3>3
  <2>4. CASE s + k >= n
    <3>1. NextOffset(o, n, k) = 0 /\ StartOf(0, n) = 0
      BY <1>1, <2>4 DEF NextOffset, EndOf, StartOf
    <3>2. BatchesUntil(i, NextOffset(o, n, k), n, k) = i \div k
      BY <3>1 DEF BatchesUntil
    <3>3. x \div k = 0
      BY <1>1, <2>4, DivZero
    <3> HIDE DEF x, s
    <3> QED  BY <2>1, <2>2, <3>2, <3>3
  <2> QED  BY <1>1, <2>3, <2>4
<1> QED  BY <1>1, <1>2, <1>3

-----------------------------------------------------------------------------
(* Accounts and their positions. *)

LEMMA KPositive == K \in Nat \ {0}
BY BatchSizeAssumption DEF K, Limit

LEMMA Sizes ==
  ASSUME NEW S \in SUBSET Account, NEW T \in SUBSET S
  PROVE  /\ Total(T) \in Nat /\ Total(S) \in Nat
         /\ Total(T) <= Total(S)
         /\ T # {} => Total(T) # 0
<1>1. IsFiniteSet(S) /\ IsFiniteSet(T)
  BY AccountAssumption, FS_Subset
<1>2. Total(T) \in Nat /\ Total(S) \in Nat /\ Total(T) <= Total(S)
  BY <1>1, FS_Subset, FS_CardinalityType DEF Total
<1>3. T # {} => Total(T) # 0
  BY <1>1, FS_EmptySet DEF Total
<1> QED BY <1>2, <1>3

\* Every account has a position in its list.
LEMMA IndexInList ==
  ASSUME NEW S \in SUBSET Account, NEW a \in S
  PROVE  /\ Total(S) \in Nat \ {0}
         /\ Index(a, S) \in 0 .. Total(S) - 1
<1> DEFINE B == {b \in S : b < a}
<1>1. IsFiniteSet(S) /\ a \in Int
  BY AccountAssumption, FS_Subset
<1>2. IsFiniteSet(B) /\ Cardinality(B) \in Nat /\ Total(S) \in Nat
  BY <1>1, FS_Subset, FS_CardinalityType DEF Total
<1>3. B # S
  <2>1. ~ (a < a)
    BY <1>1
  <2> QED  BY <2>1
<1>4. Cardinality(B) < Total(S)
  <2>1. B \in SUBSET S
    OBVIOUS
  <2>2. Cardinality(B) <= Total(S)
          /\ (Cardinality(B) = Total(S) => B = S)
    BY <1>1, <2>1, FS_Subset DEF Total
  <2> QED  BY <1>2, <1>3, <2>2
<1> QED  BY <1>2, <1>4 DEF Index, Total

-----------------------------------------------------------------------------
(* The claim as one step. *)

\* The offset a claim starts from; a missing row reads as 0.
Start == Offset(cursor)

LEMMA ClaimWrites ==
  ASSUME TypeOK, ClaimBatch
  PROVE  /\ accounts' = accounts /\ accounts # {} /\ deleted' = deleted
         /\ Total(accounts) \in Nat \ {0}
         /\ Start \in Nat
         /\ batch' = BatchOf(accounts, cursor)
         /\ cursor' = NextOffset(Start, Total(accounts), K)
         /\ cursor' \in 0 .. Total(accounts) - 1
         /\ Start' = cursor'
<1>1. accounts' = accounts /\ accounts # {} /\ deleted' = deleted
  BY DEF ClaimBatch
<1>2. Total(accounts) \in Nat \ {0}
  BY <1>1, IndexInList DEF TypeOK
<1>3. Start \in Nat
  BY DEF TypeOK, Start, Offset, NoRow
<1>4. cursor' = NextOffset(Start, Total(accounts), K)
  BY DEF ClaimBatch, Start
<1>5. batch' = BatchOf(accounts, cursor)
  BY DEF ClaimBatch, BatchOf, BatchOf, Start
<1>6. cursor' \in 0 .. Total(accounts) - 1
  BY <1>2, <1>3, <1>4, KPositive, NextOffsetInList
<1>7. Start' = cursor'
  BY <1>2, <1>6 DEF Start, Offset, NoRow
<1> QED  BY <1>1, <1>2, <1>3, <1>4, <1>5, <1>6, <1>7

LEMMA PromiseType == TypeOK /\ [Next]_vars => TypeOK'
<1> SUFFICES ASSUME TypeOK, [Next]_vars PROVE TypeOK'
  OBVIOUS
<1>1. CASE ClaimBatch
  <2>1. Total(accounts) <= Total(Account) /\ Total(Account) \in Nat
    BY Sizes DEF TypeOK
  <2>2. cursor' \in 0 .. Total(Account) /\ batch' \subseteq accounts
    BY <1>1, <2>1, ClaimWrites DEF BatchOf
  <2> QED  BY <1>1, <2>2, ClaimWrites DEF TypeOK
<1>2. CASE ImportAccounts
  BY <1>2 DEF ImportAccounts, TypeOK
<1>3. CASE DeleteProfile
  BY <1>3 DEF DeleteProfile, TypeOK
<1>4. CASE UNCHANGED vars
  BY <1>4 DEF vars, TypeOK
<1> QED  BY <1>1, <1>2, <1>3, <1>4 DEF Next

\* Type correctness of the claim as one step.
THEOREM CursorTypeCorrect == Safety => []TypeOK
<1>1. Init => TypeOK
  BY DEF Init, TypeOK
<1> QED  BY <1>1, PromiseType, PTL DEF Safety

\* The stored offset always names a position of the list, whatever is imported
\* while the cursor stands.
Standing == CursorInList /\ (accounts = {} => cursor = NoRow)

LEMMA StandingStep ==
  TypeOK /\ Standing /\ [Next]_vars => Standing'
<1> SUFFICES ASSUME TypeOK, Standing, [Next]_vars PROVE Standing'
  OBVIOUS
<1> USE DEF Standing, Start
<1>0. CursorInList <=> (accounts # {} => Start \in 0 .. Total(accounts) - 1)
  BY DEF CursorInList
<1>1. CASE ClaimBatch
  <2>1. Start' \in 0 .. Total(accounts') - 1
    BY <1>1, ClaimWrites
  <2> QED  BY <1>1, <2>1, ClaimWrites DEF CursorInList
<1>2. CASE ImportAccounts
  <2>1. /\ accounts \in SUBSET accounts' /\ accounts' \in SUBSET Account
        /\ accounts' # {} /\ cursor' = cursor
    BY <1>2 DEF ImportAccounts, TypeOK
  <2>2. /\ Total(accounts) \in Nat /\ Total(accounts') \in Nat \ {0}
        /\ Total(accounts) <= Total(accounts')
    BY <2>1, Sizes
  <2>3. Start' = Start /\ (accounts = {} => Start = 0)
    BY <2>1 DEF Offset, NoRow
  <2>4. Start \in 0 .. Total(accounts') - 1
    BY <1>0, <2>2, <2>3
  <2> QED  BY <2>1, <2>3, <2>4 DEF CursorInList
<1>3. CASE DeleteProfile
  BY <1>3 DEF DeleteProfile, CursorInList, NoRow
<1>4. CASE UNCHANGED vars
  BY <1>4 DEF vars, CursorInList
<1> QED  BY <1>1, <1>2, <1>3, <1>4 DEF Next

\* The stored offset always names a position of the list.
THEOREM CursorStaysInList == Safety => []CursorInList
<1>1. Init => Standing
  BY DEF Init, Standing, CursorInList, NoRow
<1>2. Standing => CursorInList
  BY DEF Standing
<1> QED  BY <1>1, <1>2, StandingStep, CursorTypeCorrect, PTL DEF Safety

\* The schedule shown to the operator is exact: on a list nothing is imported
\* into, a claim takes the accounts predicted 0 tasks away and brings every
\* other account exactly one task closer.
THEOREM PredictionIsExact == Safety => PredictionExact
<1> DEFINE Exact ==
      accounts' = accounts =>
        \A a \in accounts :
          IF Predicted(a, accounts, cursor) = 0
            THEN a \in batch'
            ELSE /\ a \notin batch'
                 /\ Predicted(a, accounts, cursor')
                      = Predicted(a, accounts, cursor) - 1
<1>1. TypeOK /\ [Next]_vars => [Exact]_vars
  <2> SUFFICES ASSUME TypeOK, Next, accounts' = accounts,
                      NEW a \in accounts
               PROVE  IF Predicted(a, accounts, cursor) = 0
                        THEN a \in batch'
                        ELSE /\ a \notin batch'
                             /\ Predicted(a, accounts, cursor')
                                  = Predicted(a, accounts, cursor) - 1
    OBVIOUS
  <2> DEFINE n == Total(accounts)
             i == Index(a, accounts)
  <2>1. ClaimBatch
    BY DEF Next, ImportAccounts, DeleteProfile
  <2>2. Start \in Nat /\ n \in Nat \ {0} /\ i \in 0 .. n - 1 /\ K \in Nat \ {0}
    BY <2>1, ClaimWrites, IndexInList, KPositive DEF TypeOK
  <2>3. a \in batch' <=> i \in Positions(Start, n, K)
    BY <2>1, ClaimWrites DEF BatchOf, Start
  <2>4. Start' = NextOffset(Start, n, K)
    BY <2>1, ClaimWrites
  <2>5. /\ Predicted(a, accounts, cursor) = BatchesUntil(i, Start, n, K)
        /\ Predicted(a, accounts, cursor') = BatchesUntil(i, Start', n, K)
    BY DEF Predicted, Start
  <2> HIDE DEF n, i
  <2>6. BatchesUntil(i, Start, n, K) = 0 <=> i \in Positions(Start, n, K)
    BY <2>2, PredictedNowIsTaken
  <2>7. i \notin Positions(Start, n, K)
          => BatchesUntil(i, NextOffset(Start, n, K), n, K) = BatchesUntil(i, Start, n, K) - 1
    BY <2>2, PredictedComesCloser
  <2> QED  BY <2>3, <2>4, <2>5, <2>6, <2>7
<1> QED  BY <1>1, CursorTypeCorrect, PTL DEF Safety, PredictionExact

-----------------------------------------------------------------------------
(* How long an account waits.  The batches before the cursor, Start \div K of *)
(* them, belong to the present pass: an account behind the cursor has waited  *)
(* for no other claims, one ahead of it for at most a whole pass more.        *)

Passed == Start \div K

Waits ==
  /\ wait \in [Account -> Nat]
  /\ IF deleted THEN accounts = {} ELSE \A a \in Account \ accounts : wait[a] = 0
  /\ \A a \in accounts :
       wait[a] <= Passed + IF Index(a, accounts) < Start
                             THEN 0 ELSE Pass(Total(Account))

WaitInv == TypeOK /\ Standing /\ Waits

\* Moving up in the list, or into it.
LEMMA IndexGrows ==
  ASSUME NEW S \in SUBSET Account, NEW T \in SUBSET S, NEW a \in Account
  PROVE  Index(a, T) \in Nat /\ Index(a, S) \in Nat /\ Index(a, T) <= Index(a, S)
<1> DEFINE B == {b \in S : b < a}
           C == {b \in T : b < a}
<1>1. B \in SUBSET Account /\ C \in SUBSET B
  OBVIOUS
<1> HIDE DEF B, C
<1>2. Total(C) \in Nat /\ Total(B) \in Nat /\ Total(C) <= Total(B)
  BY <1>1, Sizes
<1> QED  BY <1>2 DEF Index, Total, B, C

\* A cursor in a list that is no longer than the pool has passed fewer batches
\* than a pass over the pool.
LEMMA PassLength ==
  ASSUME NEW n \in Nat, NEW N \in Nat, n <= N, NEW o \in 0 .. n - 1
  PROVE  o \div K \in Nat /\ Pass(N) \in Nat /\ o \div K + 1 <= Pass(N)
<1>1. K \in Nat \ {0} /\ Pass(N) = (N + K - 1) \div K
  BY KPositive DEF Pass
<1> DEFINE x == N - 1 - o
           y == o + x
<1>2. x \in Nat /\ o \in Nat /\ y \in Nat /\ N + K - 1 = y + K
  BY <1>1
<1>3. o \div K <= y \div K
  <2> HIDE DEF x
  <2> QED  BY <1>1, <1>2, DivMonotone
<1> HIDE DEF x, y
<1>4. o \div K \in Nat /\ y \div K \in Nat
  BY <1>1, <1>2, DivBounds
<1>5. (y + K) \div K = y \div K + 1
  BY <1>1, <1>2, DivStep
<1> QED  BY <1>1, <1>2, <1>3, <1>4, <1>5

LEMMA WaitInit == MCInit => WaitInv
<1> SUFFICES ASSUME MCInit PROVE WaitInv
  OBVIOUS
<1>1. TypeOK
  BY DEF MCInit, Init, TypeOK
<1>2. Standing
  BY DEF MCInit, Init, Standing, CursorInList, NoRow
<1>3. Waits
  BY DEF MCInit, Init, Waits
<1> QED  BY <1>1, <1>2, <1>3 DEF WaitInv

LEMMA WaitClaim ==
  ASSUME WaitInv, ClaimBatch,
         wait' = [a \in Account |-> IF a \in accounts \ batch' THEN wait[a] + 1 ELSE 0]
  PROVE  Waits'
<1> DEFINE n == Total(accounts)
           P == Pass(Total(Account))
<1>1. /\ TypeOK /\ Waits /\ accounts \subseteq Account
      /\ K \in Nat \ {0} /\ n \in Nat \ {0} /\ n <= Total(Account)
      /\ Total(Account) \in Nat
  BY ClaimWrites, KPositive, Sizes DEF WaitInv, TypeOK
<1>2. Start \in 0 .. n - 1
  BY ClaimWrites DEF WaitInv, Standing, CursorInList, Start
<1>3. wait' \in [Account -> Nat] /\ \A a \in Account \ accounts : wait'[a] = 0
  BY <1>1 DEF Waits
<1>4. accounts' = accounts /\ deleted' = deleted /\ accounts # {} /\ ~deleted
  BY <1>1, ClaimWrites DEF Waits
<1>5. Start' = NextOffset(Start, n, K) /\ Start' \in 0 .. n - 1
  BY <1>1, ClaimWrites
<1>6. /\ Passed \in Nat /\ Passed + 1 <= P
      /\ Passed' \in Nat /\ Passed' + 1 <= P /\ P \in Nat
  BY <1>1, <1>2, <1>5, PassLength DEF Passed
<1>7. ASSUME NEW a \in accounts
      PROVE  wait'[a] <= Passed' + IF Index(a, accounts) < Start' THEN 0 ELSE P
  <2> DEFINE i == Index(a, accounts)
  <2>1. i \in 0 .. n - 1 /\ (a \in batch' <=> i \in Positions(Start, n, K))
    BY <1>1, ClaimWrites, IndexInList DEF BatchOf, Start
  <2>2. CASE a \in batch'
    <3>1. wait'[a] = 0
      BY <1>1, <2>2
    <3> QED  BY <1>6, <3>1
  <2>3. CASE a \notin batch'
    <3>1. /\ wait'[a] = wait[a] + 1 /\ wait[a] \in Nat
          /\ wait[a] <= Passed + IF i < Start THEN 0 ELSE P
      BY <1>1, <2>3 DEF Waits
    <3>2. CASE Start + K < n
      <4>1. Start' = Start + K /\ Start \in Nat
        BY <1>1, <1>2, <1>5, <3>2 DEF NextOffset, EndOf, StartOf
      <4>2. Passed' = Passed + 1
        <5>1. (Start + K) \div K = Start \div K + 1
          BY <1>1, <4>1, DivStep
        <5> QED  BY <4>1, <5>1 DEF Passed
      <4>3. i < Start <=> i < Start'
        BY <1>1, <1>2, <2>1, <2>3, <3>2, <4>1 DEF Positions, EndOf, StartOf
      <4> HIDE DEF i, n, P
      <4> QED  BY <1>6, <3>1, <4>2, <4>3 DEF i
    <3>3. CASE Start + K >= n
      <4>1. Start' = 0 /\ i < Start
        BY <1>1, <1>2, <1>5, <2>1, <2>3, <3>3 DEF NextOffset, Positions, EndOf, StartOf
      <4>2. i \in Nat
        BY <2>1
      <4> HIDE DEF i, n, P
      <4> QED  BY <1>6, <3>1, <4>1, <4>2 DEF i
    <3> QED  BY <1>1, <1>2, <3>2, <3>3
  <2> QED  BY <2>2, <2>3
<1> QED  BY <1>3, <1>4, <1>7 DEF Waits

LEMMA WaitImport ==
  ASSUME WaitInv, ImportAccounts, wait' = wait
  PROVE  Waits'
<1> DEFINE P == Pass(Total(Account))
<1>1. /\ Waits /\ ~deleted /\ deleted' = deleted /\ Start' = Start
      /\ accounts \in SUBSET accounts' /\ accounts' \in SUBSET Account
  BY DEF WaitInv, TypeOK, ImportAccounts, Start
<1>2. Start \in Nat /\ Passed \in Nat /\ Passed' = Passed /\ P \in Nat
  <2>1. Start \in Nat
    BY DEF WaitInv, TypeOK, Start, Offset, NoRow
  <2>2. Total(Account) \in Nat /\ K \in Nat \ {0}
    BY KPositive, Sizes
  <2>3. Total(Account) + K - 1 \in Nat
    BY <2>2
  <2> QED  BY <1>1, <2>1, <2>2, <2>3, DivBounds DEF Passed, Pass
<1>3. ASSUME NEW a \in accounts'
      PROVE  wait[a] <= Passed + IF Index(a, accounts') < Start THEN 0 ELSE P
  <2>1. CASE a \in accounts
    <3>1. /\ Index(a, accounts) \in Nat /\ Index(a, accounts') \in Nat
          /\ Index(a, accounts) <= Index(a, accounts')
      BY <1>1, IndexGrows
    <3>2. wait[a] \in Nat
            /\ wait[a] <= Passed + IF Index(a, accounts) < Start THEN 0 ELSE P
      BY <1>1, <2>1 DEF Waits
    <3> HIDE DEF P
    <3> QED  BY <1>2, <3>1, <3>2
  <2>2. CASE a \notin accounts
    <3>1. wait[a] = 0
      BY <1>1, <2>2 DEF Waits
    <3> HIDE DEF P
    <3> QED  BY <1>2, <3>1
  <2> QED  BY <2>1, <2>2
<1> QED  BY <1>1, <1>2, <1>3 DEF Waits

LEMMA WaitStep == WaitInv /\ [MCNext]_<<vars, wait>> => WaitInv'
<1> SUFFICES ASSUME WaitInv, [MCNext]_<<vars, wait>> PROVE WaitInv'
  OBVIOUS
<1>1. TypeOK' /\ Standing'
  <2>1. [Next]_vars
    BY DEF MCNext, Next
  <2> QED  BY <2>1, PromiseType, StandingStep DEF WaitInv
<1>2. Waits'
  <2>1. CASE ClaimBatch
              /\ wait' = [a \in Account |-> IF a \in accounts \ batch' THEN wait[a] + 1 ELSE 0]
    BY <2>1, WaitClaim
  <2>2. CASE ImportAccounts /\ wait' = wait
    BY <2>2, WaitImport
  <2>3. CASE DeleteProfile /\ wait' = wait
    BY <2>3 DEF WaitInv, Waits, DeleteProfile
  <2>4. CASE UNCHANGED <<vars, wait>>
    BY <2>4 DEF WaitInv, Waits, vars, Start, Passed
  <2> QED  BY <2>1, <2>2, <2>3, <2>4 DEF MCNext
<1> QED  BY <1>1, <1>2 DEF WaitInv

\* No account is starved: whatever is imported in front of it, it is claimed
\* again within two passes over the pool.
THEOREM NobodyStarves == MCSafety => []WaitBounded
<1>1. WaitInv => WaitBounded
  <2> SUFFICES ASSUME WaitInv, NEW a \in accounts
               PROVE  wait[a] < 2 * Pass(Total(Account))
    BY DEF WaitBounded
  <2> DEFINE P == Pass(Total(Account))
  <2>1. /\ accounts \in SUBSET Account /\ a \in Account /\ wait[a] \in Nat
        /\ wait[a] <= Passed + IF Index(a, accounts) < Start THEN 0 ELSE P
    BY DEF WaitInv, Waits, TypeOK
  <2>2. /\ Total(accounts) \in Nat /\ Total(Account) \in Nat
        /\ Total(accounts) <= Total(Account)
    BY <2>1, Sizes
  <2>3. Start \in 0 .. Total(accounts) - 1
    BY DEF WaitInv, Standing, CursorInList, Start
  <2>4. Passed \in Nat /\ P \in Nat /\ Passed + 1 <= P
    BY <2>2, <2>3, PassLength DEF Passed
  <2> HIDE DEF P
  <2> QED  BY <2>1, <2>4 DEF P
<1> QED  BY <1>1, WaitInit, WaitStep, PTL DEF MCSafety

-----------------------------------------------------------------------------
(* The claim statement by statement: its inductive invariant. *)

USE DEF vars, taskVars

\* The holder of the cursor row, and only it, may advance the cursor; what it
\* has read of the row is still there.
Held ==
  \A t \in Task :
    /\ rowLock = t => pc[t] \in {"lock", "update"}
    /\ pc[t] = "update" => rowLock = t /\ offset[t] = Offset(cursor)

\* Lists were read from the links of a profile that only gains accounts, until
\* it is deleted and everything is gone.
Lists ==
  /\ \A t \in Task :
       /\ ~deleted => list[t] \subseteq accounts
       /\ pc[t] \in {"insert", "lock", "update"} => list[t] # {}
  /\ deleted => cursor = NoRow /\ rowLock = NoTask

\* Batches begin at the head of the list or a batch behind it, and the cursor is
\* where the last batch left it.
InTurn ==
  /\ cursor \in {NoRow, 0} \/ cursor >= K
  /\ batch # {} =>
       \E o \in Nat : /\ o = 0 \/ o >= K
                      /\ batch = BatchOf(lastList, o) /\ lastList # {}
                      /\ cursor = NextOffset(o, Total(lastList), K)

IInv == ClaimTypeOK /\ Held /\ Lists /\ CommittedInList /\ InTurn

LEMMA InitIInv == ClaimInit => IInv
<1> SUFFICES ASSUME ClaimInit PROVE IInv
  OBVIOUS
<1>1. Total(Account) \in Nat /\ 0 \in 0 .. Total(Account)
  BY Sizes
<1>2. ClaimTypeOK
  BY <1>1 DEF ClaimInit, Init, ClaimTypeOK
<1>3. Held
  BY ClaimAssumption DEF ClaimInit, Init, Held
<1>4. Lists
  BY DEF ClaimInit, Init, Lists
<1>5. CommittedInList
  BY DEF ClaimInit, Init, CommittedInList
<1>6. InTurn
  BY DEF ClaimInit, Init, InTurn
<1> QED BY <1>2, <1>3, <1>4, <1>5, <1>6 DEF IInv

\* Reading the list, and the answer of the claim, touch no shared state.
LEMMA LocalStep ==
  ASSUME IInv, NEW t \in Task, ReadList(t)
  PROVE  IInv'
<1>1. ClaimTypeOK /\ Held /\ Lists /\ CommittedInList /\ InTurn /\ 0 \in 0 .. Total(Account)
  BY Sizes DEF IInv
<1>2. ClaimTypeOK'
  BY <1>1 DEF ClaimTypeOK, ReadList
<1>3. Held'
  BY <1>1, ClaimAssumption DEF ClaimTypeOK, Held, ReadList
<1>4. Lists'
  BY <1>1 DEF ClaimTypeOK, Lists, ReadList
<1>5. CommittedInList' /\ InTurn'
  BY <1>1 DEF CommittedInList, InTurn, ReadList
<1> QED BY <1>2, <1>3, <1>4, <1>5 DEF IInv

LEMMA InsertStep ==
  ASSUME IInv, NEW t \in Task, InsertRow(t)
  PROVE  IInv'
<1>1. ClaimTypeOK /\ Held /\ Lists /\ CommittedInList /\ InTurn
  BY DEF IInv
<1>2. ClaimTypeOK'
  BY <1>1 DEF ClaimTypeOK, InsertRow
<1>3. Held'
  BY <1>1, ClaimAssumption DEF ClaimTypeOK, Held, InsertRow
<1>4. Lists'
  BY <1>1 DEF ClaimTypeOK, Lists, InsertRow
<1>5. CommittedInList' /\ InTurn'
  BY <1>1 DEF CommittedInList, InTurn, InsertRow
<1> QED BY <1>2, <1>3, <1>4, <1>5 DEF IInv

LEMMA LockStep ==
  ASSUME IInv, NEW t \in Task, LockRow(t)
  PROVE  IInv'
<1>1. /\ ClaimTypeOK /\ Held /\ Lists /\ CommittedInList /\ InTurn
      /\ 0 \in 0 .. Total(Account)
  BY Sizes DEF IInv
<1>2. ClaimTypeOK'
  BY <1>1 DEF ClaimTypeOK, LockRow, Offset, NoRow
<1>3. Held'
  BY <1>1, ClaimAssumption DEF ClaimTypeOK, Held, LockRow
<1>4. Lists'
  BY <1>1 DEF ClaimTypeOK, Lists, LockRow
<1>5. CommittedInList' /\ InTurn'
  BY <1>1 DEF CommittedInList, InTurn, LockRow
<1> QED BY <1>2, <1>3, <1>4, <1>5 DEF IInv

\* What an advance writes.
LEMMA AdvanceWrites ==
  ASSUME IInv, NEW t \in Task, Advance(t)
  PROVE  /\ list[t] # {} /\ list[t] \in SUBSET accounts /\ accounts \in SUBSET Account
         /\ offset[t] \in Nat /\ (offset[t] = 0 \/ offset[t] >= K)
         /\ offset[t] = Offset(cursor)
         /\ cursor' \in 0 .. Total(list[t]) - 1
         /\ Total(list[t]) \in Nat \ {0}
         /\ rowLock = t /\ ~deleted
<1>1. ClaimTypeOK /\ Held /\ Lists /\ InTurn /\ pc[t] = "update"
  BY DEF IInv, Advance
<1>2. rowLock = t /\ offset[t] = Offset(cursor)
  BY <1>1 DEF Held
<1>3. ~deleted
  BY <1>1, <1>2, ClaimAssumption DEF Lists
<1>4. list[t] # {} /\ list[t] \in SUBSET accounts /\ accounts \in SUBSET Account
  BY <1>1, <1>3 DEF Lists, ClaimTypeOK
<1>5. Total(list[t]) \in Nat \ {0}
  BY <1>4, Sizes
<1>6. offset[t] \in Nat /\ (offset[t] = 0 \/ offset[t] >= K)
  BY <1>1, <1>2 DEF ClaimTypeOK, InTurn, Offset, NoRow
<1>7. cursor' \in 0 .. Total(list[t]) - 1
  BY <1>5, <1>6, KPositive, NextOffsetInList DEF Advance
<1> QED BY <1>2, <1>3, <1>4, <1>5, <1>6, <1>7

LEMMA AdvanceStep ==
  ASSUME IInv, NEW t \in Task, Advance(t)
  PROVE  IInv'
<1> DEFINE n == Total(list[t])
<1>0. ClaimTypeOK /\ Held /\ Lists
  BY DEF IInv
<1>1. n \in Nat \ {0} /\ n <= Total(accounts) /\ n <= Total(Account)
      /\ Total(accounts) \in Nat /\ Total(Account) \in Nat
  BY AdvanceWrites, Sizes
<1>2. cursor' \in 0 .. n - 1
  BY AdvanceWrites
<1>3. ClaimTypeOK'
  <2>1. cursor' \in 0 .. Total(Account)
    BY <1>1, <1>2
  <2>2. batch' \subseteq list[t] /\ list[t] \subseteq Account
    BY AdvanceWrites DEF Advance, BatchOf
  <2>3. offset' \in [Task -> 0 .. Total(Account)]
    BY <1>0, <1>1 DEF Advance, ClaimTypeOK
  <2> QED BY <1>0, <2>1, <2>2, <2>3 DEF Advance, ClaimTypeOK
<1>4. Held'
  BY <1>0, AdvanceWrites, ClaimAssumption DEF Held, ClaimTypeOK, Advance
<1>5. Lists'
  BY <1>0, AdvanceWrites DEF Lists, ClaimTypeOK, Advance
<1>6. CommittedInList'
  <2>1. cursor' \in 0 .. Total(accounts) - 1
    BY <1>1, <1>2
  <2> QED BY <2>1 DEF CommittedInList, Advance
<1>7. InTurn'
  <2>1. /\ cursor' = NextOffset(offset[t], n, K) /\ batch' = BatchOf(list[t], offset[t])
        /\ lastList' = list[t]
    BY DEF Advance
  <2>2. cursor' = 0 \/ cursor' >= K
    BY <1>1, <2>1, AdvanceWrites, KPositive DEF NextOffset, EndOf, StartOf
  <2>3. \E o \in Nat : /\ o = 0 \/ o >= K
                       /\ batch' = BatchOf(lastList', o) /\ lastList' # {}
                       /\ cursor' = NextOffset(o, Total(lastList'), K)
    BY <2>1, AdvanceWrites
  <2> QED BY <2>2, <2>3 DEF InTurn
<1> QED BY <1>3, <1>4, <1>5, <1>6, <1>7 DEF IInv

LEMMA RollbackStep ==
  ASSUME IInv, NEW t \in Task, Rollback(t)
  PROVE  IInv'
<1>1. /\ ClaimTypeOK /\ Held /\ Lists /\ CommittedInList /\ InTurn
      /\ 0 \in 0 .. Total(Account)
  BY Sizes DEF IInv
<1>2. ClaimTypeOK'
  BY <1>1 DEF ClaimTypeOK, Rollback
<1>3. Held'
  BY <1>1, ClaimAssumption DEF ClaimTypeOK, Held, Rollback
<1>4. Lists'
  BY <1>1 DEF ClaimTypeOK, Lists, Rollback
<1>5. CommittedInList' /\ InTurn'
  BY <1>1 DEF CommittedInList, InTurn, Rollback
<1> QED BY <1>2, <1>3, <1>4, <1>5 DEF IInv

LEMMA ImportStep == ASSUME IInv, ImportMeanwhile PROVE IInv'
<1>1. ClaimTypeOK /\ Held /\ Lists /\ CommittedInList /\ InTurn
  BY DEF IInv
<1>2. accounts \in SUBSET accounts' /\ accounts' \in SUBSET Account
  BY <1>1 DEF ImportMeanwhile, ImportAccounts, ClaimTypeOK
<1>3. /\ Total(accounts) \in Nat /\ Total(accounts') \in Nat
      /\ Total(accounts) <= Total(accounts')
  BY <1>2, Sizes
<1>4. ClaimTypeOK'
  BY <1>1, <1>2 DEF ClaimTypeOK, ImportMeanwhile, ImportAccounts
<1>5. Held' /\ InTurn'
  BY <1>1 DEF Held, InTurn, ImportMeanwhile, ImportAccounts
<1>6. Lists'
  BY <1>1, <1>2 DEF Lists, ImportMeanwhile, ImportAccounts
<1>7. CommittedInList'
  BY <1>1, <1>3 DEF CommittedInList, ImportMeanwhile, ImportAccounts
<1> QED BY <1>4, <1>5, <1>6, <1>7 DEF IInv

LEMMA DeleteStep == ASSUME IInv, DeleteMeanwhile PROVE IInv'
<1>1. ClaimTypeOK /\ Held /\ Lists /\ InTurn
  BY DEF IInv
<1>2. ClaimTypeOK'
  BY <1>1 DEF ClaimTypeOK, DeleteMeanwhile, DeleteProfile
<1>3. Held'
  BY <1>1, ClaimAssumption DEF Held, DeleteMeanwhile, DeleteProfile
<1>4. Lists'
  BY <1>1 DEF Lists, DeleteMeanwhile, DeleteProfile
<1>5. CommittedInList' /\ InTurn'
  BY DEF CommittedInList, InTurn, DeleteMeanwhile, DeleteProfile
<1> QED BY <1>2, <1>3, <1>4, <1>5 DEF IInv

LEMMA NextIInv == IInv /\ [ClaimNext]_claimVars => IInv'
<1> SUFFICES ASSUME IInv, [ClaimNext]_claimVars PROVE IInv'
  OBVIOUS
<1>1. CASE UNCHANGED claimVars
  BY <1>1 DEF claimVars, IInv, ClaimTypeOK, Held, Lists, CommittedInList, InTurn
<1> QED
  BY <1>1, LocalStep, InsertStep, LockStep, AdvanceStep, RollbackStep, ImportStep, DeleteStep
     DEF ClaimNext

LEMMA Invariance == ClaimSpec => []IInv
BY InitIInv, NextIInv, PTL DEF ClaimSpec

-----------------------------------------------------------------------------
\* The cursor row, its lock and the locals of every claim are typed.
THEOREM ClaimTypeCorrect == ClaimSpec => []ClaimTypeOK
<1>1. IInv => ClaimTypeOK
  BY DEF IInv
<1> QED BY <1>1, Invariance, PTL

\* The list a claim works from may be out of date, but it is only too short: the
\* offset it writes back names a position of the list as it is now.
THEOREM StaleListsAreSafe == ClaimSpec => []CommittedInList
<1>1. IInv => CommittedInList
  BY DEF IInv, CommittedInList
<1> QED BY <1>1, Invariance, PTL

\* A claim that began before its profile was deleted leaves no row behind.
THEOREM DeletedForGood == ClaimSpec => []NoCursorAfterDelete
<1>1. IInv => NoCursorAfterDelete
  BY DEF IInv, Lists, NoCursorAfterDelete
<1> QED BY <1>1, Invariance, PTL

\* FOR UPDATE makes claims take turns: of a list longer than a batch, two claims
\* that follow one another have no account in common.
THEOREM ClaimsTakeTurns == ClaimSpec => ChunksDiffer
<1>1. ASSUME IInv, NEW t \in Task, Advance(t),
             batch # {}, list[t] = lastList, Total(list[t]) > K
      PROVE  batch' \cap batch = {}
  <2> DEFINE n == Total(list[t])
  <2>1. PICK o \in Nat : /\ o = 0 \/ o >= K
                         /\ batch = BatchOf(lastList, o)
                         /\ cursor = NextOffset(o, Total(lastList), K)
    BY <1>1 DEF IInv, InTurn
  <2>2. n \in Nat \ {0} /\ K \in Nat \ {0} /\ n > K
    BY <1>1, AdvanceWrites, KPositive
  <2>3. NextOffset(o, n, K) \in Nat
    BY <2>2, NextOffsetInList
  <2>4. offset[t] = NextOffset(o, n, K)
    BY <1>1, <2>1, <2>3, AdvanceWrites DEF Offset, NoRow
  <2>5. Positions(o, n, K) \cap Positions(offset[t], n, K) = {}
    BY <2>1, <2>2, <2>4 DEF Positions, NextOffset, EndOf, StartOf
  <2>6. batch' = BatchOf(list[t], offset[t])
    BY <1>1 DEF Advance
  <2>7. Offset(o) = o /\ Offset(offset[t]) = offset[t]
    BY <2>1, <2>3, <2>4 DEF Offset, NoRow
  <2> QED BY <1>1, <2>1, <2>5, <2>6, <2>7 DEF BatchOf
<1>2. IInv /\ [ClaimNext]_claimVars =>
        [\A t \in Task :
           Advance(t) /\ batch # {} /\ list[t] = lastList /\ Total(list[t]) > K =>
             batch' \cap batch = {}]_claimVars
  BY <1>1
<1> QED BY <1>2, Invariance, PTL DEF ClaimSpec, ChunksDiffer

\* With any number of tasks, as long as no import comes between the reading of a
\* list and the commit of its claim, the statements do what SyncCursor promises.
UpToDate == \A t \in Task : pc[t] = "update" => list[t] = accounts

THEOREM StatementsKeepPromise == ClaimSpec /\ []UpToDate => Safety
<1>1. ClaimInit => Init
  BY DEF ClaimInit
<1>2. IInv /\ UpToDate /\ [ClaimNext]_claimVars => [Next]_vars
  <2> SUFFICES ASSUME IInv, UpToDate, [ClaimNext]_claimVars PROVE [Next]_vars
    OBVIOUS
  <2>1. ASSUME NEW t \in Task, Advance(t) PROVE ClaimBatch
    <3>1. list[t] = accounts /\ accounts # {} /\ offset[t] = Offset(cursor)
      BY <2>1, AdvanceWrites DEF UpToDate, Advance
    <3>2. Offset(Offset(cursor)) = Offset(cursor)
      BY DEF Offset, NoRow
    <3> QED  BY <2>1, <3>1, <3>2 DEF Advance, ClaimBatch, BatchOf
  <2>2. ASSUME NEW t \in Task,
               ReadList(t) \/ InsertRow(t) \/ LockRow(t) \/ Rollback(t)
        PROVE  UNCHANGED vars
    BY <2>2 DEF ReadList, InsertRow, LockRow, Rollback
  <2>3. CASE ImportMeanwhile
    BY <2>3 DEF ImportMeanwhile, Next
  <2>4. CASE DeleteMeanwhile
    BY <2>4 DEF DeleteMeanwhile, Next
  <2>5. CASE UNCHANGED claimVars
    BY <2>5 DEF claimVars
  <2> QED  BY <2>1, <2>2, <2>3, <2>4, <2>5 DEF ClaimNext, Next
<1> QED  BY <1>1, <1>2, Invariance, PTL DEF ClaimSpec, Safety
=============================================================================
