-------------------------- MODULE AccountPoolProofs --------------------------
(***************************************************************************)
(* Theorems about AccountPool for any number of profiles, accounts and      *)
(* concurrent imports: the inductive invariant Inv, the safety properties   *)
(* it implies, and the refinement of PrimaryRegistry.                       *)
(***************************************************************************)
EXTENDS AccountPool, TLAPS

LEMMA InitInv == Init => Inv
BY PoolAssumption
   DEF Init, Inv, TypeOK, LockDiscipline, PrimaryUnique, DecisionStillValid,
       LinksOfLiveProfiles, SecondaryExplained, OrphanedOnlyByDelete,
       LinkKind, NoLinks, HasPrimary

\* Storing a profile touches no link.
LEMMA UpsertFBProfileInv ==
  ASSUME Inv, NEW p \in Profile, UpsertFBProfile(p) PROVE Inv'
BY DEF Inv, UpsertFBProfile, txVars, TypeOK, LockDiscipline, PrimaryUnique,
       DecisionStillValid, LinksOfLiveProfiles, SecondaryExplained,
       OrphanedOnlyByDelete, HasPrimary

LEMMA BeginImportInv ==
  ASSUME Inv, NEW t \in Tx, NEW p \in Profile, BeginImport(t, p) PROVE Inv'
<1>1. TypeOK'
  BY DEF Inv, BeginImport, TypeOK, LinkKind, NoLinks
<1>2. LockDiscipline'
  BY DEF Inv, BeginImport, TypeOK, LockDiscipline, LinkKind, NoLinks
<1>3. PrimaryUnique'
  BY DEF Inv, BeginImport, TypeOK, PrimaryUnique, LockDiscipline, DecisionStillValid, LinkKind
<1>4. DecisionStillValid'
  BY DEF Inv, BeginImport, TypeOK, DecisionStillValid, LockDiscipline, PrimaryUnique,
     HasPrimary, NoLinks, LinkKind
<1>5. LinksOfLiveProfiles'
  BY DEF Inv, BeginImport, TypeOK, LinksOfLiveProfiles, LockDiscipline, NoLinks
<1>6. SecondaryExplained'
  BY DEF Inv, BeginImport, TypeOK, SecondaryExplained, LockDiscipline, DecisionStillValid,
     HasPrimary, NoLinks, LinkKind
<1>7. OrphanedOnlyByDelete'
  BY DEF Inv, BeginImport, TypeOK, OrphanedOnlyByDelete, LockDiscipline, SecondaryExplained,
     HasPrimary, NoLinks, LinkKind
<1> QED  BY <1>1, <1>2, <1>3, <1>4, <1>5, <1>6, <1>7 DEF Inv

LEMMA UpsertAccountInv ==
  ASSUME Inv, NEW t \in Tx, UpsertAccount(t) PROVE Inv'
BY PoolAssumption
   DEF Inv, UpsertAccount, TypeOK, LockDiscipline, PrimaryUnique,
       DecisionStillValid, LinksOfLiveProfiles, SecondaryExplained,
       OrphanedOnlyByDelete, HasPrimary

LEMMA ReadPrimaryInv ==
  ASSUME Inv, NEW t \in Tx, ReadPrimary(t) PROVE Inv'
BY DEF Inv, ReadPrimary, TypeOK, LockDiscipline, PrimaryUnique,
       DecisionStillValid, LinksOfLiveProfiles, SecondaryExplained,
       OrphanedOnlyByDelete, HasPrimary

LEMMA UpsertLinkInv ==
  ASSUME Inv, NEW t \in Tx, UpsertLink(t) PROVE Inv'
<1>1. TypeOK'
  <2>1. LinkWritten(t) \in LinkKind /\ acct[t] \in Account
    BY DEF Inv, TypeOK, LinkWritten, LinkKind
  <2>2. writes' \in [Tx -> [Account -> LinkKind]]
    BY <2>1 DEF Inv, TypeOK, UpsertLink
  <2>3. touched' \in [Tx -> SUBSET Account]
    BY <2>1 DEF Inv, TypeOK, UpsertLink
  <2>4. /\ pc' \in [Tx -> {"idle", "upsert", "exists", "link", "commit"}]
        /\ acct' \in [Tx -> Account] /\ todo' \in [Tx -> SUBSET Account]
    <3>1. CASE todo[t] = {} /\ pc' = [pc EXCEPT ![t] = "commit"]
                 /\ UNCHANGED <<todo, acct>>
      BY <3>1 DEF Inv, TypeOK
    <3>2. ASSUME NEW a \in todo[t],
                 pc' = [pc EXCEPT ![t] = "upsert"],
                 acct' = [acct EXCEPT ![t] = a],
                 todo' = [todo EXCEPT ![t] = todo[t] \ {a}]
          PROVE  <2>4!:
      <4>1. a \in Account /\ todo[t] \ {a} \in SUBSET Account
        BY <3>2 DEF Inv, TypeOK
      <4> QED  BY <3>2, <4>1 DEF Inv, TypeOK
    <3> QED  BY <3>1, <3>2 DEF UpsertLink
  <2> QED  BY <2>2, <2>3, <2>4 DEF Inv, TypeOK, UpsertLink
<1>2. LockDiscipline'
  BY DEF Inv, UpsertLink, LinkWritten, TypeOK, LockDiscipline, LinkKind, NoLinks
<1>3. PrimaryUnique'
  BY DEF Inv, UpsertLink, LinkWritten, TypeOK, PrimaryUnique, LockDiscipline,
     DecisionStillValid, LinkKind
<1>4. DecisionStillValid'
  BY DEF Inv, UpsertLink, LinkWritten, TypeOK, DecisionStillValid, LockDiscipline,
     PrimaryUnique, HasPrimary, NoLinks, LinkKind
<1>5. LinksOfLiveProfiles'
  BY DEF Inv, UpsertLink, LinkWritten, TypeOK, LinksOfLiveProfiles, LockDiscipline, NoLinks
<1>6. SecondaryExplained'
  BY DEF Inv, UpsertLink, LinkWritten, TypeOK, SecondaryExplained, LockDiscipline,
     DecisionStillValid, HasPrimary, NoLinks, LinkKind
<1>7. OrphanedOnlyByDelete'
  BY DEF Inv, UpsertLink, LinkWritten, TypeOK, OrphanedOnlyByDelete, LockDiscipline,
     SecondaryExplained, HasPrimary, NoLinks, LinkKind
<1> QED  BY <1>1, <1>2, <1>3, <1>4, <1>5, <1>6, <1>7 DEF Inv

LEMMA CommitInv ==
  ASSUME Inv, NEW t \in Tx, Commit(t) PROVE Inv'
<1>1. TypeOK'
  BY PoolAssumption DEF Inv, Commit, EndTx, TypeOK, LinkKind, NoLinks
<1>2. LockDiscipline'
  BY PoolAssumption DEF Inv, Commit, EndTx, TypeOK, LockDiscipline, LinkKind, NoLinks
<1>3. PrimaryUnique'
  <2>1. \A p \in Profile, a \in Account :
          link'[p][a] = "primary" =>
            \/ link[p][a] = "primary"
            \/ p = who[t] /\ writes[t][a] = "primary"
    <3>1. who[t] \in Profile
      BY DEF Inv, TypeOK
    <3>2. \A p \in Profile, a \in Account :
            link'[p][a] = IF p = who[t] /\ writes[t][a] # "none"
                            THEN writes[t][a] ELSE link[p][a]
      <4> DEFINE F == [a \in Account |-> IF writes[t][a] = "none"
                                          THEN link[who[t]][a] ELSE writes[t][a]]
      <4>1. link' = [link EXCEPT ![who[t]] = F]
        BY DEF Commit
      <4>2. link'[who[t]] = F /\ \A p \in Profile : p # who[t] => link'[p] = link[p]
        <5>1. link \in [Profile -> [Account -> LinkKind]]
          BY DEF Inv, TypeOK
        <5> HIDE DEF F
        <5> QED  BY <3>1, <4>1, <5>1
      <4> QED  BY <3>1, <4>2
    <3> QED  BY <3>2
  <2>2. \A p \in Profile, a \in Account :
          writes[t][a] = "primary" => link[p][a] # "primary"
    BY DEF Inv, DecisionStillValid, HasPrimary
  <2> QED  BY <2>1, <2>2 DEF Inv, PrimaryUnique
<1>4. DecisionStillValid'
  BY PoolAssumption
     DEF Inv, Commit, EndTx, TypeOK, DecisionStillValid, LockDiscipline, PrimaryUnique,
         HasPrimary, NoLinks, LinkKind
<1>5. LinksOfLiveProfiles'
  BY PoolAssumption
     DEF Inv, Commit, EndTx, TypeOK, LinksOfLiveProfiles, LockDiscipline, NoLinks
<1>6. SecondaryExplained'
  BY PoolAssumption
     DEF Inv, Commit, EndTx, TypeOK, SecondaryExplained, LockDiscipline, DecisionStillValid,
         HasPrimary, NoLinks, LinkKind
<1>7. OrphanedOnlyByDelete'
  BY PoolAssumption DEF Inv, Commit, EndTx, TypeOK, OrphanedOnlyByDelete, LockDiscipline,
         SecondaryExplained, HasPrimary, NoLinks, LinkKind
<1> QED  BY <1>1, <1>2, <1>3, <1>4, <1>5, <1>6, <1>7 DEF Inv

\* An import that rolls back only gives up its locks.
LEMMA RollbackInv ==
  ASSUME Inv, NEW t \in Tx, EndTx(t), UNCHANGED <<link, orphaned>> PROVE Inv'
BY PoolAssumption
   DEF Inv, EndTx, TypeOK, LockDiscipline, PrimaryUnique,
       DecisionStillValid, LinksOfLiveProfiles, SecondaryExplained,
       OrphanedOnlyByDelete, HasPrimary, LinkKind, NoLinks

LEMMA DeleteFBProfileInv ==
  ASSUME Inv, NEW p \in Profile, DeleteFBProfile(p) PROVE Inv'
<1>0. \A q \in Profile, a \in Account :
        link'[q][a] = IF q = p THEN "none" ELSE link[q][a]
  BY DEF Inv, TypeOK, DeleteFBProfile, NoLinks
<1>1. TypeOK'
  BY DEF Inv, DeleteFBProfile, txVars, TypeOK, LinkKind, NoLinks
<1>2. LockDiscipline'
  BY DEF Inv, DeleteFBProfile, txVars, TypeOK, LockDiscipline, LinkKind, NoLinks
<1>3. PrimaryUnique'
  BY <1>0 DEF Inv, PrimaryUnique
<1>4. DecisionStillValid'
  BY DEF Inv, DeleteFBProfile, txVars, TypeOK, DecisionStillValid, LockDiscipline,
     PrimaryUnique, HasPrimary, NoLinks, LinkKind
<1>5. LinksOfLiveProfiles'
  BY DEF Inv, DeleteFBProfile, txVars, TypeOK, LinksOfLiveProfiles, LockDiscipline, NoLinks
<1>6. SecondaryExplained'
  BY DEF Inv, DeleteFBProfile, txVars, TypeOK, SecondaryExplained, LockDiscipline,
     DecisionStillValid, HasPrimary, NoLinks, LinkKind
<1>7. OrphanedOnlyByDelete'
  BY <1>0 DEF Inv, DeleteFBProfile, OrphanedOnlyByDelete, HasPrimary
<1> QED  BY <1>1, <1>2, <1>3, <1>4, <1>5, <1>6, <1>7 DEF Inv

LEMMA StutterInv == Inv /\ UNCHANGED vars => Inv'
BY DEF Inv, vars, txVars, TypeOK, LockDiscipline, PrimaryUnique,
       DecisionStillValid, LinksOfLiveProfiles, SecondaryExplained,
       OrphanedOnlyByDelete, HasPrimary

LEMMA NextInv == Inv /\ [Next]_vars => Inv'
<1> SUFFICES ASSUME Inv, Next PROVE Inv'
  BY StutterInv
<1>1. ASSUME NEW p \in Profile, UpsertFBProfile(p) \/ DeleteFBProfile(p)
      PROVE  Inv'
  BY <1>1, UpsertFBProfileInv, DeleteFBProfileInv
<1>2. ASSUME NEW t \in Tx, NEW p \in Profile, BeginImport(t, p)
      PROVE  Inv'
  BY <1>2, BeginImportInv
<1>3. ASSUME NEW t \in Tx, ImportStep(t)
      PROVE  Inv'
  BY <1>3, UpsertAccountInv, ReadPrimaryInv, UpsertLinkInv, CommitInv DEF ImportStep
<1>4. ASSUME NEW t \in Tx, StatementFails(t) \/ LoseConnection(t)
      PROVE  Inv'
  BY <1>4, RollbackInv DEF StatementFails, LoseConnection
<1> QED  BY <1>1, <1>2, <1>3, <1>4 DEF Next

LEMMA Invariance == Spec => []Inv
BY InitInv, NextInv, PTL DEF Spec

\* Type correctness.
THEOREM TypeCorrect == Spec => []TypeOK
<1>1. Inv => TypeOK
  BY DEF Inv
<1> QED  BY <1>1, Invariance, PTL

\* At most one profile is primary for an account, however imports and
\* deletions interleave.
THEOREM AtMostOnePrimary == Spec => []PrimaryUnique
<1>1. Inv => PrimaryUnique
  BY DEF Inv
<1> QED  BY <1>1, Invariance, PTL

\* The answer of the EXISTS query is still right when it is acted on, so the
\* unique index on primary links never fails an import.
THEOREM DecisionsStayValid == Spec => []DecisionStillValid
<1>1. Inv => DecisionStillValid
  BY DEF Inv
<1> QED  BY <1>1, Invariance, PTL

\* DELETE waits for the key-share locks of open imports, and an import that begins
\* later finds no profile: a deleted profile never gets a link back.
THEOREM LinksNeedProfiles == Spec => []LinksOfLiveProfiles
<1>1. Inv => LinksOfLiveProfiles
  BY DEF Inv
<1> QED  BY <1>1, Invariance, PTL

\* Only the deletion of its primary profile leaves a linked account without one.
THEOREM OnlyDeleteOrphans == Spec => []OrphanedOnlyByDelete
<1>1. Inv => OrphanedOnlyByDelete
  BY DEF Inv
<1> QED  BY <1>1, Invariance, PTL

\* A step of the pool takes a primary link away only by deleting its profile.
LEMMA StepKeepsPrimaries ==
  ASSUME Inv, [Next]_vars, NEW p \in Profile, NEW a \in Account,
         link[p][a] = "primary"
  PROVE  link'[p][a] = "primary" \/ status'[p] = "deleted"
<1>1. ASSUME NEW t \in Tx, Commit(t)
      PROVE  link'[p][a] = "primary"
  BY <1>1 DEF Inv, TypeOK, LockDiscipline, Commit
<1>2. ASSUME NEW q \in Profile, DeleteFBProfile(q)
      PROVE  link'[p][a] = "primary" \/ status'[p] = "deleted"
  BY <1>2 DEF Inv, TypeOK, DeleteFBProfile
<1>3. CASE link' = link
  BY <1>3
<1> QED
  BY <1>1, <1>2, <1>3
     DEF Next, vars, UpsertFBProfile, BeginImport, ImportStep, UpsertAccount,
         ReadPrimary, UpsertLink, StatementFails, LoseConnection

\* An import never takes an account over from the profile that is its primary.
THEOREM PrimariesAreKept == Spec => NeverStolen
<1>1. Inv /\ [Next]_vars =>
        [\A p \in Profile, a \in Account :
           link[p][a] = "primary" =>
             link'[p][a] = "primary" \/ status'[p] = "deleted"]_vars
  BY StepKeepsPrimaries
<1> QED  BY <1>1, Invariance, PTL DEF Spec, NeverStolen

-----------------------------------------------------------------------------
(* The refinement.  Owner and Gone are determined by the committed rows. *)

LEMMA OwnerIsPrimary ==
  ASSUME Inv, NEW a \in Account
  PROVE  /\ \A p \in Profile : Owner[a] = p <=> link[p][a] = "primary"
         /\ Owner[a] = NoProfile <=> ~HasPrimary(a)
<1>1. CASE HasPrimary(a)
  <2>1. PICK p \in Profile : link[p][a] = "primary"
    BY <1>1 DEF HasPrimary
  <2>2. \A q \in Profile : link[q][a] = "primary" <=> q = p
    BY <2>1 DEF Inv, PrimaryUnique
  <2>3. Owner[a] = CHOOSE q \in Profile : link[q][a] = "primary"
    BY <1>1 DEF Owner
  <2>4. Owner[a] = p
    BY <2>1, <2>2, <2>3
  <2> QED  BY <1>1, <2>2, <2>4, PoolAssumption
<1>2. CASE ~HasPrimary(a)
  BY <1>2, PoolAssumption DEF Owner, HasPrimary
<1> QED  BY <1>1, <1>2

\* Steps that change neither links nor deletions are invisible to the registry.
LEMMA SilentStep ==
  ASSUME link' = link,
         \A p \in Profile : status'[p] = "deleted" <=> status[p] = "deleted"
  PROVE  UNCHANGED <<Owner, Gone>>
BY DEF Owner, Gone, HasPrimary

LEMMA CommitRefines ==
  ASSUME Inv, Inv', NEW t \in Tx, Commit(t)
  PROVE  [Registry!Next]_(Registry!vars)
<1> DEFINE S == {a \in Account : writes[t][a] = "primary"}
<1>1. who[t] \in Profile /\ Gone' = Gone
  BY DEF Inv, TypeOK, Commit, EndTx, Gone
<1>2. \A p \in Profile, a \in Account :
        link'[p][a] = IF p = who[t] /\ writes[t][a] # "none"
                        THEN writes[t][a] ELSE link[p][a]
  <2> DEFINE F == [a \in Account |-> IF writes[t][a] = "none"
                                      THEN link[who[t]][a] ELSE writes[t][a]]
  <2>1. link' = [link EXCEPT ![who[t]] = F]
    BY DEF Commit
  <2>2. link'[who[t]] = F /\ \A p \in Profile : p # who[t] => link'[p] = link[p]
    <3>1. link \in [Profile -> [Account -> LinkKind]]
      BY DEF Inv, TypeOK
    <3> HIDE DEF F
    <3> QED  BY <1>1, <2>1, <3>1
  <2> QED  BY <1>1, <2>2
<1>3. \A a \in S : Owner[a] = NoProfile /\ Owner'[a] = who[t]
  <2> TAKE a \in S
  <2>1. Owner[a] = NoProfile
    BY OwnerIsPrimary DEF Inv, DecisionStillValid
  <2>2. link'[who[t]][a] = "primary"
    BY <1>1, <1>2
  <2>3. Owner'[a] = who[t]
    <3>1. \A q \in Profile : link'[q][a] = "primary" <=> q = who[t]
      BY <1>1, <2>2 DEF Inv, PrimaryUnique
    <3>2. Owner'[a] = CHOOSE q \in Profile : link'[q][a] = "primary"
      BY <1>1, <2>2 DEF Owner, HasPrimary
    <3> QED  BY <1>1, <3>1, <3>2
  <2> QED  BY <2>1, <2>3
<1>4. \A a \in Account \ S : Owner'[a] = Owner[a]
  <2> TAKE a \in Account \ S
  <2>1. \A p \in Profile : link'[p][a] = "primary" <=> link[p][a] = "primary"
    BY <1>1, <1>2 DEF Inv, LockDiscipline
  <2> QED  BY <2>1 DEF Owner, HasPrimary
<1>5. CASE S = {}
  <2>1. Owner' = Owner
    BY <1>4, <1>5 DEF Owner
  <2> QED  BY <1>1, <2>1 DEF Registry!vars
<1>6. CASE S # {}
  <2>1. who[t] \notin Gone
    BY <1>1, <1>6 DEF Inv, LockDiscipline, Gone
  <2>2. Owner' = [a \in Account |-> IF a \in S THEN who[t] ELSE Owner[a]]
    <3>1. \A a \in Account : Owner'[a] = IF a \in S THEN who[t] ELSE Owner[a]
      BY <1>3, <1>4
    <3>2. Owner' = [a \in Account |-> Owner'[a]]
      BY DEF Owner
    <3> HIDE DEF S
    <3> QED  BY <3>1, <3>2
  <2>3. Registry!Claim(who[t], S)
    BY <1>1, <1>3, <2>1, <2>2 DEF Registry!Claim
  <2> QED  BY <1>1, <2>3 DEF Registry!Next
<1> QED  BY <1>5, <1>6

LEMMA DeleteRefines ==
  ASSUME Inv, Inv', NEW p \in Profile, DeleteFBProfile(p)
  PROVE  Registry!Next
<1>1. Gone' = Gone \cup {p}
  BY DEF Inv, TypeOK, DeleteFBProfile, Gone
<1>2. \A q \in Profile, a \in Account :
        link'[q][a] = IF q = p THEN "none" ELSE link[q][a]
  BY DEF Inv, TypeOK, DeleteFBProfile, NoLinks
<1>3. \A a \in Account :
        Owner'[a] = IF Owner[a] = p THEN NoProfile ELSE Owner[a]
  <2> TAKE a \in Account
  <2>1. CASE link[p][a] = "primary"
    <3>1. Owner[a] = p /\ ~HasPrimary(a)'
      BY <1>2, <2>1, OwnerIsPrimary DEF Inv, PrimaryUnique, HasPrimary
    <3> QED  BY <3>1 DEF Owner
  <2>2. CASE link[p][a] # "primary"
    <3>1. \A q \in Profile : link'[q][a] = "primary" <=> link[q][a] = "primary"
      BY <1>2, <2>2
    <3>2. Owner[a] # p /\ Owner'[a] = Owner[a]
      BY <2>2, <3>1, OwnerIsPrimary DEF Owner, HasPrimary
    <3> QED  BY <3>2
  <2> QED  BY <2>1, <2>2
<1>4. Owner' = [a \in Account |-> IF Owner[a] = p THEN NoProfile ELSE Owner[a]]
  <2>1. Owner' = [a \in Account |-> Owner'[a]]
    BY DEF Owner
  <2> QED  BY <1>3, <2>1
<1>5. Registry!Release(p)
  BY <1>1, <1>4 DEF Registry!Release
<1> QED  BY <1>5 DEF Registry!Next

LEMMA StepRefines ==
  ASSUME Inv, Inv', [Next]_vars
  PROVE  [Registry!Next]_(Registry!vars)
<1>1. ASSUME NEW t \in Tx, Commit(t)
      PROVE  [Registry!Next]_(Registry!vars)
  BY <1>1, CommitRefines
<1>2. ASSUME NEW p \in Profile, DeleteFBProfile(p)
      PROVE  [Registry!Next]_(Registry!vars)
  BY <1>2, DeleteRefines
<1>3. ASSUME NEW p \in Profile, UpsertFBProfile(p)
      PROVE  UNCHANGED <<Owner, Gone>>
  BY <1>3, SilentStep DEF Inv, TypeOK, UpsertFBProfile
<1>4. CASE UNCHANGED <<link, status>>
  BY <1>4, SilentStep DEF Registry!vars
<1>5. ASSUME NEW t \in Tx,
             \/ \E p \in Profile : BeginImport(t, p)
             \/ UpsertAccount(t) \/ ReadPrimary(t) \/ UpsertLink(t)
             \/ StatementFails(t) \/ LoseConnection(t)
      PROVE  UNCHANGED <<link, status>>
  BY <1>5 DEF BeginImport, UpsertAccount, ReadPrimary, UpsertLink,
              StatementFails, LoseConnection, EndTx
<1> QED
  BY <1>1, <1>2, <1>3, <1>4, <1>5 DEF Next, ImportStep, vars, Registry!vars

\* The pool of concurrent transactions implements the registry in which one
\* step gives free accounts to a profile and one step releases all it owns.
THEOREM PoolRefinesRegistry == Spec => RefinesRegistry
<1>1. Init => Registry!Init
  BY DEF Init, Registry!Init, Owner, Gone, HasPrimary, NoLinks
<1>2. Inv /\ Inv' /\ [Next]_vars => [Registry!Next]_(Registry!vars)
  BY StepRefines
<1> QED  BY <1>1, <1>2, Invariance, PTL DEF Spec, RefinesRegistry, Registry!Spec
=============================================================================
