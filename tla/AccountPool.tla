----------------------------- MODULE AccountPool -----------------------------
(***************************************************************************)
(* The tracking pool: which profile is linked to which ad account and which *)
(* link is primary for sync.  Import transactions                          *)
(* (UpsertAdAccountsForProfile, run by OAuth callbacks and by the daily     *)
(* resync of the scheduler) interleave statement by statement under READ    *)
(* COMMITTED with each other and with profile deletions.                    *)
(*                                                                         *)
(* An open transaction holds the row lock of every ad_accounts row it has   *)
(* upserted, and its link rows become visible to others when it commits.    *)
(***************************************************************************)
EXTENDS FiniteSets

CONSTANTS Profile,     \* fb_profiles ids, never reused
          Account,     \* ad_accounts ids
          Tx,          \* database sessions that run imports
          NoTx, NoProfile

ASSUME PoolAssumption == NoTx \notin Tx /\ NoProfile \notin Profile

VARIABLES status,      \* each profile: "new", "live" or "deleted"
          link,        \* committed fb_profile_ad_accounts rows
          lock,        \* the transaction that holds each ad_accounts row
          pc, who, todo, acct, hasPrimary,   \* locals of each import
          writes,      \* link rows each open import has inserted
          touched,     \* accounts whose link row each open import has upserted
          orphaned     \* history: accounts that lost their primary

txVars == <<pc, who, todo, acct, hasPrimary, writes, touched>>
vars == <<status, link, lock, txVars, orphaned>>

LinkKind == {"none", "primary", "secondary"}
NoLinks == [a \in Account |-> "none"]

Init ==
  /\ status = [p \in Profile |-> "new"]
  /\ link = [p \in Profile |-> NoLinks]
  /\ lock = [a \in Account |-> NoTx]
  /\ pc = [t \in Tx |-> "idle"]
  /\ who \in [Tx -> Profile]
  /\ todo = [t \in Tx |-> {}]
  /\ acct \in [Tx -> Account]
  /\ hasPrimary = [t \in Tx |-> FALSE]
  /\ writes = [t \in Tx |-> NoLinks]
  /\ touched = [t \in Tx |-> {}]
  /\ orphaned = {}

HasPrimary(a) == \E p \in Profile : link[p][a] = "primary"

\* The OAuth callback stores a profile it has not seen.
UpsertFBProfile(p) ==
  /\ status[p] = "new"
  /\ status' = [status EXCEPT ![p] = "live"]
  /\ UNCHANGED <<link, lock, txVars, orphaned>>

\* An import starts once AdAccounts has read all pages of Meta's list, which
\* come in the order Meta chose.  The profile was read earlier and may have been
\* deleted since.
BeginImport(t, p) ==
  /\ pc[t] = "idle" /\ status[p] # "new"
  /\ pc' = [pc EXCEPT ![t] = "upsert"]
  /\ who' = [who EXCEPT ![t] = p]
  /\ \E S \in SUBSET Account : \E a \in S :
       /\ acct' = [acct EXCEPT ![t] = a]
       /\ todo' = [todo EXCEPT ![t] = S \ {a}]
  /\ UNCHANGED <<status, link, lock, hasPrimary, writes, touched, orphaned>>

\* Mutant of UpsertAccount: ON CONFLICT DO NOTHING, which locks no row.
UpsertAccountUnlocked(t) ==
  /\ pc[t] = "upsert"
  /\ pc' = [pc EXCEPT ![t] = "exists"]
  /\ UNCHANGED <<status, link, lock, who, todo, acct, hasPrimary, writes, touched, orphaned>>

\* INSERT INTO ad_accounts ... ON CONFLICT DO UPDATE: waits for the row.
UpsertAccount(t) ==
  /\ pc[t] = "upsert" /\ lock[acct[t]] = NoTx
  /\ lock' = [lock EXCEPT ![acct[t]] = t]
  /\ pc' = [pc EXCEPT ![t] = "exists"]
  /\ UNCHANGED <<status, link, who, todo, acct, hasPrimary, writes, touched, orphaned>>

\* SELECT EXISTS (... is_primary_for_sync): sees what is committed by now.
ReadPrimary(t) ==
  /\ pc[t] = "exists"
  /\ hasPrimary' = [hasPrimary EXCEPT ![t] = HasPrimary(acct[t])]
  /\ pc' = [pc EXCEPT ![t] = "link"]
  /\ UNCHANGED <<status, link, lock, who, todo, acct, writes, touched, orphaned>>

\* Mutants of LinkWritten: a kind the readers do not know, the conflict clause
\* rewrites the kind of an existing link, every new link secondary, every new
\* link primary.
LinkWrittenUnknown(t) == IF hasPrimary[t] THEN "shared" ELSE "primary"
LinkRewritten(t) == IF hasPrimary[t] THEN "secondary" ELSE "primary"
LinkWrittenSecondary(t) ==
  IF link[who[t]][acct[t]] # "none" THEN "none" ELSE "secondary"
LinkWrittenPrimary(t) ==
  IF link[who[t]][acct[t]] # "none" THEN "none" ELSE "primary"

\* The row the link statement inserts; a link that exists keeps its kind.
LinkWritten(t) ==
  IF link[who[t]][acct[t]] # "none" THEN "none"
  ELSE IF hasPrimary[t] THEN "secondary" ELSE "primary"

\* INSERT INTO fb_profile_ad_accounts ... ON CONFLICT DO UPDATE, then on to the
\* next account of the list.
UpsertLink(t) ==
  /\ pc[t] = "link" /\ status[who[t]] = "live"
  /\ writes' = [writes EXCEPT ![t][acct[t]] = LinkWritten(t)]
  /\ touched' = [touched EXCEPT ![t] = @ \cup {acct[t]}]
  /\ \/ /\ todo[t] = {}
        /\ pc' = [pc EXCEPT ![t] = "commit"]
        /\ UNCHANGED <<todo, acct>>
     \/ \E a \in todo[t] :
          /\ pc' = [pc EXCEPT ![t] = "upsert"]
          /\ acct' = [acct EXCEPT ![t] = a]
          /\ todo' = [todo EXCEPT ![t] = @ \ {a}]
  /\ UNCHANGED <<status, link, lock, who, hasPrimary, orphaned>>

\* Mutant of EndTx: the transaction is left open, its row locks held.
EndTxLeavesLocks(t) ==
  /\ pc' = [pc EXCEPT ![t] = "idle"]
  /\ todo' = [todo EXCEPT ![t] = {}]
  /\ hasPrimary' = [hasPrimary EXCEPT ![t] = FALSE]
  /\ writes' = [writes EXCEPT ![t] = NoLinks]
  /\ touched' = [touched EXCEPT ![t] = {}]
  /\ UNCHANGED <<status, lock, who, acct>>

\* Commit and rollback release what the transaction held.
EndTx(t) ==
  /\ lock' = [a \in Account |-> IF lock[a] = t THEN NoTx ELSE lock[a]]
  /\ pc' = [pc EXCEPT ![t] = "idle"]
  /\ todo' = [todo EXCEPT ![t] = {}]
  /\ hasPrimary' = [hasPrimary EXCEPT ![t] = FALSE]
  /\ writes' = [writes EXCEPT ![t] = NoLinks]
  /\ touched' = [touched EXCEPT ![t] = {}]
  /\ UNCHANGED <<status, who, acct>>

Commit(t) ==
  /\ pc[t] = "commit"
  /\ link' = [link EXCEPT ![who[t]] =
                [a \in Account |-> IF writes[t][a] = "none" THEN @[a] ELSE writes[t][a]]]
  /\ orphaned' = orphaned \ {a \in Account : writes[t][a] = "primary"}
  /\ EndTx(t)

\* A closed cycle of imports that wait for each other's rows.
Deadlocked(t) ==
  \E D \in SUBSET Tx :
    /\ t \in D
    /\ \A u \in D : pc[u] = "upsert"
    /\ {lock[acct[u]] : u \in D} = D

\* The database fails a statement: a deadlock victim, or the foreign key of a
\* profile that was deleted meanwhile.  The import returns and rolls back.
StatementFails(t) ==
  /\ \/ Deadlocked(t)
     \/ pc[t] = "link" /\ status[who[t]] = "deleted"
  /\ EndTx(t)
  /\ UNCHANGED <<link, orphaned>>

\* The connection or the request context ends, at any statement.
LoseConnection(t) ==
  /\ pc[t] # "idle"
  /\ EndTx(t)
  /\ UNCHANGED <<link, orphaned>>

\* Mutant of DeleteFBProfile: no foreign key makes the delete wait.
DeleteFBProfileAtOnce(p) ==
  /\ status[p] = "live"
  /\ status' = [status EXCEPT ![p] = "deleted"]
  /\ link' = [link EXCEPT ![p] = NoLinks]
  /\ orphaned' = orphaned \cup {a \in Account : link[p][a] = "primary"}
  /\ UNCHANGED <<lock, txVars>>

\* DELETE FROM fb_profiles with its cascade; waits for an open import that has
\* written links of the profile.
DeleteFBProfile(p) ==
  /\ status[p] = "live"
  /\ \A t \in Tx : who[t] = p => touched[t] = {}
  /\ status' = [status EXCEPT ![p] = "deleted"]
  /\ link' = [link EXCEPT ![p] = NoLinks]
  /\ orphaned' = orphaned \cup {a \in Account : link[p][a] = "primary"}
  /\ UNCHANGED <<lock, txVars>>

ImportStep(t) == UpsertAccount(t) \/ ReadPrimary(t) \/ UpsertLink(t) \/ Commit(t)

Next ==
  \/ \E p \in Profile : UpsertFBProfile(p) \/ DeleteFBProfile(p)
  \/ \E t \in Tx :
       \/ \E p \in Profile : BeginImport(t, p)
       \/ ImportStep(t)
       \/ StatementFails(t)
       \/ LoseConnection(t)

\* Sessions keep running, row locks are granted in turn, and the database
\* notices deadlocks and broken foreign keys.
Fairness ==
  \A t \in Tx :
    /\ SF_vars(UpsertAccount(t))
    /\ WF_vars(ReadPrimary(t) \/ UpsertLink(t) \/ Commit(t))
    /\ WF_vars(StatementFails(t))

Spec == Init /\ [][Next]_vars /\ Fairness

-----------------------------------------------------------------------------
TypeOK ==
  /\ status \in [Profile -> {"new", "live", "deleted"}]
  /\ link \in [Profile -> [Account -> LinkKind]]
  /\ lock \in [Account -> Tx \cup {NoTx}]
  /\ pc \in [Tx -> {"idle", "upsert", "exists", "link", "commit"}]
  /\ who \in [Tx -> Profile]
  /\ todo \in [Tx -> SUBSET Account]
  /\ acct \in [Tx -> Account]
  /\ hasPrimary \in [Tx -> BOOLEAN]
  /\ writes \in [Tx -> [Account -> LinkKind]]
  /\ touched \in [Tx -> SUBSET Account]
  /\ orphaned \subseteq Account

\* No account is primary for two profiles: it is fetched and counted once.
PrimaryUnique ==
  \A p, q \in Profile, a \in Account :
    link[p][a] = "primary" /\ link[q][a] = "primary" => p = q

\* What the EXISTS query said stays true until the link is written and the
\* transaction commits, although it is acted on a statement later: the partial
\* unique index never rejects an import.
DecisionStillValid ==
  \A t \in Tx :
    /\ pc[t] = "link" /\ ~hasPrimary[t] => ~HasPrimary(acct[t])
    /\ \A a \in Account : writes[t][a] = "primary" => ~HasPrimary(a)

\* An import never brings back links of a profile that is being deleted.
LinksOfLiveProfiles ==
  \A p \in Profile, a \in Account : link[p][a] # "none" => status[p] = "live"

\* An account that is linked but primary for nobody once lost its primary to a
\* deletion: imports alone never leave an account without one.
OrphanedOnlyByDelete ==
  \A a \in Account :
    (\E p \in Profile : link[p][a] # "none") => HasPrimary(a) \/ a \in orphaned

\* A primary link is kept until its profile is deleted; no import of another
\* profile takes the account over.
NeverStolen ==
  [][\A p \in Profile, a \in Account :
       link[p][a] = "primary" => link'[p][a] = "primary" \/ status'[p] = "deleted"]_vars

\* Every import ends, whatever rows the others hold.
ImportsEnd == \A t \in Tx : pc[t] # "idle" ~> pc[t] = "idle"

\* "each account is fetched by exactly one profile": once an import commits,
\* every account in it is primary for some profile.
ImportLeavesPrimary ==
  [][\A t \in Tx : Commit(t) => \A a \in touched[t] : HasPrimary(a)']_vars

-----------------------------------------------------------------------------
Owner == [a \in Account |->
            IF HasPrimary(a) THEN CHOOSE p \in Profile : link[p][a] = "primary"
                             ELSE NoProfile]
Gone == {p \in Profile : status[p] = "deleted"}

(* The strengthening under which the invariants above are inductive. *)

\* What an open import has read and written is guarded by the rows it holds.
LockDiscipline ==
  \A t \in Tx :
    /\ pc[t] \in {"exists", "link"} => lock[acct[t]] = t
    /\ pc[t] = "idle" => touched[t] = {}
    /\ touched[t] # {} => status[who[t]] = "live"
    /\ \A a \in Account :
         writes[t][a] # "none" =>
           lock[a] = t /\ a \in touched[t] /\ link[who[t]][a] = "none"

\* An import that stays secondary had a primary to defer to, or the account is
\* known to have lost it.
SecondaryExplained ==
  \A t \in Tx :
    /\ pc[t] = "link" /\ hasPrimary[t] => HasPrimary(acct[t]) \/ acct[t] \in orphaned
    /\ \A a \in Account :
         writes[t][a] = "secondary" => HasPrimary(a) \/ a \in orphaned

Inv ==
  /\ TypeOK
  /\ LockDiscipline
  /\ PrimaryUnique
  /\ DecisionStillValid
  /\ LinksOfLiveProfiles
  /\ SecondaryExplained
  /\ OrphanedOnlyByDelete

Registry == INSTANCE PrimaryRegistry WITH owner <- Owner, gone <- Gone

\* Whatever the interleaving, the pool behaves as the abstract registry.
RefinesRegistry == Registry!Spec
=============================================================================
