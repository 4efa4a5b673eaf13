----------------------------- MODULE Ownership -----------------------------
(***************************************************************************)
(* Who owned an ad account and when: the buyer_account_history rows of one  *)
(* account under concurrent assign and unassign requests.  A request takes  *)
(* its time from its server's clock before the transaction starts; the      *)
(* transaction closes the open row and, for an assignment, inserts the next *)
(* one, statement by statement under READ COMMITTED.                        *)
(***************************************************************************)
EXTENDS Integers, FiniteSets

CONSTANTS Buyer,        \* buyers ids
          Request,      \* requests that may be in progress at once
          NoBuyer,      \* an unassign request has no buyer
          MaxClock,     \* bound: the clock
          MaxRows       \* bound: rows inserted

ASSUME OwnershipAssumption ==
  NoBuyer \notin Buyer /\ MaxClock \in Nat \ {0} /\ MaxRows \in Nat

VARIABLES clock,        \* the clock
          rows,         \* committed rows
          nextId,       \* BIGSERIAL
          pc, buyer, at,   \* each request: step, buyer, its time
          target,       \* the open row its UPDATE found
          closes,       \* the row it has closed, not committed
          inserts       \* the row it has inserted, not committed

reqVars == <<pc, buyer, at, target, closes, inserts>>
historyVars == <<clock, rows, nextId, reqVars>>

Open == 0               \* unassigned_at IS NULL
NoId == 0

HistoryInit ==
  /\ clock = 1 /\ rows = {} /\ nextId = 1
  /\ pc = [r \in Request |-> "idle"]
  /\ buyer = [r \in Request |-> NoBuyer]
  /\ at = [r \in Request |-> 1]
  /\ target = [r \in Request |-> NoId]
  /\ closes = [r \in Request |-> NoId]
  /\ inserts = [r \in Request |-> NoId]

OpenRows == {h \in rows : h.to = Open}
RowOf(id) == CHOOSE h \in rows : h.id = id

\* Time passes.
ClockTick == clock < MaxClock /\ clock' = clock + 1 /\ UNCHANGED <<rows, nextId, reqVars>>

\* assignBuyer (b a buyer) or unassignBuyer (b = NoBuyer) reads time.Now().
BeginRequest(r, b) ==
  /\ pc[r] = "idle"
  /\ pc' = [pc EXCEPT ![r] = "find"]
  /\ buyer' = [buyer EXCEPT ![r] = b]
  /\ at' = [at EXCEPT ![r] = clock]
  /\ UNCHANGED <<clock, rows, nextId, target, closes, inserts>>

\* closeCurrentAssignment: the UPDATE looks for the open row ...
FindOpen(r) ==
  /\ pc[r] = "find"
  /\ target' = [target EXCEPT ![r] =
                  IF OpenRows = {} THEN NoId ELSE (CHOOSE h \in OpenRows : TRUE).id]
  /\ pc' = [pc EXCEPT ![r] = "close"]
  /\ UNCHANGED <<clock, rows, nextId, buyer, at, closes, inserts>>

Locked(id) == \E q \in Request : closes[q] = id

\* Mutant of MayClose: no CHECK (unassigned_at > assigned_at).
MayCloseAnyTime(r) == TRUE

\* CHECK (unassigned_at > assigned_at).
MayClose(r) == at[r] > RowOf(target[r]).from

\* ... waits for a transaction that has it, and leaves it if it was closed
\* meanwhile.
CloseOpen(r) ==
  /\ pc[r] = "close"
  /\ \/ target[r] = NoId /\ UNCHANGED closes
     \/ /\ target[r] # NoId /\ ~Locked(target[r])
        /\ \/ RowOf(target[r]).to # Open /\ UNCHANGED closes
           \/ /\ RowOf(target[r]).to = Open /\ MayClose(r)
              /\ closes' = [closes EXCEPT ![r] = target[r]]
  /\ pc' = [pc EXCEPT ![r] = IF buyer[r] = NoBuyer THEN "commit" ELSE "insert"]
  /\ UNCHANGED <<clock, rows, nextId, buyer, at, target, inserts>>

\* Mutant of IndexAllows: no unique index on the open row.
IndexAllowsAny(r) == TRUE

\* buyer_account_history_one_current: an insert waits for every transaction that
\* may leave an open row, and fails if there is one.
IndexAllows(r) ==
  /\ \A q \in Request \ {r} : inserts[q] = NoId /\ closes[q] = NoId
  /\ \A h \in OpenRows : h.id = closes[r]

InsertRow(r) ==
  /\ pc[r] = "insert" /\ nextId <= MaxRows
  /\ IndexAllows(r)
  /\ inserts' = [inserts EXCEPT ![r] = nextId]
  /\ nextId' = nextId + 1
  /\ pc' = [pc EXCEPT ![r] = "commit"]
  /\ UNCHANGED <<clock, rows, buyer, at, target, closes>>

\* The locals go back to what a request starts with.
EndTx(r) ==
  /\ pc' = [pc EXCEPT ![r] = "idle"]
  /\ buyer' = [buyer EXCEPT ![r] = NoBuyer]
  /\ at' = [at EXCEPT ![r] = 1]
  /\ target' = [target EXCEPT ![r] = NoId]
  /\ closes' = [closes EXCEPT ![r] = NoId]
  /\ inserts' = [inserts EXCEPT ![r] = NoId]

\* How a closed row is rewritten.
Closed(h, r) == [h EXCEPT !.to = at[r], !.by = IF buyer[r] = NoBuyer THEN "unassign" ELSE "assign"]

\* Mutant of Rewritten: the UPDATE without unassigned_at IS NULL.
RewrittenAll(h, r) == IF closes[r] # NoId THEN Closed(h, r) ELSE h

Rewritten(h, r) == IF h.id = closes[r] THEN Closed(h, r) ELSE h

Inserted(r) ==
  IF inserts[r] = NoId THEN {}
  ELSE {[id |-> inserts[r], buyer |-> buyer[r], from |-> at[r], to |-> Open, by |-> "nobody"]}

Commit(r) ==
  /\ pc[r] = "commit"
  /\ rows' = {Rewritten(h, r) : h \in rows} \cup Inserted(r)
  /\ EndTx(r)
  /\ UNCHANGED <<clock, nextId>>

\* A constraint or the connection fails a statement: nothing is changed.
Rollback(r) ==
  /\ pc[r] # "idle"
  /\ EndTx(r)
  /\ UNCHANGED <<clock, rows, nextId>>

HistoryNext ==
  \/ ClockTick
  \/ \E r \in Request :
       \/ \E b \in Buyer \cup {NoBuyer} : BeginRequest(r, b)
       \/ FindOpen(r) \/ CloseOpen(r) \/ InsertRow(r) \/ Commit(r) \/ Rollback(r)

HistorySpec == HistoryInit /\ [][HistoryNext]_historyVars

-----------------------------------------------------------------------------
Ids == 1 .. MaxRows
Moments == 1 .. MaxClock
HistoryRow == [id : Ids, buyer : Buyer, from : Moments, to : Moments \cup {Open},
               by : {"nobody", "assign", "unassign"}]

HistoryTypeOK ==
  /\ clock \in Moments /\ nextId \in 1 .. MaxRows + 1
  /\ rows \subseteq HistoryRow
  /\ \A h \in rows : h.to # Open => h.from < h.to
  /\ pc \in [Request -> {"idle", "find", "close", "insert", "commit"}]
  /\ buyer \in [Request -> Buyer \cup {NoBuyer}]
  /\ at \in [Request -> Moments]
  /\ target \in [Request -> Ids \cup {NoId}]
  /\ closes \in [Request -> Ids \cup {NoId}]
  /\ inserts \in [Request -> Ids \cup {NoId}]

\* The rows that let a buyer read a snapshot captured at x.
Covering(x) == {h \in rows : h.from <= x /\ (h.to = Open \/ x < h.to)}

\* Reassigning alone, however the requests race, never shows a snapshot to two
\* owners and never leaves two open rows: a moment has two owners only if an
\* unassign later than that moment cleared the way for a request from before it.
ReassignKeepsOneOwner ==
  \A x \in Moments :
    Cardinality(Covering(x)) > 1 => \E h \in rows : h.by = "unassign" /\ x < h.to

\* An interval that has ended is final: no later request changes what a former
\* owner may read.
PastIsFinal == [][\A h \in rows : h.to # Open => h \in rows']_historyVars

\* "Who owned the ad account and when": every moment has one owner at most.
OneOwner == \A x \in Moments : Cardinality(Covering(x)) <= 1
=============================================================================
