----------------------------- MODULE MCSessions -----------------------------
(* One admin with his sessions, and one address he may create a login for.  *)
(* The units of time keep the order of the durations: leeway and timeout    *)
(* below the life of an OAuth state, that below the life of an access       *)
(* token, that below the life of a refresh token.                           *)
EXTENDS Sessions, TLC

CONSTANTS admin, other

Users == {admin, other}
Symmetric == Permutations(Request)

VARIABLE part   \* "chain": what requests do to tokens; "rights": what time does

InChain ==
  /\ ~Tick /\ state' = state
  /\ \A r \in Request : req'[r].pc # "create"

InRights ==
  /\ refresh'[3] = NoRow
  /\ Cardinality({r \in Request : req'[r] # Idle}) <= 1

\* Only the admin logs in and is moved about; tokens are taken in order.  The
\* chain needs requests side by side and no clock, the rights one request at a
\* time and a clock.
OnePart ==
  /\ Next /\ UNCHANGED part
  /\ access'[other] = access[other] /\ changed'[other] = changed[other]
  /\ \A t \in Token \ {1} : refresh'[t] # NoRow => refresh[t - 1] # NoRow
  /\ \/ part = "chain" /\ InChain
     \/ part = "rights" /\ InRights

PartsInit == Init /\ part \in {"chain", "rights"}

InParts == PartsInit /\ [][OnePart]_<<vars, part>>
=============================================================================
