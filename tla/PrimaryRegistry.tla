--------------------------- MODULE PrimaryRegistry ---------------------------
(***************************************************************************)
(* What the account pool promises: a registry that gives every ad account  *)
(* to at most one profile.  A connected profile may claim free accounts,   *)
(* an owner keeps an account for as long as it exists, and a deleted       *)
(* profile gives up all it owns for good.                                  *)
(***************************************************************************)
CONSTANTS Profile, Account, NoProfile

VARIABLES owner,   \* the profile each account is fetched by
          gone     \* deleted profiles

vars == <<owner, gone>>

TypeOK ==
  /\ owner \in [Account -> Profile \cup {NoProfile}]
  /\ gone \subseteq Profile

Init ==
  /\ owner = [a \in Account |-> NoProfile]
  /\ gone = {}

Claim(p, S) ==
  /\ p \notin gone
  /\ \A a \in S : owner[a] = NoProfile
  /\ owner' = [a \in Account |-> IF a \in S THEN p ELSE owner[a]]
  /\ UNCHANGED gone

Release(p) ==
  /\ owner' = [a \in Account |-> IF owner[a] = p THEN NoProfile ELSE owner[a]]
  /\ gone' = gone \cup {p}

Next == \E p \in Profile : Release(p) \/ \E S \in SUBSET Account : Claim(p, S)

Spec == Init /\ [][Next]_vars
=============================================================================
