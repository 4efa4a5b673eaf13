---------------------------- MODULE SessionChain ----------------------------
(***************************************************************************)
(* What the refresh tokens of a login session promise: a chain of tokens    *)
(* of which one at most can be redeemed, each of them once.  Redeeming the  *)
(* last token of the chain yields the next one, or the session is over.     *)
(***************************************************************************)
CONSTANT Token

VARIABLES usable,     \* the redeemable token of each session, named for its first token
          renewing,   \* sessions whose token was redeemed and not yet replaced
          spent       \* tokens that were redeemed

vars == <<usable, renewing, spent>>

Fresh(t) == t \notin spent /\ \A s \in Token : t \notin usable[s]

Init ==
  /\ usable = [s \in Token |-> {}]
  /\ renewing = {} /\ spent = {}

Open(s) ==
  /\ Fresh(s) /\ usable[s] = {}
  /\ usable' = [usable EXCEPT ![s] = {s}]
  /\ UNCHANGED <<renewing, spent>>

Redeem(s, t) ==
  /\ usable[s] = {t}
  /\ usable' = [usable EXCEPT ![s] = {}]
  /\ renewing' = renewing \cup {s} /\ spent' = spent \cup {t}

Renew(s, t) ==
  /\ s \in renewing /\ Fresh(t)
  /\ usable' = [usable EXCEPT ![s] = {t}]
  /\ renewing' = renewing \ {s}
  /\ UNCHANGED spent

End(s) ==
  /\ s \in renewing
  /\ renewing' = renewing \ {s}
  /\ UNCHANGED <<usable, spent>>

Next == \E s, t \in Token : Open(s) \/ Redeem(s, t) \/ Renew(s, t) \/ End(s)

Spec == Init /\ [][Next]_vars
=============================================================================
