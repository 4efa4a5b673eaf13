------------------------------ MODULE MetaCall ------------------------------
(***************************************************************************)
(* What a sync task is promised by Client.InsightSnapshots: it asks for a   *)
(* batch of accounts and gets either one outcome for each of them, or an    *)
(* error and nothing else.                                                  *)
(***************************************************************************)
EXTENDS Integers

CONSTANT MaxAccounts    \* the largest batch a task claims

VARIABLES batch,        \* the accounts asked for
          answer        \* what the call has returned

vars == <<batch, answer>>

NoCall  == [kind |-> "none", results |-> {}, failed |-> {}]
Pending == [kind |-> "pending", results |-> {}, failed |-> {}]
Outcome(good, bad) == [kind |-> "outcome", results |-> good, failed |-> bad]
Failure == [kind |-> "error", results |-> {}, failed |-> {}]

Init == batch = {} /\ answer = NoCall

Ask ==
  /\ answer = NoCall
  /\ \E n \in 1 .. MaxAccounts : batch' = 1 .. n
  /\ answer' = Pending

\* Every account of the batch has exactly one outcome.
Settle ==
  /\ answer = Pending
  /\ \E good \in SUBSET batch : answer' = Outcome(good, batch \ good)
  /\ UNCHANGED batch

\* The whole call fails; what earlier chunks brought is gone.
Fail ==
  /\ answer = Pending
  /\ answer' = Failure
  /\ UNCHANGED batch

\* The task is through with the answer.
Return ==
  /\ answer.kind \in {"outcome", "error"}
  /\ batch' = {} /\ answer' = NoCall

\* The task ends before the call does.
Abandon ==
  /\ answer = Pending
  /\ batch' = {} /\ answer' = NoCall

Next == Ask \/ Settle \/ Fail \/ Return \/ Abandon

Spec == Init /\ [][Next]_vars
=============================================================================
