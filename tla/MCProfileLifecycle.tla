------------------------- MODULE MCProfileLifecycle -------------------------
(* Three parts of the life of one user's profile for TLC.  "replaced": the   *)
(* user is reconnected and deleted while scheduler and worker go on, within  *)
(* one day.  "alert": a token is replaced while the expiry alert is under    *)
(* way, with tokens that age but stay valid, for a profile without accounts. *)
(* "death": a token dies, days pass.                                         *)
EXTENDS ProfileLifecycle

VARIABLE part

PartNext ==
  /\ Next /\ UNCHANGED part
  /\ CASE part = "replaced" -> sameDay'
       [] part = "alert" -> dead' = {} /\ ~owns' /\ sameDay' /\ UNCHANGED alerts
       [] part = "death" -> near' = {} /\ issued' <= 1

ReplacedInit == Init /\ part = "replaced"
LivingInit == Init /\ part \in {"alert", "death"}

ReplacedSafety == ReplacedInit /\ [][PartNext]_<<vars, part>>

PartSpec == LivingInit /\ [][PartNext]_<<vars, part>> /\ Fairness
=============================================================================
