---------------------------- MODULE MCSyncQueue ----------------------------
(* The default cadence of ten minutes in units of fifty seconds.            *)
EXTENDS SyncQueue
NoFailures == {}
\* 7m30s: asynq backs off for 15 s after the first failure and for many minutes
\* after the fifth; only late retries matter to a key.
Backoffs == {9}

VARIABLE part   \* "misses": ticks fail; "failures": runs, too; "reconnect": runs and a first sync

NothingMissed == ~ (TickFails \/ SkipProfile \/ EnqueueFails)
LoopAtOnce == todo # {} => nextTick' >= nextTick
ShortRuns == running'.age < MaxDuration

\* With a first sync, runs are shorter, for both chunks of a profile have to fit
\* its share.  Failed runs meet ticks that miss a profile and loops that
\* take time, but not both at once.
OnePart ==
  /\ Next /\ UNCHANGED part
  /\ \/ part = "misses" /\ UNCHANGED failed /\ (reconnects' > 0 => ShortRuns)
     \/ part = "failures" /\ UNCHANGED reconnects /\ ShortRuns /\ LoopAtOnce
     \/ part = "reconnect" /\ NothingMissed /\ ShortRuns

PartsInit == Init /\ part \in {"misses", "failures", "reconnect"}

InParts == PartsInit /\ [][OnePart]_<<vars, part>>
=============================================================================
