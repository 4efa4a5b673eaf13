---------------------------- MODULE Analytics ----------------------------
(***************************************************************************)
(* From one ad account's spend to the figures the dashboards show.  Meta    *)
(* keeps a meter per local day of the account that starts again at its      *)
(* midnight; a sync notes capturedAt, asks Meta (tasks.go 108-110) and      *)
(* stores what the meter said under that instant.  Reports turn the stored  *)
(* cumulative values back into differences.  Spend, impressions, clicks,    *)
(* reach and the action counts all go through the same arithmetic: one      *)
(* counter stands for them.                                                 *)
(***************************************************************************)
EXTENDS Integers, FiniteSets, FiniteSetsExt

CONSTANTS
  Workers,     \* sync workers, each with at most one call to Meta under way
  Buyers,      \* buyers the account may be assigned to
  Nobody,      \* owner of an unassigned account
  Everyone,    \* the viewer of a report that is not filtered by buyer
  Idle,        \* a worker without a call
  DayLen,      \* instants in a day
  ZoneShift,   \* what the account's timezone adds to UTC, in instants
  BucketLen,   \* instants in a bucket of a time series
  MaxTime,     \* bound: the last instant
  MaxSpend     \* bound: the most spent on one day

ASSUME AnalyticsAssumption ==
  /\ DayLen \in Nat \ {0} /\ ZoneShift \in 0..(DayLen - 1) /\ BucketLen \in Nat \ {0}
  /\ MaxTime \in Nat /\ MaxSpend \in Nat
  /\ Everyone \notin Buyers

VARIABLES
  now,      \* the time, UTC
  meter,    \* meter[d]: what Meta says was spent on local day d
  call,     \* call[w]: capturedAt of w's call to Meta, or Idle
  snaps,    \* rows of account_stat_snapshots of this account
  owner     \* owner[i]: who owns the account at instant i (buyer_account_history)

vars == <<now, meter, call, snaps, owner>>

Times == 0..MaxTime
LocalDay(i) == (i + ZoneShift) \div DayLen
Days == 0..LocalDay(MaxTime)

-----------------------------------------------------------------------------
(* Storing a snapshot *)

metaDate(at) == LocalDay(at)

\* the row SaveSnapshot will store; "seen" is not stored: the day Meta's answer is about
Row(at, value) == [at |-> at, day |-> metaDate(at), value |-> value, seen |-> LocalDay(now)]

\* ON CONFLICT (ad_account_id, captured_at) DO UPDATE
SaveSnapshot(row) == snaps' = {s \in snaps : s.at # row.at} \cup {row}

-----------------------------------------------------------------------------
(* Reading: AnalyticsSnapshots, calculateDeltas, snapshotDelta *)

\* parseAnalyticsParams: whose figures a user gets who asks for those of
\* "asked"; Everyone as a user is an administrator
Viewer(user, asked) == IF user \in Buyers THEN user ELSE asked

\* buyerSnapshotCondition: inside one of the viewer's ownership intervals,
\* whose first instant counts (mutant: it does not)
VisibleAfter(viewer, s) ==
  viewer = Everyone \/ (owner[s.at] = viewer /\ s.at > 0 /\ owner[s.at - 1] = viewer)
Visible(viewer, s) == viewer = Everyone \/ owner[s.at] = viewer

\* Snapshots, and the rows a report is about
InRange(viewer, from, to) == {s \in snaps : Visible(viewer, s) /\ from <= s.at /\ s.at < to}

\* listSnapshots
Listing(user, asked, from, to) == InRange(Viewer(user, asked), from, to)

\* the latest of the viewer's snapshots before From, as a set of at most one
\* row (mutant: the query without its "previous" part)
PreviousNone(viewer, from) == {}
Previous(viewer, from) ==
  LET before == {s \in snaps : Visible(viewer, s) /\ s.at < from}
  IN  {s \in before : \A o \in before : o.at <= s.at}

AnalyticsSnapshots(viewer, from, to) ==
  IF InRange(viewer, from, to) = {} THEN {}
  ELSE Previous(viewer, from) \cup InRange(viewer, from, to)

clamp(v) == IF v < 0 THEN 0 ELSE v

\* mutants of snapshotDelta: without the clamp; every row taken as the first
\* of its day
snapshotDeltaSigned(s, prev) ==
  IF \E p \in prev : p.day = s.day
  THEN s.value - (CHOOSE p \in prev : p.day = s.day).value
  ELSE s.value
snapshotDeltaWhole(s, prev) == s.value
snapshotDelta(s, prev) ==
  IF \E p \in prev : p.day = s.day
  THEN clamp(s.value - (CHOOSE p \in prev : p.day = s.day).value)
  ELSE s.value

\* calculateDeltas walks the rows in order of captured_at: the previous of a
\* row is the last one before it among the rows read
calculateDeltas(viewer, from, to) ==
  LET rows == AnalyticsSnapshots(viewer, from, to)
      prev(s) == LET before == {o \in rows : o.at < s.at}
                 IN  {o \in before : \A p \in before : p.at <= o.at}
  IN  {[at |-> s.at, day |-> s.day, value |-> snapshotDelta(s, prev(s))] :
         s \in {r \in rows : from <= r.at /\ r.at < to}}

\* analyticsAccumulator: what the rows add up to, and how many they are
Accumulate(deltas) ==
  [value |-> MapThenSumSet(LAMBDA d : d.value, deltas), points |-> Cardinality(deltas)]

Aggregate(viewer, from, to) == Accumulate(calculateDeltas(viewer, from, to))

Compare(viewer, from, to, compareFrom, compareTo) ==
  [current |-> Aggregate(viewer, from, to),
   previous |-> Aggregate(viewer, compareFrom, compareTo)]

\* analyticsSummary
Summary(user, asked, from, to) == Aggregate(Viewer(user, asked), from, to)

\* analyticsBuyers: the administrator's table, one row for each buyer
BuyerRows(from, to) == [b \in Buyers |-> Aggregate(b, from, to)]

\* mutant of bucketStart: the nearest hour instead of the one begun
bucketStartNearest(at) == at + 1 - ((at + 1) % BucketLen)
\* the hour, or the day, of the viewer in which an instant lies
bucketStart(at) == at - (at % BucketLen)

\* the same differences, one sum for every bucket that has any
buildTimeseries(deltas) ==
  [k \in {bucketStart(d.at) : d \in deltas} |->
     Accumulate({d \in deltas : bucketStart(d.at) = k})]

Timeseries(viewer, from, to) == buildTimeseries(calculateDeltas(viewer, from, to))

\* the page of one account: figures, and the chart below them
Detail(viewer, from, to) ==
  [kpis |-> Aggregate(viewer, from, to), timeseries |-> Timeseries(viewer, from, to)]

-----------------------------------------------------------------------------
TypeOK ==
  /\ now \in Times
  /\ meter \in [Days -> 0..MaxSpend]
  /\ call \in [Workers -> Times \cup {Idle}]
  /\ snaps \subseteq [at : Times, day : Days, value : 0..MaxSpend, seen : Days]
  /\ \A s \in snaps : s.day <= s.seen   \* no row is dated ahead of its answer
  /\ owner \in [Times -> Buyers \cup {Nobody}]

Init ==
  /\ now = 0
  /\ meter = [d \in Days |-> 0]
  /\ call = [w \in Workers |-> Idle]
  /\ snaps = {}
  /\ owner = [i \in Times |-> Nobody]

Spend ==
  /\ meter[LocalDay(now)] < MaxSpend
  /\ meter' = [meter EXCEPT ![LocalDay(now)] = @ + 1]
  /\ UNCHANGED <<now, call, snaps, owner>>

\* Meta takes spend back (invalid clicks): what the clamp is for
Restate ==
  /\ meter[LocalDay(now)] > 0
  /\ meter' = [meter EXCEPT ![LocalDay(now)] = @ - 1]
  /\ UNCHANGED <<now, call, snaps, owner>>

Tick ==
  /\ now < MaxTime
  /\ now' = now + 1
  /\ UNCHANGED <<meter, call, snaps, owner>>

\* capturedAt := time.Now(); no two syncs read the same instant
StartCall(w) ==
  /\ call[w] = Idle
  /\ \A v \in Workers : call[v] # now
  /\ \A s \in snaps : s.at # now
  /\ call' = [call EXCEPT ![w] = now]
  /\ UNCHANGED <<now, meter, snaps, owner>>

\* Meta answers with the meter of its today
Answer(w) ==
  /\ call[w] # Idle
  /\ SaveSnapshot(Row(call[w], meter[LocalDay(now)]))
  /\ call' = [call EXCEPT ![w] = Idle]
  /\ UNCHANGED <<now, meter, owner>>

\* the call, or SaveSnapshot, fails: a retry notes a new capturedAt
CallFails(w) ==
  /\ call[w] # Idle
  /\ call' = [call EXCEPT ![w] = Idle]
  /\ UNCHANGED <<now, meter, snaps, owner>>

\* AssignBuyer, UnassignBuyer: the open interval ends now and the next begins
Reassign(b) ==
  /\ owner[now] # b
  /\ owner' = [i \in Times |-> IF i >= now THEN b ELSE owner[i]]
  /\ UNCHANGED <<now, meter, call, snaps>>

Next ==
  \/ Spend
  \/ Restate
  \/ Tick
  \/ \E w \in Workers : StartCall(w) \/ Answer(w) \/ CallFails(w)
  \/ \E b \in Buyers \cup {Nobody} : Reassign(b)

Spec == Init /\ [][Next]_vars

-----------------------------------------------------------------------------
(* Properties *)

Viewers == {Viewer(user, asked) : user, asked \in Buyers \cup {Everyone}}
Instants == 0..(MaxTime + 1)
DayStart(d) == IF d = 0 THEN 0 ELSE d * DayLen - ZoneShift
OfDay(d) == {s \in snaps : s.day = d}
DayTotal(d) == Summary(Everyone, Everyone, DayStart(d), DayStart(d + 1)).value

(* A period compared with the instant before or after it: the two add up to  *)
(* the longer period, in value and in points, for every viewer, hence any    *)
(* two adjoining periods do.  Neither is a difference counted twice nor is   *)
(* one dropped at the boundary (the "previous" rows of AnalyticsSnapshots).  *)
RangesAddUp ==
  \A viewer \in Viewers : \A from, cut \in Times :
    from < cut =>
      LET both == Compare(viewer, cut, cut + 1, from, cut)
          whole == Aggregate(viewer, from, cut + 1)
      IN  /\ both.current.value + both.previous.value = whole.value
          /\ both.current.points + both.previous.points = whole.points

(* A bar of an account's chart is the summary of its hour, cut to the period *)
(* of the request; all bars together are the figures above the chart; and    *)
(* these come from as many snapshots as the listing of the period shows.     *)
SeriesMatchesSummary ==
  \A viewer \in Viewers : \A from \in Times :
    LET page == Detail(viewer, from, MaxTime)
        bars == page.timeseries
    IN  /\ \A k \in DOMAIN bars :
             bars[k] = Aggregate(viewer, IF k < from THEN from ELSE k,
                                 IF k + BucketLen > MaxTime THEN MaxTime ELSE k + BucketLen)
        /\ page.kpis.value = MapThenSumSet(LAMBDA k : bars[k].value, DOMAIN bars)
        /\ page.kpis.points = Cardinality(Listing(Everyone, viewer, from, MaxTime))

(* A buyer who has had the account since the local day began is shown what   *)
(* the account did: the ownership filter takes nothing away, not even the    *)
(* snapshot of the instant of the assignment.                                *)
SoleOwnerSeesAll ==
  \A b \in Buyers : \A from, to \in Times :
    from < to /\ (\A i \in Times : DayStart(LocalDay(from)) <= i /\ i < to => owner[i] = b) =>
      BuyerRows(from, to)[b] = Aggregate(Everyone, from, to)

(* The report of a local day never shows less than some snapshot of that day *)
(* saw, even when Meta took spend back later or answers came out of order.   *)
NothingLost ==
  \A d \in Days : \A s \in OfDay(d) : DayTotal(d) >= s.value

(* The report of a local day never shows more than Meta counted on that day, *)
(* as long as the answers are about the day they are stored under and grow   *)
(* in the order of captured_at.                                              *)
Orderly(d) ==
  /\ \A s \in OfDay(d) : s.seen = d /\ s.value <= meter[d]
  /\ \A s, o \in OfDay(d) : s.at < o.at => s.value <= o.value
NothingInvented ==
  \A d \in Days : Orderly(d) => DayTotal(d) <= meter[d]

(* client.go 308-309, README 140: meta_date is the account's today, the day  *)
(* whose cumulative values the row holds.                                    *)
SnapshotOfItsDay == \A s \in snaps : s.day = s.seen

(* analytics.go 11-14: the rows include the latest snapshot before From for  *)
(* every account in the range, so what a buyer is shown for a period is a    *)
(* part of what the account did in it (while the answers are orderly).       *)
BuyerWithinAccount ==
  (\A d \in Days : Orderly(d)) =>
    \A b \in Buyers : \A from, to \in Instants :
      BuyerRows(from, to)[b].value <= Aggregate(Everyone, from, to).value
=============================================================================
