------------------------------- MODULE Retention -------------------------------
(***************************************************************************)
(* Metric samples of one host: their insertion by reports, the query of    *)
(* the Web pages (server/controllers/metrics.go), and the downsampling and *)
(* clean-up that every server runs on a timer and an administrator can     *)
(* start by hand (retention.go, maintenance.go).                           *)
(*                                                                         *)
(* A clean-up is a sequence of separate SQL statements, each an action     *)
(* here, without a transaction around them; several clean-ups overlap, one *)
(* per member of Runner.  A sample is named by its timestamp, the averages *)
(* of a downsampled row by the set of samples they were computed from.     *)
(***************************************************************************)
EXTENDS Integers, FiniteSets, Bags

CONSTANTS
    Runner,        \* timers of the servers, and requests to DownsampleHandler
    RawRetention,  \* retention.raw_retention_days
    DownsampleAt,  \* retention.downsample_at_days
    Interval,      \* retention.downsample_interval
    Limit,         \* rows MetricsHandler returns
    MaxTime,       \* bound on the clock
    MaxFaults      \* bound on failed statements and crashes

ASSUME RetentionAssumption ==
    /\ IsFiniteSet(Runner)
    /\ RawRetention \in Nat \ {0} /\ DownsampleAt \in Nat \ {0}
    /\ Interval \in Nat \ {0} /\ Limit \in Nat /\ MaxTime \in Nat /\ MaxFaults \in Nat

Time == 0 .. MaxTime

VARIABLES
    now,
    raw,         \* the samples in metric_samples
    downsampled, \* metric_downsamples: a bag of rows
    run,         \* run[c]: where clean-up c is, its cut-offs, what it has read
    recorded,    \* history: every sample that was ever inserted
    faults       \* failed statements and crashes so far

vars == <<now, raw, downsampled, run, recorded, faults>>

Row == [bucket : Time, of : SUBSET Time]

Idle == [at |-> "idle", cutoffRaw |-> 0, cutoffDownsample |-> 0, samples |-> {}]

Cleanup == [at : {"idle", "read", "insert", "delete", "deleteRaw", "deleteDownsampled"},
            cutoffRaw : Int, cutoffDownsample : Int, samples : SUBSET Time]

TypeOK ==
    /\ now \in Time
    /\ raw \subseteq recorded
    /\ IsABag(downsampled) /\ BagToSet(downsampled) \subseteq Row
    /\ run \in [Runner -> Cleanup]
    /\ recorded \subseteq Time
    /\ faults \in 0 .. MaxFaults

Init ==
    /\ now = 0
    /\ raw = {} /\ recorded = {}
    /\ downsampled = EmptyBag
    /\ run = [c \in Runner |-> Idle]
    /\ faults = 0

\* Timestamp.Truncate(interval).
Truncate(t) == (t \div Interval) * Interval

Before(cutoff) == {t \in raw : t < cutoff}

\* Clean-up c goes on at a point, holding the samples it has read.
GotoWith(c, at, samples) == run' = [run EXCEPT ![c] = [run[c] EXCEPT !.at = at, !.samples = samples]]

Goto(c, at) == GotoWith(c, at, run[c].samples)

-----------------------------------------------------------------------------

\* A report of the agent, or a collection: the timestamp is the server's clock.
InsertSample ==
    /\ now \notin recorded
    /\ raw' = raw \cup {now}
    /\ recorded' = recorded \cup {now}
    /\ UNCHANGED <<now, downsampled, run, faults>>

\* Mutant: the cut-off of the downsampling is a unit too late.
RunDownsampleCleanupEarly(c) ==
    /\ run[c].at = "idle"
    /\ run' = [run EXCEPT ![c] = [at |-> "read", samples |-> {},
                                  cutoffRaw |-> now - RawRetention,
                                  cutoffDownsample |-> now - DownsampleAt + 1]]
    /\ UNCHANGED <<now, raw, downsampled, recorded, faults>>

\* The cut-offs are taken from the clock once, at the start.
RunDownsampleCleanup(c) ==
    /\ run[c].at = "idle"
    /\ run' = [run EXCEPT ![c] = [at |-> "read", samples |-> {},
                                  cutoffRaw |-> now - RawRetention,
                                  cutoffDownsample |-> now - DownsampleAt]]
    /\ UNCHANGED <<now, raw, downsampled, recorded, faults>>

\* The two SELECTs of downsampleOldSamples, whose condition is the same; with
\* nothing to do it goes on to the deletions.
ReadSamples(c) ==
    /\ run[c].at = "read"
    /\ LET found == Before(run[c].cutoffDownsample)
       IN  GotoWith(c, IF found = {} THEN "deleteRaw" ELSE "insert", found)
    /\ UNCHANGED <<now, raw, downsampled, recorded, faults>>

\* One row per bucket, the average of the samples of that bucket.
Rows(samples) ==
    {[bucket |-> b, of |-> {t \in samples : Truncate(t) = b}] : b \in {Truncate(t) : t \in samples}}

InsertDownsamples(c) ==
    /\ run[c].at = "insert"
    /\ downsampled' = downsampled (+) SetToBag(Rows(run[c].samples))
    /\ Goto(c, "delete")
    /\ UNCHANGED <<now, raw, recorded, faults>>

\* Mutant: only whole buckets are deleted.
DeleteDownsampledRawWhole(c) ==
    /\ run[c].at = "delete"
    /\ raw' = raw \ Before(Truncate(run[c].cutoffDownsample))
    /\ GotoWith(c, "deleteRaw", {})
    /\ UNCHANGED <<now, downsampled, recorded, faults>>

\* Deletes by timestamp, not by what was read.
DeleteDownsampledRaw(c) ==
    /\ run[c].at = "delete"
    /\ raw' = raw \ Before(run[c].cutoffDownsample)
    /\ GotoWith(c, "deleteRaw", {})
    /\ UNCHANGED <<now, downsampled, recorded, faults>>

DeleteOldRawSamples(c) ==
    /\ run[c].at = "deleteRaw"
    /\ raw' = raw \ Before(run[c].cutoffRaw)
    /\ Goto(c, "deleteDownsampled")
    /\ UNCHANGED <<now, downsampled, recorded, faults>>

\* Mutant: the rows are compared with the wrong cut-off.
DeleteOldDownsampledEarly(c) ==
    /\ run[c].at = "deleteDownsampled"
    /\ downsampled' = [r \in {q \in BagToSet(downsampled) : q.bucket >= run[c].cutoffDownsample}
                          |-> downsampled[r]]
    /\ run' = [run EXCEPT ![c] = Idle]
    /\ UNCHANGED <<now, raw, recorded, faults>>

\* A row's timestamp is the start of its bucket.
DeleteOldDownsampled(c) ==
    /\ run[c].at = "deleteDownsampled"
    /\ downsampled' = [r \in {q \in BagToSet(downsampled) : q.bucket >= run[c].cutoffRaw}
                          |-> downsampled[r]]
    /\ run' = [run EXCEPT ![c] = Idle]
    /\ UNCHANGED <<now, raw, recorded, faults>>

\* An error is logged; those of one host's downsampling skip the rest of that
\* host, and the deletions by age follow in any case.
StatementFails(c) ==
    /\ run[c].at # "idle" /\ faults < MaxFaults
    /\ GotoWith(c, CASE run[c].at \in {"read", "insert", "delete"} -> "deleteRaw"
                     [] run[c].at = "deleteRaw"         -> "deleteDownsampled"
                     [] run[c].at = "deleteDownsampled" -> "idle",
                {})
    /\ faults' = faults + 1
    /\ UNCHANGED <<now, raw, downsampled, recorded>>

\* The server dies in the middle of a clean-up.
Crash(c) ==
    /\ run[c].at # "idle" /\ faults < MaxFaults
    /\ run' = [run EXCEPT ![c] = Idle]
    /\ faults' = faults + 1
    /\ UNCHANGED <<now, raw, downsampled, recorded>>

Tick ==
    /\ now < MaxTime
    /\ now' = now + 1
    /\ UNCHANGED <<raw, downsampled, run, recorded, faults>>

-----------------------------------------------------------------------------

CleanupStep(c) ==
    \/ RunDownsampleCleanup(c)
    \/ ReadSamples(c)
    \/ InsertDownsamples(c)
    \/ DeleteDownsampledRaw(c)
    \/ DeleteOldRawSamples(c)
    \/ DeleteOldDownsampled(c)

Next ==
    \/ InsertSample
    \/ Tick
    \/ \E c \in Runner : CleanupStep(c) \/ StatementFails(c) \/ Crash(c)

Spec == Init /\ [][Next]_vars

-----------------------------------------------------------------------------
\* Properties.

\* MetricsHandler: the first Limit samples since now - dur or, when there is
\* none, the last Limit samples of all.
Shown(dur) ==
    LET window == {t \in raw : t >= now - dur}
    IN  IF window # {}
        THEN {t \in window : Cardinality({u \in window : u < t}) < Limit}
        ELSE {t \in raw : Cardinality({u \in raw : u > t}) < Limit}

\* The rows of the table that sample t is part of, equal ones told apart by a number.
RowsWith(t) == UNION {{r} \X (1 .. downsampled[r]) : r \in {q \in BagToSet(downsampled) : t \in q.of}}

\* The copies of sample t among the downsampled rows.
Copies(t) == Cardinality(RowsWith(t))

\* Sample t is part of a downsampled row.
Downsampled(t) == \E r \in BagToSet(downsampled) : t \in r.of

\* No sample is lost before its time: whatever clean-ups overlap, fail or are
\* cut short, a sample whose bucket is within the retention is still there, raw
\* or as part of a downsampled row.
NoSampleLost ==
    \A t \in recorded : Truncate(t) >= now - RawRetention => t \in raw \/ Downsampled(t)

\* The double counting that the lack of a transaction allows is bounded: each
\* clean-up enters a sample once, and once more for each fault.
CopiesBounded ==
    \A t \in recorded : Copies(t) <= Cardinality(Runner) + faults

\* How far back nothing is touched, whichever of the two settings is smaller.
Untouched == IF DownsampleAt <= RawRetention THEN DownsampleAt ELSE RawRetention

\* A page that asks for no more than downsample_at_days and raw_retention_days,
\* and no more rows than the limit, sees every sample of its window, while
\* clean-ups are under way.
QueryWindowIntact ==
    LET window == {t \in recorded : t >= now - Untouched}
    IN  window # {} /\ Cardinality(window) <= Limit => Shown(Untouched) = window

=============================================================================
