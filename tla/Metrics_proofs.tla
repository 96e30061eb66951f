---------------------------- MODULE Metrics_proofs ----------------------------
(***************************************************************************)
(* The metric samples of hosts, from where they are collected to where     *)
(* they are cleaned up. What the clean-ups guarantee for any number of     *)
(* overlapping clean-ups, any retention, interval and row limit, and any   *)
(* number of failed statements and crashes (Retention); and what agentless *)
(* collection and the offline checker guarantee for any number of servers, *)
(* channels, thresholds and requests (Collector).                          *)
(***************************************************************************)
EXTENDS Retention, Collector, TLAPS, FiniteSetTheorems

\* The cut-offs of a clean-up under way are never later than those that a
\* clean-up started now would have.
CutoffInv ==
    \A c \in Runner : run[c].at # "idle" =>
        /\ run[c].cutoffRaw <= now - RawRetention
        /\ run[c].cutoffDownsample <= now - DownsampleAt

\* The samples of a row are of the row's bucket.
BucketInv ==
    \A r \in BagToSet(downsampled) : \A t \in r.of : Truncate(t) = r.bucket

\* A clean-up about to insert has read every sample it will delete.
ReadInv ==
    \A c \in Runner : run[c].at = "insert" => Before(run[c].cutoffDownsample) \subseteq run[c].samples

\* Sample t may leave the raw table: it is downsampled, or past its retention.
Released(t) == Truncate(t) >= now - RawRetention => Downsampled(t)

\* A clean-up about to delete deletes only what may leave the raw table, other
\* clean-ups' deletions of rows notwithstanding.
DeleteInv ==
    \A c \in Runner : run[c].at = "delete" => \A t \in Before(run[c].cutoffDownsample) : Released(t)

\* What is young enough to be untouched is in the raw table.
WindowInv == \A t \in recorded : t >= now - Untouched => t \in raw

SafeInv == CutoffInv /\ BucketInv /\ ReadInv /\ DeleteInv /\ NoSampleLost /\ WindowInv

-----------------------------------------------------------------------------
\* The operators.

\* The start of a bucket is a time, not after the times of the bucket.
LEMMA TruncateFacts ==
    ASSUME NEW t \in Nat
    PROVE  Truncate(t) \in Nat /\ Truncate(t) <= t
<1>1. Interval \in Nat /\ Interval > 0
  BY RetentionAssumption
<1>2. t \div Interval \in Nat
  BY <1>1
<1>3. Interval * (t \div Interval) <= t
  BY <1>1, Z3
<1>4. QED
  BY <1>1, <1>2, <1>3 DEF Truncate

\* Untouched is the smaller of the two settings.
LEMMA UntouchedFacts == Untouched \in Nat /\ Untouched <= DownsampleAt /\ Untouched <= RawRetention
<1>. QED
  BY RetentionAssumption DEF Untouched

\* The rows of a set of samples are rows, each of one bucket, and hold every
\* sample of the set.
LEMMA RowFacts ==
    ASSUME NEW S \in SUBSET Time
    PROVE  /\ Rows(S) \subseteq Row
           /\ \A r \in Rows(S) : \A t \in r.of : Truncate(t) = r.bucket
           /\ \A t \in S : \E r \in Rows(S) : t \in r.of
<1>1. ASSUME NEW t \in S PROVE Truncate(t) \in Time
  <2>1. t \in Nat /\ t <= MaxTime
    BY RetentionAssumption DEF Time
  <2>2. QED
    BY <2>1, TruncateFacts, RetentionAssumption DEF Time
<1>2. Rows(S) \subseteq Row
  BY <1>1 DEF Rows, Row
<1>3. \A r \in Rows(S) : \A t \in r.of : Truncate(t) = r.bucket
  BY DEF Rows
<1>4. ASSUME NEW t \in S PROVE \E r \in Rows(S) : t \in r.of
  <2>1. [bucket |-> Truncate(t), of |-> {u \in S : Truncate(u) = Truncate(t)}] \in Rows(S)
    BY DEF Rows
  <2>2. QED
    BY <2>1
<1>5. QED
  BY <1>2, <1>3, <1>4

\* Inserting rows keeps the table a bag, of the old rows and the new ones.
LEMMA InsertFacts ==
    ASSUME NEW S, IsABag(downsampled)
    PROVE  /\ IsABag(downsampled (+) SetToBag(S))
           /\ BagToSet(downsampled (+) SetToBag(S)) = BagToSet(downsampled) \cup S
<1>1. DOMAIN SetToBag(S) = S /\ \A e \in S : SetToBag(S)[e] = 1
  BY DEF SetToBag
<1>2. DOMAIN (downsampled (+) SetToBag(S)) = DOMAIN downsampled \cup S
  BY <1>1 DEF (+)
<1>3. ASSUME NEW e \in DOMAIN downsampled \cup S
      PROVE  (downsampled (+) SetToBag(S))[e] \in {n \in Nat : n > 0}
  BY <1>1 DEF (+), IsABag, BagToSet
<1>4. QED
  BY <1>2, <1>3 DEF IsABag, BagToSet, (+)

\* Deleting rows keeps the table a bag, of the rows that stay.
LEMMA RestrictFacts ==
    ASSUME NEW S, S \subseteq BagToSet(downsampled), IsABag(downsampled)
    PROVE  /\ IsABag([r \in S |-> downsampled[r]])
           /\ BagToSet([r \in S |-> downsampled[r]]) = S
<1>. QED
  BY DEF IsABag, BagToSet

\* Where a clean-up goes on: everything but its point and its samples stays.
LEMMA GotoFacts ==
    ASSUME TypeOK, NEW c \in Runner, NEW at, NEW samples \in SUBSET Time, GotoWith(c, at, samples)
    PROVE  /\ \A d \in Runner \ {c} : run'[d] = run[d]
           /\ run'[c].at = at /\ run'[c].samples = samples
           /\ run'[c].cutoffRaw = run[c].cutoffRaw
           /\ run'[c].cutoffDownsample = run[c].cutoffDownsample
           /\ at \in {"idle", "read", "insert", "delete", "deleteRaw", "deleteDownsampled"}
                 => run' \in [Runner -> Cleanup]
<1>. QED
  BY DEF GotoWith, TypeOK, Cleanup

-----------------------------------------------------------------------------
\* Type correctness.

\* Every step keeps the types.
LEMMA TypeStep ==
    ASSUME TypeOK, [Next]_vars
    PROVE  TypeOK'
<1>. USE RetentionAssumption
<1>0. Time \subseteq Nat
  BY DEF Time
<1>1. CASE InsertSample
  BY <1>1 DEF InsertSample, TypeOK
<1>2. CASE Tick
  BY <1>2 DEF Tick, TypeOK, Time
<1>3. CASE UNCHANGED vars
  BY <1>3 DEF vars, TypeOK
<1>4. ASSUME NEW c \in Runner, CleanupStep(c) \/ StatementFails(c) \/ Crash(c)
      PROVE  TypeOK'
  <2>0. /\ run[c].cutoffDownsample \in Int /\ run[c].samples \in SUBSET Time
        /\ run[c].at \in {"idle", "read", "insert", "delete", "deleteRaw", "deleteDownsampled"}
    BY DEF TypeOK, Cleanup
  <2>1. CASE RunDownsampleCleanup(c)
    <3>1. now - RawRetention \in Int /\ now - DownsampleAt \in Int
      BY <1>0 DEF TypeOK
    <3>2. QED
      BY <2>1, <3>1 DEF RunDownsampleCleanup, TypeOK, Cleanup
  <2>2. CASE ReadSamples(c)
    <3>1. Before(run[c].cutoffDownsample) \in SUBSET Time
      BY DEF Before, TypeOK
    <3>2. run' \in [Runner -> Cleanup]
      <4>1. CASE Before(run[c].cutoffDownsample) = {}
        BY <2>2, <3>1, <4>1, GotoFacts DEF ReadSamples
      <4>2. CASE Before(run[c].cutoffDownsample) # {}
        BY <2>2, <3>1, <4>2, GotoFacts DEF ReadSamples
      <4>3. QED
        BY <4>1, <4>2
    <3>3. QED
      BY <2>2, <3>2 DEF ReadSamples, TypeOK
  <2>3. CASE InsertDownsamples(c)
    <3>1. IsABag(downsampled') /\ BagToSet(downsampled') = BagToSet(downsampled) \cup Rows(run[c].samples)
      BY <2>3, InsertFacts DEF InsertDownsamples, TypeOK
    <3>2. Rows(run[c].samples) \subseteq Row
      BY <2>0, RowFacts
    <3>3. run' \in [Runner -> Cleanup]
      BY <2>3, <2>0, GotoFacts DEF InsertDownsamples, Goto
    <3>4. QED
      BY <2>3, <3>1, <3>2, <3>3 DEF InsertDownsamples, TypeOK
  <2>4. CASE DeleteDownsampledRaw(c)
    <3>1. run' \in [Runner -> Cleanup]
      BY <2>4, GotoFacts DEF DeleteDownsampledRaw
    <3>2. QED
      BY <2>4, <3>1 DEF DeleteDownsampledRaw, TypeOK
  <2>5. CASE DeleteOldRawSamples(c)
    <3>1. run' \in [Runner -> Cleanup]
      BY <2>5, <2>0, GotoFacts DEF DeleteOldRawSamples, Goto
    <3>2. QED
      BY <2>5, <3>1 DEF DeleteOldRawSamples, TypeOK
  <2>6. CASE DeleteOldDownsampled(c)
    <3>1. IsABag(downsampled') /\ BagToSet(downsampled') \subseteq BagToSet(downsampled)
      BY <2>6, RestrictFacts DEF DeleteOldDownsampled, TypeOK
    <3>2. run' \in [Runner -> Cleanup]
      BY <2>6 DEF DeleteOldDownsampled, Idle, TypeOK, Cleanup
    <3>3. QED
      BY <2>6, <3>1, <3>2 DEF DeleteOldDownsampled, TypeOK
  <2>7. CASE StatementFails(c)
    <3>1. PICK at \in {"deleteRaw", "deleteDownsampled", "idle"} : GotoWith(c, at, {})
      BY <2>7, <2>0 DEF StatementFails
    <3>2. run' \in [Runner -> Cleanup]
      BY <3>1, GotoFacts
    <3>3. QED
      BY <2>7, <3>2 DEF StatementFails, TypeOK
  <2>8. CASE Crash(c)
    BY <2>8 DEF Crash, Idle, TypeOK, Cleanup
  <2>9. QED
    BY <1>4, <2>1, <2>2, <2>3, <2>4, <2>5, <2>6, <2>7, <2>8 DEF CleanupStep
<1>5. QED
  BY <1>1, <1>2, <1>3, <1>4 DEF Next

\* The initial state has the types.
LEMMA TypeInit == Init => TypeOK
<1>. QED
  BY RetentionAssumption DEF Init, TypeOK, Time, Idle, Cleanup, EmptyBag, SetToBag, IsABag, BagToSet

\* Type correctness of the sample tables and of every clean-up, whatever the
\* numbers of clean-ups and faults; in particular each downsampled row has a
\* bucket that is a time on the clock.
THEOREM TypeCorrect == Spec => []TypeOK
<1>. QED
  BY TypeInit, TypeStep, PTL DEF Spec

-----------------------------------------------------------------------------
\* Nothing is lost.

\* A step of a clean-up that leaves the tables alone and does not bring it to
\* its insertion or its deletion of what was downsampled keeps the invariant.
LEMMA QuietStep ==
    ASSUME TypeOK, SafeInv, NEW c \in Runner,
           UNCHANGED <<now, raw, downsampled, recorded>>,
           \A d \in Runner \ {c} : run'[d] = run[d],
           run'[c].at \notin {"insert", "delete"},
           run'[c].at # "idle" => /\ run'[c].cutoffRaw <= now - RawRetention
                                  /\ run'[c].cutoffDownsample <= now - DownsampleAt
    PROVE  SafeInv'
<1>1. CutoffInv'
  BY DEF CutoffInv, SafeInv
<1>2. BucketInv' /\ NoSampleLost' /\ WindowInv'
  BY DEF BucketInv, NoSampleLost, WindowInv, SafeInv, Downsampled, Truncate
<1>3. ReadInv'
  BY DEF ReadInv, SafeInv, Before
<1>4. DeleteInv'
  BY DEF DeleteInv, SafeInv, Before, Released, Downsampled, Truncate
<1>5. QED
  BY <1>1, <1>2, <1>3, <1>4 DEF SafeInv

\* A deletion of raw samples that may leave the table keeps the invariant.
LEMMA DeletionStep ==
    ASSUME TypeOK, SafeInv, NEW c \in Runner,
           UNCHANGED <<now, downsampled, recorded>>,
           NEW gone \in SUBSET raw, raw' = raw \ gone,
           \A t \in gone : Released(t) /\ t < now - Untouched,
           \A d \in Runner \ {c} : run'[d] = run[d],
           run'[c].at \in {"deleteRaw", "deleteDownsampled"},
           run[c].at # "idle",
           run'[c].cutoffRaw = run[c].cutoffRaw,
           run'[c].cutoffDownsample = run[c].cutoffDownsample
    PROVE  SafeInv'
<1>1. CutoffInv'
  BY DEF CutoffInv, SafeInv
<1>2. BucketInv'
  BY DEF BucketInv, SafeInv, Truncate
<1>3. NoSampleLost'
  BY DEF NoSampleLost, SafeInv, Released, Downsampled, Truncate
<1>4. WindowInv'
  <2>1. now - Untouched \in Int /\ recorded \subseteq Int
    BY UntouchedFacts, RetentionAssumption DEF TypeOK, Time
  <2>2. ASSUME NEW t \in recorded, t >= now - Untouched PROVE t \in raw \ gone
    BY <2>1, <2>2 DEF WindowInv, SafeInv
  <2>3. QED
    BY <2>2 DEF WindowInv
<1>5. ReadInv'
  BY DEF ReadInv, SafeInv, Before
<1>6. DeleteInv'
  BY DEF DeleteInv, SafeInv, Before, Released, Downsampled, Truncate
<1>7. QED
  BY <1>1, <1>2, <1>3, <1>4, <1>5, <1>6 DEF SafeInv

\* Every step keeps the invariant.
LEMMA SafeStep ==
    ASSUME TypeOK, SafeInv, [Next]_vars
    PROVE  SafeInv'
<1>. USE RetentionAssumption
<1>0. /\ Time \subseteq Int /\ now \in Int /\ raw \subseteq Int /\ recorded \subseteq Int
      /\ \A c \in Runner : run[c].cutoffRaw \in Int /\ run[c].cutoffDownsample \in Int
      /\ \A t \in Time : t \in Nat
  BY DEF Time, TypeOK, Cleanup
<1>1. CASE InsertSample
  <2>0. UNCHANGED <<now, downsampled, run>> /\ raw' = raw \cup {now} /\ recorded' = recorded \cup {now}
    BY <1>1 DEF InsertSample
  <2>1. CutoffInv' /\ BucketInv'
    BY <2>0 DEF CutoffInv, BucketInv, SafeInv, Truncate
  <2>2. \A c \in Runner : run[c].at # "idle" => ~ (now < run[c].cutoffDownsample)
    BY <1>0 DEF SafeInv, CutoffInv
  <2>3. ReadInv'
    BY <2>0, <2>2 DEF ReadInv, SafeInv, Before
  <2>4. DeleteInv'
    BY <2>0, <2>2 DEF DeleteInv, SafeInv, Before, Released, Downsampled, Truncate
  <2>5. NoSampleLost' /\ WindowInv'
    BY <2>0 DEF NoSampleLost, WindowInv, SafeInv, Downsampled, Truncate
  <2>6. QED
    BY <2>1, <2>3, <2>4, <2>5 DEF SafeInv
<1>2. CASE Tick
  <2>0. UNCHANGED <<raw, downsampled, run, recorded>> /\ now' = now + 1
    BY <1>2 DEF Tick
  <2>1. CutoffInv'
    BY <1>0, <2>0 DEF CutoffInv, SafeInv
  <2>2. BucketInv' /\ ReadInv'
    BY <2>0 DEF BucketInv, ReadInv, SafeInv, Truncate, Before
  <2>3. ASSUME NEW t \in recorded, Truncate(t) >= now' - RawRetention PROVE Truncate(t) >= now - RawRetention
    <3>1. Truncate(t) \in Int
      BY <1>0, TruncateFacts DEF TypeOK
    <3>2. QED
      BY <1>0, <2>0, <2>3, <3>1
  <2>4. DeleteInv'
    <3>1. \A x : Before(x) \subseteq recorded
      BY DEF Before, TypeOK
    <3>2. ASSUME NEW t \in recorded, Released(t) PROVE Released(t)'
      BY <2>0, <2>3, <3>2 DEF Released, Downsampled, Truncate
    <3>3. QED
      BY <2>0, <3>1, <3>2 DEF DeleteInv, SafeInv, Before
  <2>5. NoSampleLost'
    BY <2>0, <2>3 DEF NoSampleLost, SafeInv, Downsampled, Truncate
  <2>6. WindowInv'
    BY <1>0, <2>0, UntouchedFacts DEF WindowInv, SafeInv
  <2>7. QED
    BY <2>1, <2>2, <2>4, <2>5, <2>6 DEF SafeInv
<1>3. CASE UNCHANGED vars
  BY <1>3 DEF vars, SafeInv, CutoffInv, BucketInv, ReadInv, DeleteInv, NoSampleLost, WindowInv,
              Before, Released, Downsampled, Truncate
<1>4. ASSUME NEW c \in Runner, CleanupStep(c) \/ StatementFails(c) \/ Crash(c)
      PROVE  SafeInv'
  <2>0. run[c].samples \in SUBSET Time /\ \A x : Before(x) \in SUBSET Time
    BY DEF TypeOK, Cleanup, Before
  <2>1. CASE RunDownsampleCleanup(c)
    <3>1. /\ \A d \in Runner \ {c} : run'[d] = run[d]
          /\ run'[c] = [at |-> "read", samples |-> {}, cutoffRaw |-> now - RawRetention,
                        cutoffDownsample |-> now - DownsampleAt]
          /\ UNCHANGED <<now, raw, downsampled, recorded>>
      BY <2>1 DEF RunDownsampleCleanup, TypeOK
    <3>2. run'[c].at = "read" /\ run'[c].cutoffRaw <= now - RawRetention
                              /\ run'[c].cutoffDownsample <= now - DownsampleAt
      BY <1>0, <3>1
    <3>3. QED
      BY <3>1, <3>2, QuietStep
  <2>2. CASE ReadSamples(c)
    <3>. DEFINE found == Before(run[c].cutoffDownsample)
    <3>0. UNCHANGED <<now, raw, downsampled, recorded>> /\ run[c].at # "idle"
      BY <2>2 DEF ReadSamples
    <3>1. CASE found = {}
      <4>1. GotoWith(c, "deleteRaw", {})
        BY <2>2, <3>1 DEF ReadSamples
      <4>2. QED
        BY <3>0, <4>1, GotoFacts, QuietStep DEF SafeInv, CutoffInv
    <3>2. CASE found # {}
      <4>1. GotoWith(c, "insert", found)
        BY <2>2, <3>2 DEF ReadSamples
      <4>2. /\ \A d \in Runner \ {c} : run'[d] = run[d]
            /\ run'[c].at = "insert" /\ run'[c].samples = found
            /\ run'[c].cutoffRaw = run[c].cutoffRaw
            /\ run'[c].cutoffDownsample = run[c].cutoffDownsample
        BY <2>0, <4>1, GotoFacts
      <4>3. CutoffInv'
        BY <3>0, <4>2 DEF CutoffInv, SafeInv
      <4>4. BucketInv' /\ NoSampleLost' /\ WindowInv'
        BY <3>0 DEF BucketInv, NoSampleLost, WindowInv, SafeInv, Downsampled, Truncate
      <4>5. ReadInv'
        BY <3>0, <4>2 DEF ReadInv, SafeInv, Before
      <4>6. DeleteInv'
        BY <3>0, <4>2 DEF DeleteInv, SafeInv, Before, Released, Downsampled, Truncate
      <4>7. QED
        BY <4>3, <4>4, <4>5, <4>6 DEF SafeInv
    <3>3. QED
      BY <3>1, <3>2
  <2>3. CASE InsertDownsamples(c)
    <3>0. UNCHANGED <<now, raw, recorded>> /\ run[c].at = "insert"
      BY <2>3 DEF InsertDownsamples
    <3>1. BagToSet(downsampled') = BagToSet(downsampled) \cup Rows(run[c].samples)
      BY <2>3, InsertFacts DEF InsertDownsamples, TypeOK
    <3>2. /\ \A d \in Runner \ {c} : run'[d] = run[d]
          /\ run'[c].at = "delete"
          /\ run'[c].cutoffRaw = run[c].cutoffRaw
          /\ run'[c].cutoffDownsample = run[c].cutoffDownsample
      BY <2>3, <2>0, GotoFacts DEF InsertDownsamples, Goto
    <3>3. CutoffInv'
      BY <3>0, <3>2 DEF CutoffInv, SafeInv
    <3>4. BucketInv'
      BY <3>1, <2>0, RowFacts DEF BucketInv, SafeInv, Truncate
    <3>5. \A t : Downsampled(t) => Downsampled(t)'
      BY <3>1 DEF Downsampled
    <3>6. \A t \in run[c].samples : Downsampled(t)'
      BY <3>1, <2>0, RowFacts DEF Downsampled
    <3>7. NoSampleLost' /\ WindowInv'
      BY <3>0, <3>5 DEF NoSampleLost, WindowInv, SafeInv, Truncate
    <3>8. ReadInv'
      BY <3>0, <3>2 DEF ReadInv, SafeInv, Before
    <3>9. DeleteInv'
      <4>1. \A t \in Before(run[c].cutoffDownsample) : Released(t)'
        BY <3>0, <3>6 DEF ReadInv, SafeInv, Released
      <4>2. \A t : Released(t) => Released(t)'
        BY <3>0, <3>5 DEF Released, Truncate
      <4>3. QED
        BY <3>0, <3>2, <4>1, <4>2 DEF DeleteInv, SafeInv, Before
    <3>10. QED
      BY <3>3, <3>4, <3>7, <3>8, <3>9 DEF SafeInv
  <2>4. CASE DeleteDownsampledRaw(c)
    <3>. DEFINE gone == Before(run[c].cutoffDownsample)
    <3>1. UNCHANGED <<now, downsampled, recorded>> /\ raw' = raw \ gone /\ run[c].at = "delete"
      BY <2>4 DEF DeleteDownsampledRaw
    <3>2. gone \in SUBSET raw /\ \A t \in gone : Released(t) /\ t < now - Untouched
      <4>1. gone \in SUBSET raw /\ \A t \in gone : t < run[c].cutoffDownsample
        BY DEF Before
      <4>2. \A t \in gone : Released(t)
        BY <3>1 DEF SafeInv, DeleteInv
      <4>3. run[c].cutoffDownsample <= now - DownsampleAt
        BY <3>1 DEF SafeInv, CutoffInv
      <4>. HIDE DEF gone
      <4>4. \A t \in gone : t < now - Untouched
        BY <1>0, <4>1, <4>3, UntouchedFacts
      <4>5. QED
        BY <4>1, <4>2, <4>4
    <3>3. /\ \A d \in Runner \ {c} : run'[d] = run[d]
          /\ run'[c].at = "deleteRaw"
          /\ run'[c].cutoffRaw = run[c].cutoffRaw
          /\ run'[c].cutoffDownsample = run[c].cutoffDownsample
      BY <2>4, GotoFacts DEF DeleteDownsampledRaw
    <3>. HIDE DEF gone
    <3>4. QED
      BY <3>1, <3>2, <3>3, DeletionStep
  <2>5. CASE DeleteOldRawSamples(c)
    <3>. DEFINE gone == Before(run[c].cutoffRaw)
    <3>1. UNCHANGED <<now, downsampled, recorded>> /\ raw' = raw \ gone /\ run[c].at = "deleteRaw"
      BY <2>5 DEF DeleteOldRawSamples
    <3>2. ASSUME NEW t \in gone PROVE t \in raw /\ Released(t) /\ t < now - Untouched
      <4>1. t \in raw /\ t \in Nat /\ t < run[c].cutoffRaw
        BY <1>0 DEF Before, TypeOK
      <4>2. t < now - RawRetention
        BY <1>0, <3>1, <4>1 DEF SafeInv, CutoffInv
      <4>3. Truncate(t) \in Nat /\ Truncate(t) <= t
        BY <4>1, TruncateFacts
      <4>4. QED
        BY <1>0, <4>1, <4>2, <4>3, UntouchedFacts DEF Released
    <3>3. /\ \A d \in Runner \ {c} : run'[d] = run[d]
          /\ run'[c].at = "deleteDownsampled"
          /\ run'[c].cutoffRaw = run[c].cutoffRaw
          /\ run'[c].cutoffDownsample = run[c].cutoffDownsample
      BY <2>5, <2>0, GotoFacts DEF DeleteOldRawSamples, Goto
    <3>. HIDE DEF gone
    <3>4. gone \in SUBSET raw
      BY <3>2
    <3>5. QED
      BY <3>1, <3>2, <3>3, <3>4, DeletionStep
  <2>6. CASE DeleteOldDownsampled(c)
    <3>0. UNCHANGED <<now, raw, recorded>> /\ run[c].at # "idle"
      BY <2>6 DEF DeleteOldDownsampled
    <3>1. BagToSet(downsampled') = {r \in BagToSet(downsampled) : r.bucket >= run[c].cutoffRaw}
      BY <2>6, RestrictFacts DEF DeleteOldDownsampled, TypeOK
    <3>2. /\ \A d \in Runner \ {c} : run'[d] = run[d]
          /\ run'[c].at = "idle"
      BY <2>6 DEF DeleteOldDownsampled, Idle, TypeOK
    <3>3. CutoffInv'
      BY <3>0, <3>2 DEF CutoffInv, SafeInv
    <3>4. BucketInv'
      BY <3>1 DEF BucketInv, SafeInv, Truncate
    <3>5. ASSUME NEW t \in recorded, Truncate(t) >= now - RawRetention, Downsampled(t)
          PROVE  Downsampled(t)'
      <4>1. PICK r \in BagToSet(downsampled) : t \in r.of
        BY <3>5 DEF Downsampled
      <4>2. r.bucket = Truncate(t)
        BY <4>1 DEF BucketInv, SafeInv
      <4>3. Truncate(t) \in Int
        BY <1>0, TruncateFacts DEF TypeOK
      <4>4. r.bucket >= run[c].cutoffRaw
        BY <1>0, <3>0, <3>5, <4>2, <4>3 DEF SafeInv, CutoffInv
      <4>5. QED
        BY <3>1, <4>1, <4>4 DEF Downsampled
    <3>6. NoSampleLost' /\ WindowInv'
      BY <3>0, <3>5 DEF NoSampleLost, WindowInv, SafeInv, Truncate
    <3>7. ReadInv'
      BY <3>0, <3>2 DEF ReadInv, SafeInv, Before
    <3>8. DeleteInv'
      <4>1. \A t \in recorded : Released(t) => Released(t)'
        BY <3>0, <3>5 DEF Released, Truncate
      <4>2. \A x : Before(x) \subseteq recorded
        BY DEF Before, TypeOK
      <4>3. QED
        BY <3>0, <3>2, <4>1, <4>2 DEF DeleteInv, SafeInv, Before
    <3>9. QED
      BY <3>3, <3>4, <3>6, <3>7, <3>8 DEF SafeInv
  <2>7. CASE StatementFails(c)
    <3>1. run[c].at # "idle" /\ UNCHANGED <<now, raw, downsampled, recorded>>
      BY <2>7 DEF StatementFails
    <3>2. PICK at \in {"deleteRaw", "deleteDownsampled", "idle"} : GotoWith(c, at, {})
      BY <2>7 DEF StatementFails, TypeOK, Cleanup
    <3>3. QED
      BY <3>1, <3>2, GotoFacts, QuietStep DEF SafeInv, CutoffInv
  <2>8. CASE Crash(c)
    <3>1. /\ \A d \in Runner \ {c} : run'[d] = run[d]
          /\ run'[c].at = "idle"
          /\ UNCHANGED <<now, raw, downsampled, recorded>>
      BY <2>8 DEF Crash, Idle, TypeOK
    <3>2. QED
      BY <3>1, QuietStep
  <2>9. QED
    BY <1>4, <2>1, <2>2, <2>3, <2>4, <2>5, <2>6, <2>7, <2>8 DEF CleanupStep
<1>5. QED
  BY <1>1, <1>2, <1>3, <1>4 DEF Next

\* The invariant holds initially: there is nothing in the tables.
LEMMA SafeInit == Init => SafeInv
<1>. QED
  BY DEF Init, SafeInv, CutoffInv, BucketInv, ReadInv, DeleteInv, NoSampleLost, WindowInv, Idle,
         EmptyBag, SetToBag, BagToSet

\* The types and the invariant hold in every reachable state.
LEMMA SafeInvariant == Spec => [](TypeOK /\ SafeInv)
<1>. QED
  BY TypeInit, TypeStep, SafeInit, SafeStep, PTL DEF Spec

\* No sample is lost before its time: however many clean-ups of several servers
\* and of administrators overlap, wherever their statements fail and whenever a
\* server dies, a sample whose bucket is within raw_retention_days is in
\* metric_samples or part of a row of metric_downsamples.
THEOREM NothingLost == Spec => []NoSampleLost
<1>1. SafeInv => NoSampleLost
  BY DEF SafeInv
<1>2. QED
  BY <1>1, SafeInvariant, PTL

-----------------------------------------------------------------------------
\* The metric page.

\* A page of no more rows than the limit shows the whole of its window.
LEMMA WindowShown ==
    ASSUME TypeOK, WindowInv
    PROVE  QueryWindowIntact
<1>. DEFINE window == {t \in recorded : t >= now - Untouched}
<1>1. SUFFICES ASSUME window # {}, Cardinality(window) <= Limit
               PROVE  Shown(Untouched) = window
  BY DEF QueryWindowIntact
<1>2. window = {t \in raw : t >= now - Untouched}
  BY DEF WindowInv, TypeOK
<1>3. IsFiniteSet(window)
  <2>1. IsFiniteSet(Time)
    BY RetentionAssumption, FS_Interval DEF Time
  <2>2. QED
    BY <2>1, FS_Subset DEF TypeOK
<1>4. ASSUME NEW t \in window PROVE Cardinality({u \in window : u < t}) < Limit
  <2>. DEFINE earlier == {u \in window : u < t}
  <2>1. earlier \in SUBSET window /\ t \notin earlier
    BY RetentionAssumption DEF TypeOK, Time
  <2>2. earlier # window
    BY <2>1
  <2>3. /\ IsFiniteSet(earlier) /\ Cardinality(earlier) <= Cardinality(window)
        /\ Cardinality(earlier) # Cardinality(window)
    BY <1>3, <2>1, <2>2, FS_Subset
  <2>4. Cardinality(earlier) \in Nat /\ Cardinality(window) \in Nat
    BY <1>3, <2>3, FS_CardinalityType
  <2>. HIDE DEF earlier, window
  <2>5. Cardinality(earlier) < Limit
    BY <1>1, <2>3, <2>4, RetentionAssumption
  <2>6. QED
    BY <2>5 DEF earlier
<1>5. Shown(Untouched) = {t \in window : Cardinality({u \in window : u < t}) < Limit}
  BY <1>1, <1>2 DEF Shown
<1>. HIDE DEF window
<1>6. QED
  BY <1>4, <1>5

\* A metric page that asks for no more than downsample_at_days and
\* raw_retention_days, whichever is smaller, and for no more rows than MetricsHandler returns, shows every sample of its window at every
\* moment of every clean-up.
THEOREM WindowIntact == Spec => []QueryWindowIntact
<1>1. TypeOK /\ SafeInv => QueryWindowIntact
  BY WindowShown DEF SafeInv
<1>2. QED
  BY <1>1, SafeInvariant, PTL

-----------------------------------------------------------------------------
\* Double counting.

\* The clean-ups that will insert sample t, and those that have inserted it and
\* will delete it.
Inserting(t) == {c \in Runner : run[c].at = "insert" /\ t \in run[c].samples}
Deleting(t) == {c \in Runner : run[c].at = "delete" /\ t \in run[c].samples}

\* Only samples that were recorded are read and averaged, and a clean-up holds
\* no sample that it will not delete.
HeldInv ==
    /\ \A c \in Runner : run[c].samples \subseteq recorded
    /\ \A c \in Runner : run[c].at \in {"insert", "delete"} =>
          \A t \in run[c].samples : t < run[c].cutoffDownsample
    /\ \A r \in BagToSet(downsampled) : r.of \subseteq recorded

\* A copy of a sample that is still in the raw table belongs to a clean-up that
\* has yet to delete the sample, or to a fault.  Once it has left the raw table
\* no clean-up reads it, and only those that hold it add copies.
Bounded(t) ==
    /\ IsFiniteSet(RowsWith(t))
    /\ t \in raw => Copies(t) <= Cardinality(Deleting(t)) + faults
    /\ t \notin raw => Copies(t) + Cardinality(Inserting(t)) <= Cardinality(Runner) + faults

CopyInv == HeldInv /\ \A t \in recorded : Bounded(t)

\* The two sets of clean-ups are finite, disjoint parts of Runner.
LEMMA HolderFacts ==
    ASSUME NEW t
    PROVE  /\ IsFiniteSet(Inserting(t)) /\ IsFiniteSet(Deleting(t))
           /\ Cardinality(Inserting(t)) \in Nat /\ Cardinality(Deleting(t)) \in Nat
           /\ Cardinality(Runner) \in Nat
           /\ Cardinality(Inserting(t)) + Cardinality(Deleting(t)) <= Cardinality(Runner)
<1>1. IsFiniteSet(Runner)
  BY RetentionAssumption
<1>2. /\ Inserting(t) \in SUBSET Runner /\ Deleting(t) \in SUBSET Runner
      /\ Inserting(t) \cup Deleting(t) \in SUBSET Runner
      /\ Inserting(t) \cap Deleting(t) = {}
  BY DEF Inserting, Deleting
<1>3. IsFiniteSet(Inserting(t)) /\ IsFiniteSet(Deleting(t))
  BY <1>1, <1>2, FS_Subset
<1>4. Cardinality(Inserting(t) \cup Deleting(t)) <= Cardinality(Runner)
  BY <1>1, <1>2, FS_Subset
<1>5. Cardinality(Inserting(t) \cup Deleting(t))
        = Cardinality(Inserting(t)) + Cardinality(Deleting(t)) - Cardinality(Inserting(t) \cap Deleting(t))
  BY <1>3, FS_Union
<1>6. Cardinality(Inserting(t) \cap Deleting(t)) = 0
  BY <1>2, FS_EmptySet
<1>7. Cardinality(Inserting(t)) \in Nat /\ Cardinality(Deleting(t)) \in Nat /\ Cardinality(Runner) \in Nat
  BY <1>1, <1>3, FS_CardinalityType
<1>8. QED
  BY <1>3, <1>4, <1>5, <1>6, <1>7

\* Inserting the rows of a set of samples adds one copy of each sample of the
\* set and none of the others.
LEMMA InsertCopies ==
    ASSUME TypeOK, NEW S \in SUBSET Time, NEW t, IsFiniteSet(RowsWith(t)),
           downsampled' = downsampled (+) SetToBag(Rows(S))
    PROVE  /\ IsFiniteSet(RowsWith(t)')
           /\ Copies(t)' = IF t \in S THEN Copies(t) + 1 ELSE Copies(t)
<1>0. IsABag(downsampled) /\ \A r \in DOMAIN downsampled : downsampled[r] \in Nat
  BY DEF TypeOK, IsABag
<1>1. /\ DOMAIN downsampled' = DOMAIN downsampled \cup Rows(S)
      /\ \A r \in DOMAIN downsampled \ Rows(S) : downsampled'[r] = downsampled[r]
      /\ \A r \in Rows(S) \ DOMAIN downsampled : downsampled'[r] = 1
      /\ \A r \in Rows(S) \cap DOMAIN downsampled : downsampled'[r] = downsampled[r] + 1
  <2>1. DOMAIN SetToBag(Rows(S)) = Rows(S) /\ \A r \in Rows(S) : SetToBag(Rows(S))[r] = 1
    BY DEF SetToBag
  <2>2. QED
    BY <1>0, <2>1 DEF (+)
<1>2. \A p : p \in RowsWith(t) <=>
          \E r \in DOMAIN downsampled : t \in r.of /\ \E n \in 1 .. downsampled[r] : p = <<r, n>>
  BY DEF RowsWith, BagToSet
<1>3. \A p : p \in RowsWith(t)' <=>
          \E r \in DOMAIN downsampled' : t \in r.of /\ \E n \in 1 .. downsampled'[r] : p = <<r, n>>
  BY DEF RowsWith, BagToSet
<1>4. CASE t \notin S
  <2>1. \A r \in Rows(S) : t \notin r.of
    BY <1>4 DEF Rows
  <2>2. \A p : p \in RowsWith(t)' <=> p \in RowsWith(t)
    BY <1>1, <1>2, <1>3, <2>1
  <2>3. RowsWith(t)' = RowsWith(t)
    BY <2>2
  <2>4. QED
    BY <1>4, <2>3 DEF Copies
<1>5. CASE t \in S
  <2>. DEFINE r0 == [bucket |-> Truncate(t), of |-> {u \in S : Truncate(u) = Truncate(t)}]
  <2>1. r0 \in Rows(S) /\ t \in r0.of /\ \A r \in Rows(S) : t \in r.of => r = r0
    <3>1. r0 \in Rows(S)
      BY <1>5 DEF Rows
    <3>2. t \in r0.of
      BY <1>5
    <3>3. ASSUME NEW r \in Rows(S), t \in r.of PROVE r = r0
      <4>1. PICK b : r = [bucket |-> b, of |-> {u \in S : Truncate(u) = b}]
        BY DEF Rows
      <4>2. b = Truncate(t)
        BY <3>3, <4>1
      <4>3. QED
        BY <4>1, <4>2
    <3>4. QED
      BY <3>1, <3>2, <3>3
  <2>. HIDE DEF r0
  <2>2. PICK m : m = IF r0 \in DOMAIN downsampled THEN downsampled[r0] + 1 ELSE 1
    OBVIOUS
  <2>3. m \in Nat /\ downsampled'[r0] = m /\ m >= 1
    BY <1>0, <1>1, <2>1, <2>2
  <2>4. <<r0, m>> \notin RowsWith(t)
    BY <1>0, <1>2, <2>2
  <2>5. RowsWith(t)' \subseteq RowsWith(t) \cup {<<r0, m>>}
    <3>1. SUFFICES ASSUME NEW r \in DOMAIN downsampled', t \in r.of, NEW n \in 1 .. downsampled'[r]
                   PROVE  <<r, n>> \in RowsWith(t) \cup {<<r0, m>>}
      BY <1>3
    <3>2. CASE r = r0
      <4>1. n \in 1 .. m
        BY <2>3, <3>2
      <4>2. CASE n = m
        BY <3>2, <4>2
      <4>3. CASE n # m
        <5>1. r0 \in DOMAIN downsampled /\ n \in 1 .. downsampled[r0]
          BY <1>0, <2>2, <2>3, <4>1, <4>3
        <5>2. QED
          BY <1>2, <2>1, <3>2, <5>1
      <4>4. QED
        BY <4>2, <4>3
    <3>3. CASE r # r0
      BY <1>1, <1>2, <2>1, <3>1, <3>3
    <3>4. QED
      BY <3>2, <3>3
  <2>6. RowsWith(t) \cup {<<r0, m>>} \subseteq RowsWith(t)'
    <3>1. <<r0, m>> \in RowsWith(t)'
      BY <1>1, <1>3, <2>1, <2>3
    <3>2. ASSUME NEW r \in DOMAIN downsampled, t \in r.of, NEW n \in 1 .. downsampled[r]
          PROVE  <<r, n>> \in RowsWith(t)'
      <4>1. r \in DOMAIN downsampled' /\ n \in 1 .. downsampled'[r]
        BY <1>0, <1>1
      <4>2. QED
        BY <1>3, <3>2, <4>1
    <3>3. QED
      BY <1>2, <3>1, <3>2
  <2>7. RowsWith(t)' = RowsWith(t) \cup {<<r0, m>>}
    BY <2>5, <2>6
  <2>8. IsFiniteSet(RowsWith(t)') /\ Cardinality(RowsWith(t)') = Cardinality(RowsWith(t)) + 1
    BY <2>4, <2>7, FS_AddElement
  <2>9. QED
    BY <1>5, <2>8 DEF Copies
<1>6. QED
  BY <1>4, <1>5

\* What a step does to the counts of sample t when it only moves clean-ups, or
\* removes rows: a clean-up may start to hold t, or stop at the cost of a fault.
LEMMA QuietCount ==
    ASSUME TypeOK, faults' \in Nat, NEW t, Bounded(t), NEW c \in Runner,
           RowsWith(t)' \subseteq RowsWith(t),
           t \in raw' <=> t \in raw,
           t \notin raw => Inserting(t)' \subseteq Inserting(t),
           \/ faults' = faults /\ Deleting(t)' = Deleting(t)
           \/ faults' = faults + 1 /\ Deleting(t)' = Deleting(t) \ {c}
    PROVE  Bounded(t)'
<1>0. faults \in Nat
  BY RetentionAssumption DEF TypeOK
<1>1. /\ IsFiniteSet(RowsWith(t)') /\ Cardinality(RowsWith(t)') <= Cardinality(RowsWith(t))
      /\ Cardinality(RowsWith(t)') \in Nat /\ Cardinality(RowsWith(t)) \in Nat
  BY FS_Subset, FS_CardinalityType DEF Bounded
<1>2. CASE t \in raw
  <2>1. Cardinality(Deleting(t)) \in Nat
    BY HolderFacts
  <2>2. /\ Cardinality(Deleting(t)') \in Nat
        /\ Cardinality(Deleting(t)') + faults' >= Cardinality(Deleting(t)) + faults
    <3>1. CASE faults' = faults /\ Deleting(t)' = Deleting(t)
      BY <1>0, <2>1, <3>1
    <3>2. CASE faults' = faults + 1 /\ Deleting(t)' = Deleting(t) \ {c}
      <4>1. \/ Cardinality(Deleting(t)') = Cardinality(Deleting(t)) - 1
            \/ Cardinality(Deleting(t)') = Cardinality(Deleting(t))
        BY <3>2, HolderFacts, FS_RemoveElement
      <4>2. IsFiniteSet(Deleting(t)')
        BY <3>2, HolderFacts, FS_RemoveElement
      <4>3. Cardinality(Deleting(t)') \in Nat
        BY <4>2, FS_CardinalityType
      <4>4. QED
        BY <1>0, <2>1, <3>2, <4>1, <4>3
    <3>3. QED
      BY <3>1, <3>2
  <2>3. Cardinality(RowsWith(t)) <= Cardinality(Deleting(t)) + faults
    BY <1>2 DEF Bounded, Copies
  <2>4. Cardinality(RowsWith(t)') <= Cardinality(Deleting(t)') + faults'
    BY <1>0, <1>1, <2>1, <2>2, <2>3
  <2>5. QED
    BY <1>1, <1>2, <2>4 DEF Bounded, Copies
<1>3. CASE t \notin raw
  <2>1. Cardinality(Inserting(t)) \in Nat /\ Cardinality(Runner) \in Nat
    BY HolderFacts
  <2>2. Cardinality(Inserting(t)') \in Nat /\ Cardinality(Inserting(t)') <= Cardinality(Inserting(t))
    BY <1>3, HolderFacts, FS_Subset, FS_CardinalityType
  <2>3. Cardinality(RowsWith(t)) + Cardinality(Inserting(t)) <= Cardinality(Runner) + faults
    BY <1>3 DEF Bounded, Copies
  <2>4. faults' >= faults
    BY <1>0
  <2>5. Cardinality(RowsWith(t)') + Cardinality(Inserting(t)') <= Cardinality(Runner) + faults'
    BY <1>0, <1>1, <2>1, <2>2, <2>3, <2>4
  <2>6. QED
    BY <1>1, <1>3, <2>5 DEF Bounded, Copies
<1>4. QED
  BY <1>2, <1>3

\* When sample t leaves the raw table, the clean-ups that hold it account for
\* its copies.
LEMMA LeaveCount ==
    ASSUME TypeOK, NEW t, Bounded(t), t \in raw, t \notin raw',
           UNCHANGED <<downsampled, faults>>, Inserting(t)' = Inserting(t)
    PROVE  Bounded(t)'
<1>0. faults \in Nat
  BY RetentionAssumption DEF TypeOK
<1>1. RowsWith(t)' = RowsWith(t)
  BY DEF RowsWith, BagToSet
<1>2. IsFiniteSet(RowsWith(t)) /\ Cardinality(RowsWith(t)) \in Nat
  BY FS_CardinalityType DEF Bounded
<1>3. Cardinality(RowsWith(t)) <= Cardinality(Deleting(t)) + faults
  BY DEF Bounded, Copies
<1>4. Cardinality(RowsWith(t)) + Cardinality(Inserting(t)) <= Cardinality(Runner) + faults
  BY <1>0, <1>2, <1>3, HolderFacts
<1>5. QED
  BY <1>1, <1>2, <1>4 DEF Bounded, Copies

\* Every step keeps HeldInv.
LEMMA HeldStep ==
    ASSUME TypeOK, HeldInv, [Next]_vars
    PROVE  HeldInv'
<1>1. CASE InsertSample
  BY <1>1 DEF InsertSample, HeldInv
<1>2. CASE Tick \/ UNCHANGED vars
  BY <1>2 DEF Tick, vars, HeldInv
<1>3. ASSUME NEW c \in Runner, CleanupStep(c) \/ StatementFails(c) \/ Crash(c)
      PROVE  HeldInv'
  <2>. DEFINE Held == /\ run'[c].samples \subseteq recorded
                      /\ run'[c].at \in {"insert", "delete"} =>
                             \A t \in run'[c].samples : t < run'[c].cutoffDownsample
              Others == \A d \in Runner \ {c} : run'[d] = run[d]
              RowsRecorded == \A r \in BagToSet(downsampled') : r.of \subseteq recorded
  <2>0. run[c].samples \in SUBSET Time /\ \A x : Before(x) \in SUBSET Time
    BY DEF TypeOK, Cleanup, Before
  <2>1. CASE RunDownsampleCleanup(c) \/ Crash(c)
    <3>1. Held /\ Others
      BY <2>1 DEF RunDownsampleCleanup, Crash, Idle, TypeOK
    <3>2. recorded' = recorded /\ downsampled' = downsampled
      BY <2>1 DEF RunDownsampleCleanup, Crash
    <3>3. QED
      BY <3>1, <3>2 DEF HeldInv
  <2>2. CASE ReadSamples(c)
    <3>1. PICK at : GotoWith(c, at, Before(run[c].cutoffDownsample))
      BY <2>2 DEF ReadSamples
    <3>2. Held /\ Others
      BY <2>0, <3>1, GotoFacts DEF Before, TypeOK
    <3>3. recorded' = recorded /\ downsampled' = downsampled
      BY <2>2 DEF ReadSamples
    <3>4. QED
      BY <3>2, <3>3 DEF HeldInv
  <2>3. CASE InsertDownsamples(c)
    <3>1. BagToSet(downsampled') = BagToSet(downsampled) \cup Rows(run[c].samples)
      BY <2>3, InsertFacts DEF InsertDownsamples, TypeOK
    <3>2. GotoWith(c, "delete", run[c].samples) /\ run[c].at = "insert"
      BY <2>3 DEF InsertDownsamples, Goto
    <3>3. Held /\ Others
      BY <2>0, <3>2, GotoFacts DEF HeldInv
    <3>4. \A r \in Rows(run[c].samples) : r.of \subseteq run[c].samples
      BY DEF Rows
    <3>5. RowsRecorded
      BY <3>1, <3>4 DEF HeldInv
    <3>6. recorded' = recorded
      BY <2>3 DEF InsertDownsamples
    <3>7. QED
      BY <3>3, <3>5, <3>6 DEF HeldInv
  <2>4. CASE DeleteDownsampledRaw(c) \/ StatementFails(c)
    <3>1. PICK at \in {"deleteRaw", "deleteDownsampled", "idle"} : GotoWith(c, at, {})
      BY <2>4 DEF DeleteDownsampledRaw, StatementFails, TypeOK, Cleanup
    <3>2. Held /\ Others
      BY <3>1, GotoFacts
    <3>3. recorded' = recorded /\ downsampled' = downsampled
      BY <2>4 DEF DeleteDownsampledRaw, StatementFails
    <3>4. QED
      BY <3>2, <3>3 DEF HeldInv
  <2>5. CASE DeleteOldRawSamples(c)
    <3>1. GotoWith(c, "deleteDownsampled", run[c].samples)
      BY <2>5 DEF DeleteOldRawSamples, Goto
    <3>2. Held /\ Others
      BY <2>0, <3>1, GotoFacts DEF HeldInv
    <3>3. recorded' = recorded /\ downsampled' = downsampled
      BY <2>5 DEF DeleteOldRawSamples
    <3>4. QED
      BY <3>2, <3>3 DEF HeldInv
  <2>6. CASE DeleteOldDownsampled(c)
    <3>1. Held /\ Others
      BY <2>6 DEF DeleteOldDownsampled, Idle, TypeOK
    <3>2. BagToSet(downsampled') \subseteq BagToSet(downsampled)
      BY <2>6, RestrictFacts DEF DeleteOldDownsampled, TypeOK
    <3>3. recorded' = recorded
      BY <2>6 DEF DeleteOldDownsampled
    <3>4. QED
      BY <3>1, <3>2, <3>3 DEF HeldInv
  <2>7. QED
    BY <1>3, <2>1, <2>2, <2>3, <2>4, <2>5, <2>6 DEF CleanupStep
<1>4. QED
  BY <1>1, <1>2, <1>3 DEF Next

\* Every step keeps the bound of every sample.
LEMMA CopyStep ==
    ASSUME TypeOK, CopyInv, [Next]_vars, TypeOK'
    PROVE  CopyInv'
<1>. USE RetentionAssumption
<1>0. /\ HeldInv /\ HeldInv' /\ \A t \in recorded : Bounded(t)
      /\ faults \in Nat /\ faults' \in Nat /\ raw \subseteq recorded
  BY HeldStep DEF CopyInv, TypeOK
<1>1. CASE InsertSample
  <2>0. /\ UNCHANGED <<downsampled, run, faults>>
        /\ now \notin recorded /\ raw' = raw \cup {now} /\ recorded' = recorded \cup {now}
        /\ now' = now
    BY <1>1 DEF InsertSample
  <2>1. \A t : /\ RowsWith(t)' = RowsWith(t) /\ Inserting(t)' = Inserting(t)
              /\ Deleting(t)' = Deleting(t)
    BY <2>0 DEF RowsWith, Inserting, Deleting, BagToSet
  <2>2. ASSUME NEW t \in recorded PROVE Bounded(t)'
    <3>1. t \in raw' <=> t \in raw
      BY <2>0
    <3>2. QED
      BY <1>0, <2>0, <2>1, <3>1 DEF Bounded, Copies
  <2>3. ASSUME NEW t, t = now PROVE Bounded(t)'
    <3>1. RowsWith(t) = {}
      BY <1>0, <2>0, <2>3 DEF HeldInv, RowsWith
    <3>2. IsFiniteSet(RowsWith(t)') /\ Cardinality(RowsWith(t)') = 0
      BY <2>1, <3>1, FS_EmptySet
    <3>3. Cardinality(Deleting(t)') \in Nat /\ t \in raw'
      BY <2>0, <2>1, <2>3, HolderFacts
    <3>4. QED
      BY <1>0, <3>2, <3>3 DEF Bounded, Copies
  <2>4. QED
    BY <1>0, <2>0, <2>2, <2>3 DEF CopyInv
<1>2. CASE Tick \/ UNCHANGED vars
  <2>1. UNCHANGED <<raw, downsampled, run, recorded, faults>>
    BY <1>2 DEF Tick, vars
  <2>2. QED
    BY <1>0, <2>1 DEF CopyInv, Bounded, Copies, RowsWith, Inserting, Deleting, BagToSet
<1>3. ASSUME NEW c \in Runner, CleanupStep(c) \/ StatementFails(c) \/ Crash(c)
      PROVE  CopyInv'
  <2>0. /\ run[c].samples \in SUBSET Time /\ \A x : Before(x) \in SUBSET Time
        /\ recorded' = recorded /\ raw' \subseteq raw
    BY <1>3 DEF TypeOK, Cleanup, Before, CleanupStep, RunDownsampleCleanup, ReadSamples,
                InsertDownsamples, DeleteDownsampledRaw, DeleteOldRawSamples,
                DeleteOldDownsampled, StatementFails, Crash
  <2>1. SUFFICES ASSUME NEW t \in recorded PROVE Bounded(t)'
    BY <1>0, <2>0 DEF CopyInv
  <2>2. Bounded(t)
    BY <1>0
  <2>3. downsampled' = downsampled => RowsWith(t)' = RowsWith(t)
    BY DEF RowsWith, BagToSet
  <2>4. CASE RunDownsampleCleanup(c)
    <3>1. /\ \A d \in Runner \ {c} : run'[d] = run[d]
          /\ run[c].at = "idle" /\ run'[c].at = "read"
          /\ UNCHANGED <<raw, downsampled, faults>>
      BY <2>4 DEF RunDownsampleCleanup, TypeOK
    <3>2. Inserting(t)' = Inserting(t) /\ Deleting(t)' = Deleting(t)
      BY <3>1 DEF Inserting, Deleting
    <3>3. QED
      BY <1>0, <2>2, <2>3, <3>1, <3>2, QuietCount
  <2>5. CASE ReadSamples(c)
    <3>. DEFINE found == Before(run[c].cutoffDownsample)
    <3>1. PICK at \in {"deleteRaw", "insert"} : GotoWith(c, at, found)
      BY <2>5 DEF ReadSamples
    <3>2. /\ \A d \in Runner \ {c} : run'[d] = run[d]
          /\ run[c].at = "read" /\ run'[c].at \in {"deleteRaw", "insert"} /\ run'[c].samples = found
          /\ UNCHANGED <<raw, downsampled, faults>>
      BY <2>0, <2>5, <3>1, GotoFacts DEF ReadSamples
    <3>3. Deleting(t)' = Deleting(t)
      BY <3>2 DEF Deleting
    <3>4. t \notin raw => Inserting(t)' \subseteq Inserting(t)
      BY <3>2 DEF Inserting, Before
    <3>5. QED
      BY <1>0, <2>2, <2>3, <3>2, <3>3, <3>4, QuietCount
  <2>6. CASE InsertDownsamples(c)
    <3>1. GotoWith(c, "delete", run[c].samples)
      BY <2>6 DEF InsertDownsamples, Goto
    <3>2. /\ \A d \in Runner \ {c} : run'[d] = run[d]
          /\ run[c].at = "insert" /\ run'[c].at = "delete" /\ run'[c].samples = run[c].samples
          /\ UNCHANGED <<raw, faults>>
      BY <2>0, <2>6, <3>1, GotoFacts DEF InsertDownsamples
    <3>3. /\ IsFiniteSet(RowsWith(t)')
          /\ Copies(t)' = IF t \in run[c].samples THEN Copies(t) + 1 ELSE Copies(t)
      <4>1. downsampled' = downsampled (+) SetToBag(Rows(run[c].samples)) /\ IsFiniteSet(RowsWith(t))
        BY <2>2, <2>6 DEF InsertDownsamples, Bounded
      <4>2. QED
        BY <2>0, <4>1, InsertCopies
    <3>4. CASE t \notin run[c].samples
      <4>1. Inserting(t)' = Inserting(t) /\ Deleting(t)' = Deleting(t)
        BY <3>2, <3>4 DEF Inserting, Deleting
      <4>2. QED
        BY <2>2, <3>2, <3>3, <3>4, <4>1 DEF Bounded
    <3>5. CASE t \in run[c].samples
      <4>1. /\ Inserting(t)' = Inserting(t) \ {c} /\ c \in Inserting(t)
            /\ Deleting(t)' = Deleting(t) \cup {c} /\ c \notin Deleting(t)
        BY <3>2, <3>5 DEF Inserting, Deleting
      <4>2. Cardinality(Inserting(t)') = Cardinality(Inserting(t)) - 1
        BY <4>1, HolderFacts, FS_RemoveElement
      <4>3. Cardinality(Deleting(t)') = Cardinality(Deleting(t)) + 1
        BY <4>1, HolderFacts, FS_AddElement
      <4>4. Copies(t) \in Nat /\ Copies(t)' = Copies(t) + 1
        BY <2>2, <3>3, <3>5, FS_CardinalityType DEF Bounded, Copies
      <4>5. t \in raw' => Copies(t)' <= Cardinality(Deleting(t)') + faults'
        <5>1. t \in raw' => Copies(t) <= Cardinality(Deleting(t)) + faults
          BY <2>2, <3>2 DEF Bounded
        <5>2. QED
          BY <1>0, <3>2, <4>3, <4>4, <5>1, HolderFacts
      <4>6. t \notin raw' => Copies(t)' + Cardinality(Inserting(t)') <= Cardinality(Runner) + faults'
        <5>1. t \notin raw' => Copies(t) + Cardinality(Inserting(t)) <= Cardinality(Runner) + faults
          BY <2>2, <3>2 DEF Bounded
        <5>2. QED
          BY <1>0, <3>2, <4>2, <4>4, <5>1, HolderFacts
      <4>7. QED
        BY <3>3, <4>5, <4>6 DEF Bounded
    <3>6. QED
      BY <3>4, <3>5
  <2>7. CASE DeleteDownsampledRaw(c)
    <3>1. /\ \A d \in Runner \ {c} : run'[d] = run[d]
          /\ run[c].at = "delete" /\ run'[c].at = "deleteRaw"
          /\ raw' = raw \ Before(run[c].cutoffDownsample)
          /\ UNCHANGED <<downsampled, faults>>
      BY <2>7, GotoFacts DEF DeleteDownsampledRaw
    <3>2. Inserting(t)' = Inserting(t)
      BY <3>1 DEF Inserting
    <3>3. CASE t \in raw /\ t \notin raw'
      BY <2>2, <3>1, <3>2, <3>3, LeaveCount
    <3>4. CASE t \in raw'
      <4>1. t \notin run[c].samples
        BY <1>0, <3>1, <3>4 DEF HeldInv, Before
      <4>2. Deleting(t)' = Deleting(t)
        BY <3>1, <4>1 DEF Deleting
      <4>3. QED
        BY <1>0, <2>0, <2>2, <2>3, <3>1, <3>2, <3>4, <4>2, QuietCount
    <3>5. CASE t \notin raw
      <4>1. t \notin raw'
        BY <2>0, <3>5
      <4>2. QED
        BY <2>2, <2>3, <3>1, <3>2, <3>5, <4>1 DEF Bounded, Copies
    <3>6. QED
      BY <3>3, <3>4, <3>5
  <2>8. CASE DeleteOldRawSamples(c)
    <3>0. GotoWith(c, "deleteDownsampled", run[c].samples)
      BY <2>8 DEF DeleteOldRawSamples, Goto
    <3>1. /\ \A d \in Runner \ {c} : run'[d] = run[d]
          /\ run[c].at = "deleteRaw" /\ run'[c].at = "deleteDownsampled"
          /\ UNCHANGED <<downsampled, faults>>
      BY <2>0, <2>8, <3>0, GotoFacts DEF DeleteOldRawSamples
    <3>2. Inserting(t)' = Inserting(t) /\ Deleting(t)' = Deleting(t)
      BY <3>1 DEF Inserting, Deleting
    <3>3. CASE t \in raw /\ t \notin raw'
      BY <2>2, <3>1, <3>2, <3>3, LeaveCount
    <3>4. CASE t \in raw' \/ t \notin raw
      BY <1>0, <2>0, <2>2, <2>3, <3>1, <3>2, <3>4, QuietCount
    <3>5. QED
      BY <3>3, <3>4
  <2>9. CASE DeleteOldDownsampled(c)
    <3>1. /\ \A d \in Runner \ {c} : run'[d] = run[d]
          /\ run[c].at = "deleteDownsampled" /\ run'[c].at = "idle"
          /\ UNCHANGED <<raw, faults>>
      BY <2>9 DEF DeleteOldDownsampled, Idle, TypeOK
    <3>2. Inserting(t)' = Inserting(t) /\ Deleting(t)' = Deleting(t)
      BY <3>1 DEF Inserting, Deleting
    <3>3. /\ DOMAIN downsampled' \subseteq DOMAIN downsampled
          /\ \A r \in DOMAIN downsampled' : downsampled'[r] = downsampled[r]
      BY <2>9 DEF DeleteOldDownsampled, BagToSet
    <3>4. RowsWith(t)' \subseteq RowsWith(t)
      BY <3>3 DEF RowsWith, BagToSet
    <3>5. QED
      BY <1>0, <2>2, <3>1, <3>2, <3>4, QuietCount
  <2>10. CASE StatementFails(c)
    <3>1. PICK at \in {"deleteRaw", "deleteDownsampled", "idle"} : GotoWith(c, at, {})
      BY <2>10 DEF StatementFails, TypeOK, Cleanup
    <3>2. /\ \A d \in Runner \ {c} : run'[d] = run[d]
          /\ run'[c].at \in {"deleteRaw", "deleteDownsampled", "idle"}
          /\ UNCHANGED <<raw, downsampled>> /\ faults' = faults + 1
      BY <2>10, <3>1, GotoFacts DEF StatementFails
    <3>3. Inserting(t)' \subseteq Inserting(t) /\ Deleting(t)' = Deleting(t) \ {c}
      BY <3>2 DEF Inserting, Deleting
    <3>4. QED
      BY <1>0, <2>2, <2>3, <3>2, <3>3, QuietCount
  <2>11. CASE Crash(c)
    <3>1. /\ \A d \in Runner \ {c} : run'[d] = run[d]
          /\ run'[c].at = "idle"
          /\ UNCHANGED <<raw, downsampled>> /\ faults' = faults + 1
      BY <2>11 DEF Crash, Idle, TypeOK
    <3>2. Inserting(t)' \subseteq Inserting(t) /\ Deleting(t)' = Deleting(t) \ {c}
      BY <3>1 DEF Inserting, Deleting
    <3>3. QED
      BY <1>0, <2>2, <2>3, <3>1, <3>2, QuietCount
  <2>12. QED
    BY <1>3, <2>4, <2>5, <2>6, <2>7, <2>8, <2>9, <2>10, <2>11 DEF CleanupStep
<1>4. QED
  BY <1>1, <1>2, <1>3 DEF Next

\* The bound holds of every sample in every reachable state.
LEMMA CopyInvariant == Spec => [](TypeOK /\ CopyInv)
<1>1. Init => CopyInv
  BY DEF Init, CopyInv, HeldInv, Idle, EmptyBag, SetToBag, BagToSet
<1>2. QED
  BY <1>1, TypeInit, TypeStep, CopyStep, PTL DEF Spec

\* For any number of overlapping clean-ups, failed statements and crashes, the
\* lack of a transaction in runDownsampleCleanup counts a sample at most once
\* for each clean-up and once more for each fault.
THEOREM DoubleCountingBounded == Spec => []CopiesBounded
<1>1. ASSUME TypeOK, CopyInv PROVE CopiesBounded
  <2>1. SUFFICES ASSUME NEW t \in recorded PROVE Copies(t) <= Cardinality(Runner) + faults
    BY DEF CopiesBounded
  <2>2. Bounded(t) /\ faults \in Nat
    BY <1>1, RetentionAssumption DEF CopyInv, TypeOK
  <2>3. Copies(t) \in Nat
    BY <2>2, FS_CardinalityType DEF Bounded, Copies
  <2>4. QED
    BY <2>2, <2>3, HolderFacts DEF Bounded
<1>2. QED
  BY <1>1, CopyInvariant, PTL

-----------------------------------------------------------------------------
\* Collection: types.

\* The gate is held exactly while a collection is somewhere.
GateInv == \A n \in Collecting : gate[n] = None <=> step[n] = "none"

\* Counters and ages stay within their bounds.
LEMMA BoundFacts ==
    /\ \A k \in Nat : Capped(k) \in 0 .. FailThreshold
    /\ \A k \in Nat : k < FailThreshold => Capped(k) = k
    /\ \A k \in Nat : k >= FailThreshold => Capped(k) = FailThreshold
    /\ \A a \in Ages \cup {None} : Older(a) \in Ages \cup {None}
    /\ 0 \in Ages /\ 0 \in 0 .. FailThreshold /\ None \notin Ages
<1>. QED
  BY CollectorAssumption DEF Capped, Ages, AgeCap, Older

\* Where SetFailCount writes, and where it does not.
LEMMA SetFacts ==
    ASSUME CollectorTypeOK, NEW c \in Channel, NEW k \in 0 .. FailThreshold, SetFailCount(c, k)
    PROVE  /\ failCount' \in [Channel -> 0 .. FailThreshold]
           /\ \A d \in Channel \ {c} : failCount'[d] = failCount[d]
           /\ failCount'[c] = IF row[c] = "present" THEN k ELSE failCount[c]
<1>. QED
  BY DEF SetFailCount, CollectorTypeOK

\* Every step keeps the types and GateInv.
LEMMA CollectorTypeStep ==
    ASSUME CollectorTypeOK, GateInv, [CollectorNext]_collectorVars
    PROVE  CollectorTypeOK' /\ GateInv'
<1>. USE CollectorAssumption DEF channels, counts, host, cycle
<1>1. ASSUME NEW c \in Channel,
             \/ \E t \in Type : CreateCheck(c, t)
             \/ CreateInsert(c) \/ GenerateKeypair(c)
             \/ \E on \in BOOLEAN : SetEnabled(c, on)
             \/ DeleteChannel(c)
      PROVE  CollectorTypeOK' /\ GateInv'
  <2>1. ASSUME NEW t \in Type, CreateCheck(c, t) PROVE CollectorTypeOK'
    BY <2>1 DEF CreateCheck, CollectorTypeOK
  <2>0. \A b \in BOOLEAN : [enabled EXCEPT ![c] = b] \in [Channel -> BOOLEAN]
    BY DEF CollectorTypeOK
  <2>2. ASSUME CreateInsert(c) PROVE CollectorTypeOK'
    <3>1. enabled' \in [Channel -> BOOLEAN]
      BY <2>0, <2>2, Zenon DEF CreateInsert
    <3>2. QED
      BY <2>2, <3>1 DEF CreateInsert, CollectorTypeOK
  <2>3. ASSUME GenerateKeypair(c) PROVE CollectorTypeOK'
    <3>1. enabled' \in [Channel -> BOOLEAN]
      BY <2>0, <2>3, Zenon DEF GenerateKeypair
    <3>2. QED
      BY <2>3, <3>1 DEF GenerateKeypair, CollectorTypeOK
  <2>4. ASSUME NEW on \in BOOLEAN, SetEnabled(c, on) PROVE CollectorTypeOK'
    <3>1. enabled' \in [Channel -> BOOLEAN]
      BY <2>0, <2>4, Zenon DEF SetEnabled
    <3>2. QED
      BY <2>4, <3>1 DEF SetEnabled, CollectorTypeOK
  <2>5. ASSUME DeleteChannel(c) PROVE CollectorTypeOK'
    BY <2>5 DEF DeleteChannel, CollectorTypeOK
  <2>6. gate' = gate /\ step' = step
    BY <1>1 DEF CreateCheck, CreateInsert, GenerateKeypair, SetEnabled, DeleteChannel
  <2>7. QED
    BY <1>1, <2>1, <2>2, <2>3, <2>4, <2>5, <2>6 DEF GateInv
<1>2. ASSUME NEW n \in Collecting, CollectCycle(n) PROVE CollectorTypeOK' /\ GateInv'
  BY <1>2 DEF CollectCycle, CollectorTypeOK, GateInv
<1>3. ASSUME NEW n \in Collecting, NEW c \in Channel, CollectHost(n, c) PROVE CollectorTypeOK' /\ GateInv'
  <2>1. CollectorTypeOK'
    <3>1. jobs' \in [Collecting -> SUBSET Channel]
      BY <1>3 DEF CollectHost, CollectorTypeOK
    <3>2. /\ gate' \in [Collecting -> Channel \cup {None}]
          /\ step' \in [Collecting -> {"none", "collect", "disable", "reset", "alerts"}]
      <4>1. CASE gate[n] = None
        <5>1. gate' = [gate EXCEPT ![n] = c] /\ step' = [step EXCEPT ![n] = "collect"]
          BY <1>3, <4>1 DEF CollectHost
        <5>2. QED
          BY <5>1 DEF CollectorTypeOK
      <4>2. CASE gate[n] # None
        BY <1>3, <4>2 DEF CollectHost, CollectorTypeOK
      <4>3. QED
        BY <4>1, <4>2
    <3>3. QED
      BY <1>3, <3>1, <3>2 DEF CollectHost, CollectorTypeOK
  <2>2. GateInv'
    BY <1>3 DEF CollectHost, CollectorTypeOK, GateInv
  <2>3. QED
    BY <2>1, <2>2
<1>4. ASSUME NEW n \in Collecting, Leave(n)
      PROVE  /\ gate' \in [Collecting -> Channel \cup {None}]
             /\ step' \in [Collecting -> {"none", "collect", "disable", "reset", "alerts"}]
             /\ GateInv'
  BY <1>4 DEF Leave, CollectorTypeOK, GateInv
<1>5. ASSUME NEW n \in Collecting, CollectFails(n) PROVE CollectorTypeOK' /\ GateInv'
  <2>. DEFINE c == gate[n]
              k == Capped(snapshot[n][c] + 1)
  <2>1. c \in Channel /\ snapshot[n][c] + 1 \in Nat /\ failures[c] + 1 \in Nat
    BY <1>5 DEF CollectFails, CollectorTypeOK, GateInv
  <2>2. k \in 0 .. FailThreshold /\ Capped(failures[c] + 1) \in 0 .. FailThreshold
    BY <2>1, BoundFacts
  <2>3. failCount' \in [Channel -> 0 .. FailThreshold]
    BY <1>5, <2>1, <2>2, SetFacts DEF CollectFails
  <2>4. failures' \in [Channel -> 0 .. FailThreshold]
    BY <1>5, <2>1, <2>2 DEF CollectFails, CollectorTypeOK
  <2>5. \/ Leave(n)
        \/ step' = [step EXCEPT ![n] = "disable"] /\ gate' = gate
    BY <1>5 DEF CollectFails
  <2>6. /\ gate' \in [Collecting -> Channel \cup {None}]
        /\ step' \in [Collecting -> {"none", "collect", "disable", "reset", "alerts"}]
        /\ GateInv'
    BY <1>4, <2>1, <2>5 DEF CollectorTypeOK, GateInv
  <2>7. QED
    BY <1>5, <2>3, <2>4, <2>6 DEF CollectFails, CollectorTypeOK
<1>6. ASSUME NEW n \in Collecting, DisableChannel(n) PROVE CollectorTypeOK' /\ GateInv'
  <2>1. gate[n] \in Channel
    BY <1>6 DEF DisableChannel, CollectorTypeOK, GateInv
  <2>2. (enabled[gate[n]] /\ row[gate[n]] # "present") \in BOOLEAN
    OBVIOUS
  <2>3. enabled' \in [Channel -> BOOLEAN]
    BY <1>6, <2>1, <2>2 DEF DisableChannel, CollectorTypeOK
  <2>4. QED
    BY <1>4, <1>6, <2>3 DEF DisableChannel, CollectorTypeOK
<1>7. ASSUME NEW n \in Collecting, SaveFails(n) PROVE CollectorTypeOK' /\ GateInv'
  BY <1>4, <1>7 DEF SaveFails, CollectorTypeOK
<1>8. ASSUME NEW n \in Collecting, CollectSucceeds(n) PROVE CollectorTypeOK' /\ GateInv'
  <2>1. CollectorTypeOK'
    BY <1>8, BoundFacts DEF CollectSucceeds, CollectorTypeOK
  <2>2. GateInv'
    BY <1>8 DEF CollectSucceeds, CollectorTypeOK, GateInv
  <2>3. QED
    BY <2>1, <2>2
<1>9. ASSUME NEW n \in Collecting, ResetFailCount(n) PROVE CollectorTypeOK' /\ GateInv'
  <2>1. gate[n] \in Channel
    BY <1>9 DEF ResetFailCount, CollectorTypeOK, GateInv
  <2>2. failCount' \in [Channel -> 0 .. FailThreshold]
    BY <1>9, <2>1, BoundFacts, SetFacts DEF ResetFailCount
  <2>3. CollectorTypeOK'
    BY <1>9, <2>2 DEF ResetFailCount, CollectorTypeOK
  <2>4. GateInv'
    BY <1>9 DEF ResetFailCount, CollectorTypeOK, GateInv
  <2>5. QED
    BY <2>3, <2>4
<1>10. ASSUME NEW n \in Collecting, EvaluateAlerts(n) PROVE CollectorTypeOK' /\ GateInv'
  BY <1>4, <1>10 DEF EvaluateAlerts, CollectorTypeOK
<1>11. ASSUME NEW n \in Node, OfflineSelect(n) \/ OfflineUpdate(n) PROVE CollectorTypeOK' /\ GateInv'
  <2>1. ASSUME OfflineSelect(n) PROVE CollectorTypeOK'
    BY <2>1 DEF OfflineSelect, CollectorTypeOK
  <2>2. ASSUME OfflineUpdate(n) PROVE CollectorTypeOK'
    BY <2>2 DEF OfflineUpdate, CollectorTypeOK
  <2>3. gate' = gate /\ step' = step
    BY <1>11 DEF OfflineSelect, OfflineUpdate
  <2>4. QED
    BY <1>11, <2>1, <2>2, <2>3 DEF GateInv
<1>12. CASE AgentReport
  BY <1>12, BoundFacts DEF AgentReport, CollectorTypeOK, GateInv
<1>13. CASE Minute
  BY <1>13, BoundFacts DEF Minute, CollectorTypeOK, GateInv
<1>14. CASE UNCHANGED collectorVars
  BY <1>14 DEF collectorVars, CollectorTypeOK, GateInv
<1>15. QED
  BY <1>1, <1>2, <1>3, <1>5, <1>6, <1>7, <1>8, <1>9, <1>10, <1>11, <1>12, <1>13, <1>14
     DEF CollectorNext, Collection

\* The variables have their types in every reachable state.
THEOREM CollectorTypeCorrect == CollectorSpec => []CollectorTypeOK
<1>1. CollectorInit => CollectorTypeOK /\ GateInv
  BY CollectorAssumption DEF CollectorInit, CollectorTypeOK, GateInv
<1>2. QED
  BY <1>1, CollectorTypeStep, PTL DEF CollectorSpec

-----------------------------------------------------------------------------
\* Collection: the offline checker.

\* While a host that is silent for too long is shown as online, every checker
\* is about to look at it or has selected it.
CheckInv ==
    status = "online" /\ Silent => \A n \in Node : "check" \in due[n] \/ n \in selected

\* Every step keeps CheckInv and OnlineIsFresh: a minute goes by only when every
\* checker is done, and after it every checker is due again.
LEMMA FreshStep ==
    ASSUME CollectorTypeOK, CheckInv, OnlineIsFresh, [CollectorNext]_collectorVars
    PROVE  CheckInv' /\ OnlineIsFresh'
<1>. USE CollectorAssumption DEF channels, counts, host, cycle
<1>1. ASSUME UNCHANGED <<host, due, selected>> PROVE CheckInv' /\ OnlineIsFresh'
  BY <1>1 DEF CheckInv, OnlineIsFresh, Silent
<1>2. ASSUME NEW c \in Channel,
             \/ \E t \in Type : CreateCheck(c, t)
             \/ CreateInsert(c) \/ GenerateKeypair(c)
             \/ \E on \in BOOLEAN : SetEnabled(c, on)
             \/ DeleteChannel(c)
      PROVE  CheckInv' /\ OnlineIsFresh'
  BY <1>1, <1>2 DEF CreateCheck, CreateInsert, GenerateKeypair, SetEnabled, DeleteChannel
<1>3. ASSUME NEW n \in Collecting, CollectCycle(n) PROVE CheckInv' /\ OnlineIsFresh'
  <2>1. status' = status /\ hbAge' = hbAge /\ selected' = selected
    BY <1>3 DEF CollectCycle
  <2>2. \A m \in Node : "check" \in due[m] => "check" \in due'[m]
    BY <1>3 DEF CollectCycle, CollectorTypeOK
  <2>3. QED
    BY <2>1, <2>2 DEF CheckInv, OnlineIsFresh, Silent
<1>4. ASSUME NEW n \in Collecting, CollectFails(n) \/ DisableChannel(n) \/ SaveFails(n) \/ ResetFailCount(n)
                                  \/ EvaluateAlerts(n)
      PROVE  CheckInv' /\ OnlineIsFresh'
  BY <1>1, <1>4 DEF CollectFails, DisableChannel, SaveFails, ResetFailCount, EvaluateAlerts
<1>5. ASSUME NEW n \in Collecting, NEW c \in Channel, CollectHost(n, c) PROVE CheckInv' /\ OnlineIsFresh'
  BY <1>1, <1>5 DEF CollectHost
<1>6. ASSUME status' = "online", hbAge' = 0 PROVE CheckInv' /\ OnlineIsFresh'
  BY <1>6 DEF CheckInv, OnlineIsFresh, Silent
<1>7. ASSUME NEW n \in Collecting, CollectSucceeds(n) PROVE CheckInv' /\ OnlineIsFresh'
  BY <1>6, <1>7 DEF CollectSucceeds
<1>8. CASE AgentReport
  BY <1>6, <1>8 DEF AgentReport
<1>9. ASSUME NEW n \in Node, OfflineSelect(n) PROVE CheckInv' /\ OnlineIsFresh'
  BY <1>9 DEF OfflineSelect, CheckInv, OnlineIsFresh, Silent, CollectorTypeOK
<1>10. ASSUME NEW n \in Node, OfflineUpdate(n) PROVE CheckInv' /\ OnlineIsFresh'
  BY <1>10 DEF OfflineUpdate, CheckInv, OnlineIsFresh
<1>11. CASE Minute
  <2>1. status = "online" => ~ Silent
    BY <1>11 DEF Minute, CheckInv
  <2>2. status' = "online" => hbAge' # None /\ hbAge' <= OfflineAfter + 1
    BY <1>11, <2>1 DEF Minute, OnlineIsFresh, Silent, Older, Ages, AgeCap, CollectorTypeOK
  <2>3. \A n \in Node : "check" \in due'[n]
    BY <1>11 DEF Minute
  <2>4. QED
    BY <2>2, <2>3 DEF CheckInv, OnlineIsFresh
<1>12. CASE UNCHANGED collectorVars
  BY <1>1, <1>12 DEF collectorVars
<1>13. QED
  BY <1>2, <1>3, <1>4, <1>5, <1>7, <1>8, <1>9, <1>10, <1>11, <1>12 DEF CollectorNext, Collection

\* A host shown as online has been heard of within the offline threshold plus
\* one period of the checker, for any number of servers, thresholds and
\* channels (checkOfflineHosts).
THEOREM OnlineFresh == CollectorSpec => []OnlineIsFresh
<1>1. CollectorInit => CollectorTypeOK /\ GateInv /\ CheckInv /\ OnlineIsFresh
  BY CollectorAssumption DEF CollectorInit, CollectorTypeOK, GateInv, CheckInv, OnlineIsFresh
<1>2. QED
  BY <1>1, CollectorTypeStep, FreshStep, PTL DEF CollectorSpec

-----------------------------------------------------------------------------
\* Collection: giving a channel up.

\* At most one server runs the CollectorScheduler.
OneScheduler == \A m, n \in Collecting : m = n

\* A row that is not inserted yet has no failures on its account.
AbsentInv == \A c \in Channel : row[c] \in {"absent", "checked"} => failCount[c] = 0

\* fail_count never runs ahead of the failures, except between a success and
\* its update of the row.
CountedInv ==
    \A c \in Channel : row[c] = "present" =>
        \/ failCount[c] <= failures[c]
        \/ \E n \in Collecting : step[n] = "reset" /\ gate[n] = c

\* Neither does the value that the cycle has read, until it is used.
SnapshotInv ==
    \A n \in Collecting : \A c \in Channel :
        c \in jobs[n] \/ (gate[n] = c /\ step[n] = "collect") => snapshot[n][c] <= failures[c]

\* What is about to be switched off has failed often enough.
GiveUpInv == \A n \in Collecting : step[n] = "disable" => failures[gate[n]] >= FailThreshold

\* A channel is collected through once in a cycle.
CycleInv == \A n \in Collecting : gate[n] \notin jobs[n]

FailInv == AbsentInv /\ CountedInv /\ SnapshotInv /\ GiveUpInv /\ CycleInv

\* Steps that touch neither the counters nor the collection keep FailInv, as
\* long as no row comes to exist with failures on its account.
LEMMA FailKept ==
    ASSUME FailInv, UNCHANGED <<counts, cycle>>,
           \A c \in Channel : \/ row'[c] = row[c] \/ row'[c] = "deleted"
                             \/ row[c] \in {"absent", "checked"},
           CollectorTypeOK
    PROVE  FailInv'
<1>. USE DEF counts, cycle
<1>1. AbsentInv'
  BY DEF FailInv, AbsentInv
<1>2. CountedInv'
  <2>. SUFFICES ASSUME NEW c \in Channel, row'[c] = "present"
                PROVE  failCount[c] <= failures[c] \/ \E n \in Collecting : step[n] = "reset" /\ gate[n] = c
    BY DEF CountedInv
  <2>1. CASE row[c] = "present"
    BY <2>1 DEF FailInv, CountedInv
  <2>2. CASE row[c] # "present"
    <3>1. failCount[c] = 0 /\ failures[c] \in Nat
      BY <2>2, CollectorAssumption DEF FailInv, AbsentInv, CollectorTypeOK
    <3>2. QED
      BY <3>1
  <2>3. QED
    BY <2>1, <2>2
<1>3. SnapshotInv' /\ GiveUpInv'
  BY DEF FailInv, SnapshotInv, GiveUpInv
<1>4. CycleInv'
  BY DEF FailInv, CycleInv
<1>5. QED
  BY <1>1, <1>2, <1>3, <1>4 DEF FailInv

\* Every step of a system with one scheduler keeps FailInv.
LEMMA FailStep ==
    ASSUME OneScheduler, CollectorTypeOK, GateInv, FailInv, [CollectorNext]_collectorVars
    PROVE  FailInv'
<1>. USE CollectorAssumption DEF channels, counts, host, cycle
<1>1. ASSUME NEW c \in Channel,
             \/ \E t \in Type : CreateCheck(c, t)
             \/ CreateInsert(c) \/ GenerateKeypair(c)
             \/ \E on \in BOOLEAN : SetEnabled(c, on)
             \/ DeleteChannel(c)
      PROVE  FailInv'
  <2>1. UNCHANGED <<counts, cycle, due>>
    BY <1>1 DEF CreateCheck, CreateInsert, GenerateKeypair, SetEnabled, DeleteChannel
  <2>2. \A d \in Channel : \/ row'[d] = row[d] \/ row'[d] = "deleted"
                          \/ row[d] \in {"absent", "checked"}
    BY <1>1 DEF CreateCheck, CreateInsert, GenerateKeypair, SetEnabled, DeleteChannel, CollectorTypeOK
  <2>3. QED
    BY <2>1, <2>2, FailKept
<1>2. ASSUME NEW n \in Node, OfflineSelect(n) \/ OfflineUpdate(n) PROVE FailInv'
  <2>1. UNCHANGED <<row, counts, cycle>>
    BY <1>2 DEF OfflineSelect, OfflineUpdate
  <2>2. QED
    BY <2>1, FailKept
<1>3. CASE AgentReport
  BY <1>3, FailKept DEF AgentReport
<1>4. CASE Minute
  BY <1>4, FailKept DEF Minute
<1>5. CASE UNCHANGED collectorVars
  BY <1>5, FailKept DEF collectorVars
<1>6. ASSUME NEW n \in Collecting, CollectCycle(n) PROVE FailInv'
  <2>1. /\ UNCHANGED <<channels, counts, gate, step>> /\ gate[n] = None /\ step[n] = "none"
        /\ \A m \in Collecting : m = n
    BY <1>6 DEF CollectCycle, GateInv, OneScheduler
  <2>2. snapshot'[n] = failCount /\ jobs'[n] \subseteq {c \in Channel : row[c] = "present"}
    BY <1>6 DEF CollectCycle, Usable, CollectorTypeOK
  <2>3. AbsentInv' /\ CountedInv' /\ GiveUpInv'
    BY <2>1 DEF FailInv, AbsentInv, CountedInv, GiveUpInv
  <2>4. SnapshotInv'
    BY <2>1, <2>2 DEF FailInv, CountedInv, SnapshotInv
  <2>5. CycleInv'
    BY <2>1, <2>2 DEF CycleInv
  <2>6. QED
    BY <2>3, <2>4, <2>5 DEF FailInv
<1>7. ASSUME NEW n \in Collecting, NEW c \in Channel, CollectHost(n, c) PROVE FailInv'
  <2>1. /\ UNCHANGED <<channels, counts, snapshot, due>> /\ c \in jobs[n]
        /\ \A m \in Collecting : m = n
    BY <1>7 DEF CollectHost, OneScheduler
  <2>2. jobs'[n] = jobs[n] \ {c}
    BY <1>7 DEF CollectHost, CollectorTypeOK
  <2>3. \/ gate[n] = None /\ step[n] = "none" /\ gate'[n] = c /\ step'[n] = "collect"
        \/ gate' = gate /\ step' = step
    BY <1>7 DEF CollectHost, CollectorTypeOK, GateInv
  <2>4. AbsentInv' /\ GiveUpInv'
    BY <2>1, <2>3 DEF FailInv, AbsentInv, GiveUpInv
  <2>5. CountedInv'
    BY <2>1, <2>3 DEF FailInv, CountedInv
  <2>6. SnapshotInv'
    BY <2>1, <2>2, <2>3 DEF FailInv, SnapshotInv
  <2>7. CycleInv'
    BY <2>1, <2>2, <2>3 DEF FailInv, CycleInv
  <2>8. QED
    BY <2>4, <2>5, <2>6, <2>7 DEF FailInv
<1>8. ASSUME NEW n \in Collecting, Leave(n)
      PROVE  gate'[n] = None /\ step'[n] = "none"
  BY <1>8 DEF Leave, CollectorTypeOK
<1>9. ASSUME NEW n \in Collecting, CollectFails(n) PROVE FailInv'
  <2>. DEFINE c == gate[n]
              k == Capped(snapshot[n][c] + 1)
  <2>1. /\ c \in Channel /\ step[n] = "collect" /\ UNCHANGED <<channels, jobs, snapshot, due>>
        /\ \A m \in Collecting : m = n
    BY <1>9 DEF CollectFails, CollectorTypeOK, GateInv, OneScheduler
  <2>2. /\ snapshot[n][c] \in 0 .. FailThreshold /\ failures[c] \in 0 .. FailThreshold
        /\ snapshot[n][c] <= failures[c]
    BY <2>1 DEF FailInv, SnapshotInv, CollectorTypeOK
  <2>3. k \in 0 .. FailThreshold /\ k <= Capped(failures[c] + 1) /\ failures[c] <= Capped(failures[c] + 1)
    BY <2>2 DEF Capped
  <2>4. /\ failures'[c] = Capped(failures[c] + 1)
        /\ \A d \in Channel \ {c} : failures'[d] = failures[d]
    BY <1>9, <2>1 DEF CollectFails, CollectorTypeOK
  <2>5. /\ failCount'[c] = IF row[c] = "present" THEN k ELSE failCount[c]
        /\ \A d \in Channel \ {c} : failCount'[d] = failCount[d]
    <3>1. SetFailCount(c, k)
      BY <1>9 DEF CollectFails
    <3>2. QED
      BY <2>1, <2>3, <3>1, SetFacts
  <2>6. \/ gate'[n] = None /\ step'[n] = "none"
        \/ gate' = gate /\ step'[n] = "disable" /\ k >= FailThreshold
    <3>1. CASE GiveUp(k)
      BY <1>9, <3>1 DEF CollectFails, GiveUp, CollectorTypeOK
    <3>2. CASE ~ GiveUp(k)
      BY <1>8, <1>9, <3>2 DEF CollectFails
    <3>3. QED
      BY <3>1, <3>2
  <2>. HIDE DEF k
  <2>7. AbsentInv'
    BY <2>1, <2>5 DEF FailInv, AbsentInv
  <2>8. CountedInv'
    BY <2>1, <2>3, <2>4, <2>5 DEF FailInv, CountedInv
  <2>9. SnapshotInv'
    <3>1. \A d \in Channel : failures[d] <= failures'[d]
      BY <2>2, <2>3, <2>4 DEF CollectorTypeOK
    <3>2. \A d \in Channel : failures[d] \in Nat /\ failures'[d] \in Nat /\ snapshot[n][d] \in Nat
      <4>1. Capped(failures[c] + 1) \in Nat
        BY <2>2 DEF Capped
      <4>2. QED
        BY <2>4, <4>1 DEF CollectorTypeOK
    <3>3. QED
      BY <2>1, <2>6, <3>1, <3>2 DEF FailInv, SnapshotInv
  <2>10. GiveUpInv'
    <3>1. Capped(failures[c] + 1) \in Nat
      BY <2>2 DEF Capped
    <3>2. QED
      BY <2>1, <2>3, <2>4, <2>6, <3>1 DEF GiveUpInv
  <2>11. CycleInv'
    BY <2>1, <2>6 DEF FailInv, CycleInv, CollectorTypeOK
  <2>12. QED
    BY <2>7, <2>8, <2>9, <2>10, <2>11 DEF FailInv
<1>10. ASSUME NEW n \in Collecting, DisableChannel(n) \/ SaveFails(n) \/ EvaluateAlerts(n) PROVE FailInv'
  <2>1. /\ step[n] # "reset" /\ UNCHANGED <<row, counts, jobs, snapshot, due>> /\ Leave(n)
        /\ \A m \in Collecting : m = n
    BY <1>10 DEF DisableChannel, SaveFails, EvaluateAlerts, OneScheduler
  <2>2. gate'[n] = None /\ step'[n] = "none"
    BY <1>8, <2>1
  <2>3. AbsentInv' /\ GiveUpInv'
    BY <2>1, <2>2 DEF FailInv, AbsentInv, GiveUpInv
  <2>4. CountedInv' /\ SnapshotInv'
    BY <2>1, <2>2 DEF FailInv, CountedInv, SnapshotInv
  <2>5. CycleInv'
    BY <2>1, <2>2 DEF FailInv, CycleInv, CollectorTypeOK
  <2>6. QED
    BY <2>3, <2>4, <2>5 DEF FailInv
<1>11. ASSUME NEW n \in Collecting, CollectSucceeds(n) PROVE FailInv'
  <2>1. /\ gate[n] \in Channel /\ UNCHANGED <<channels, failCount, jobs, snapshot, gate, due>>
        /\ step[n] = "collect" /\ step'[n] = "reset" /\ \A m \in Collecting : m = n
    BY <1>11 DEF CollectSucceeds, CollectorTypeOK, GateInv, OneScheduler
  <2>2. \A d \in Channel \ {gate[n]} : failures'[d] = failures[d]
    BY <1>11 DEF CollectSucceeds, CollectorTypeOK
  <2>3. AbsentInv' /\ GiveUpInv'
    BY <2>1 DEF FailInv, AbsentInv, GiveUpInv
  <2>4. CountedInv'
    BY <2>1, <2>2 DEF FailInv, CountedInv
  <2>5. SnapshotInv' /\ CycleInv'
    BY <2>1, <2>2 DEF FailInv, SnapshotInv, CycleInv
  <2>6. QED
    BY <2>3, <2>4, <2>5 DEF FailInv
<1>12. ASSUME NEW n \in Collecting, ResetFailCount(n) PROVE FailInv'
  <2>1. /\ gate[n] \in Channel /\ UNCHANGED <<channels, failures, jobs, snapshot, due>>
        /\ step[n] = "reset" /\ \A m \in Collecting : m = n
    BY <1>12 DEF ResetFailCount, CollectorTypeOK, GateInv, OneScheduler
  <2>2. gate' = gate /\ step'[n] = "alerts"
    BY <1>12 DEF ResetFailCount, CollectorTypeOK
  <2>3. /\ failCount'[gate[n]] = IF row[gate[n]] = "present" THEN 0 ELSE failCount[gate[n]]
        /\ \A d \in Channel \ {gate[n]} : failCount'[d] = failCount[d]
    <3>1. SetFailCount(gate[n], 0) /\ 0 \in 0 .. FailThreshold
      BY <1>12, BoundFacts DEF ResetFailCount
    <3>2. QED
      BY <2>1, <3>1, SetFacts
  <2>4. AbsentInv' /\ GiveUpInv'
    BY <2>1, <2>2, <2>3 DEF FailInv, AbsentInv, GiveUpInv
  <2>5. CountedInv'
    <3>1. \A d \in Channel : failures[d] \in Nat
      BY DEF CollectorTypeOK
    <3>2. QED
      BY <2>1, <2>2, <2>3, <3>1 DEF FailInv, CountedInv
  <2>6. SnapshotInv'
    BY <2>1, <2>2 DEF FailInv, SnapshotInv
  <2>7. CycleInv'
    BY <2>1, <2>2 DEF FailInv, CycleInv, CollectorTypeOK
  <2>8. QED
    BY <2>4, <2>5, <2>6, <2>7 DEF FailInv
<1>13. QED
  BY <1>1, <1>2, <1>3, <1>4, <1>5, <1>6, <1>7, <1>9, <1>10, <1>11, <1>12 DEF CollectorNext, Collection

\* With one scheduler at work a channel is switched off only after
\* channelFailThreshold failed collections in a row, whatever the administrator
\* does between the statements of the scheduler (collectHost).
THEOREM DisabledAfterFailures == OneScheduler => (CollectorSpec => DisabledOnlyAfterFailures)
<1>. SUFFICES ASSUME OneScheduler PROVE CollectorSpec => DisabledOnlyAfterFailures
  OBVIOUS
<1>1. CollectorInit => CollectorTypeOK /\ GateInv /\ FailInv
  BY CollectorAssumption
     DEF CollectorInit, CollectorTypeOK, GateInv, FailInv, AbsentInv, CountedInv, SnapshotInv, GiveUpInv, CycleInv
<1>2. CollectorTypeOK /\ GateInv /\ FailInv /\ [CollectorNext]_collectorVars => (CollectorTypeOK /\ GateInv /\ FailInv)'
  BY CollectorTypeStep, FailStep
<1>3. FailInv => [\A n \in Collecting : DisableChannel(n) => failures[gate[n]] >= FailThreshold]_collectorVars
  BY DEF FailInv, GiveUpInv, DisableChannel
<1>4. QED
  BY <1>1, <1>2, <1>3, PTL DEF CollectorSpec, DisabledOnlyAfterFailures

=============================================================================
