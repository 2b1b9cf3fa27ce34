------------------------ MODULE TelemetryStore_proofs ------------------------
(***************************************************************************)
(* Proofs about TelemetryStore for every retention, period and bound: a    *)
(* received sample stays somewhere in the backend until it is pruned or    *)
(* the process ends, prune deletes only what has been rolled up, and the   *)
(* 1-minute query counts every row once.                                   *)
(***************************************************************************)
EXTENDS TelemetryStore, FiniteSetTheorems, WellFoundedInduction, TLAPS

\* The query thread is a record with these fields.
ApiShape ==
    api = [pc |-> api.pc, taken |-> api.taken, since |-> api.since, rows |-> api.rows,
           from |-> api.from]

\* The inductive invariant: a thread holds rows only between the two locks of its
\* flush, so that taking the buffer overwrites nothing.
TakenOnlyInFlush ==
    /\ ApiShape
    /\ pc # "insert" => taken = {}
    /\ api.pc # "insert" => api.taken = {}

-----------------------------------------------------------------------------
LEMMA TakenInit == Init => TakenOnlyInFlush
BY DEF Init, Idle, ApiShape, TakenOnlyInFlush

LEMMA TakenStep == TakenOnlyInFlush /\ [Next]_vars => TakenOnlyInFlush'
<1> SUFFICES ASSUME TakenOnlyInFlush, [Next]_vars PROVE TakenOnlyInFlush'
  OBVIOUS
<1> USE DEF TakenOnlyInFlush, ApiShape
<1>1. ASSUME NEW since \in Time, ApiFlushTake(since) PROVE TakenOnlyInFlush'
  BY <1>1 DEF ApiFlushTake, loopVars
<1>2. CASE ApiFlushInsert
  BY <1>2 DEF ApiFlushInsert, loopVars
<1>3. CASE ApiReadRollup
  BY <1>3 DEF ApiReadRollup, loopVars
<1>4. CASE ApiReadRaw
  BY <1>4 DEF ApiReadRaw, Idle, loopVars
<1>5. CASE Stop \/ Crash
  <2>1. Down
    BY <1>5 DEF Stop, Crash
  <2>2. QED
    BY <2>1 DEF Down, Idle
<1>6. CASE BufferTelemetry \/ FlushTake \/ FlushInsert
  BY <1>6 DEF BufferTelemetry, FlushTake, FlushInsert, loopVars
<1>7. CASE DecideRollup \/ RollupBegin \/ RollupCommit
  BY <1>7 DEF DecideRollup, RollupBegin, RollupCommit
<1>8. CASE DecidePrune \/ Prune
  BY <1>8 DEF DecidePrune, Prune, RoundEnds
<1>9. CASE PassTime \/ Start \/ UNCHANGED vars
  BY <1>9 DEF PassTime, Start, vars, loopVars
<1>10. QED
  BY <1>1, <1>2, <1>3, <1>4, <1>5, <1>6, <1>7, <1>8, <1>9 DEF Next

\* One step keeps every row that is held, but for the three that may end one.
LEMMA HeldStep ==
    ASSUME TakenOnlyInFlush, Next, ~Prune, ~Stop, ~Crash
    PROVE  Held \subseteq Held'
<1>1. CASE BufferTelemetry
  BY <1>1 DEF BufferTelemetry, loopVars, Held
<1>2. CASE FlushTake
  BY <1>2 DEF FlushTake, TakenOnlyInFlush, Held
<1>3. CASE FlushInsert
  BY <1>3 DEF FlushInsert, Insert, Held
<1>4. CASE DecideRollup \/ RollupBegin \/ RollupCommit \/ DecidePrune
  BY <1>4 DEF DecideRollup, RollupBegin, RollupCommit, DecidePrune, Held
<1>5. ASSUME NEW since \in Time, ApiFlushTake(since) PROVE Held \subseteq Held'
  <2>1. api.taken = {} /\ api'.taken = buf
    BY <1>5 DEF ApiFlushTake, TakenOnlyInFlush, ApiShape
  <2>2. QED
    BY <1>5, <2>1 DEF ApiFlushTake, loopVars, Held
<1>6. CASE ApiFlushInsert
  <2>1. api'.taken = {}
    BY <1>6 DEF ApiFlushInsert, TakenOnlyInFlush, ApiShape
  <2>2. QED
    BY <1>6, <2>1 DEF ApiFlushInsert, Insert, loopVars, Held
<1>7. CASE ApiReadRollup
  <2>1. api'.taken = api.taken
    BY <1>7 DEF ApiReadRollup, TakenOnlyInFlush, ApiShape
  <2>2. QED
    BY <1>7, <2>1 DEF ApiReadRollup, loopVars, Held
<1>8. CASE ApiReadRaw
  BY <1>8 DEF ApiReadRaw, Idle, loopVars, TakenOnlyInFlush, Held
<1>9. CASE PassTime \/ Start
  BY <1>9 DEF PassTime, Start, loopVars, Held
<1>10. QED
  BY <1>1, <1>2, <1>3, <1>4, <1>5, <1>6, <1>7, <1>8, <1>9 DEF Next

\* Whatever the receive path, the two flushing threads, the rollup and the queries
\* interleave to, a received sample is in the buffer, with a thread or in the
\* telemetry table until prune, a stop or a crash ends it (buffer_telemetry, flush).
THEOREM SamplesAreKept == Spec => NothingDropped
<1>1. TakenOnlyInFlush /\ [Next]_vars => [Prune \/ Stop \/ Crash \/ Held \subseteq Held']_vars
  BY HeldStep
<1>2. QED
  BY <1>1, TakenInit, TakenStep, PTL DEF Spec, NothingDropped

-----------------------------------------------------------------------------
(* Minutes, and the largest of a set of times.                             *)

\* The start of the minute of a time.
LEMMA MinuteOf ==
    ASSUME NEW t \in Nat
    PROVE  /\ CompleteMinutes(t) \in Nat
           /\ CompleteMinutes(t) <= t /\ t < CompleteMinutes(t) + Minute
           /\ CompleteMinutes(t) % Minute = 0
BY StoreAssumption DEF CompleteMinutes

\* Whole minutes: a minute that starts before one starts at least Minute before it.
LEMMA MinutesApart ==
    ASSUME NEW s \in Nat, s % Minute = 0, NEW t \in Nat, t % Minute = 0, s < t
    PROVE  s + Minute <= t
<1>1. PICK a \in Nat, b \in Nat : s = a * Minute /\ t = b * Minute
  <2>1. s \div Minute \in Nat /\ t \div Minute \in Nat
    BY StoreAssumption
  <2>2. s = (s \div Minute) * Minute /\ t = (t \div Minute) * Minute
    BY StoreAssumption
  <2>3. QED
    BY <2>1, <2>2
<1>2. a < b
  BY <1>1, StoreAssumption
<1>3. a * Minute + Minute <= b * Minute
  BY <1>2, StoreAssumption
<1>4. QED
  BY <1>1, <1>3

\* A bounded set of times that is not empty has a largest member.
LEMMA LargestExists ==
    ASSUME NEW S \in SUBSET Nat, NEW e \in S, NEW bound \in Nat, \A x \in S : x <= bound
    PROVE  \E m \in S : \A x \in S : x <= m
<1> DEFINE Above(x) == {y \in S : y > x}
           Tails == {Above(x) : x \in S}
           All == 0 .. bound
<1>1. FiniteSubsetsOf(All) = SUBSET All
  <2>1. IsFiniteSet(All)
    BY FS_Interval
  <2>2. QED
    BY <2>1, FS_FiniteSubsetsOfFinite
<1>2. IsWellFoundedOn(StrictSubsetOrdering(All), SUBSET All)
  BY <1>1, FS_StrictSubsetOrderingWellFounded
<1>3. Tails \subseteq SUBSET All /\ Tails # {}
  <2>1. S \subseteq All
    OBVIOUS
  <2>2. \A x \in S : Above(x) \in SUBSET All
    BY <2>1
  <2>3. Above(e) \in Tails
    OBVIOUS
  <2>4. ASSUME NEW X \in Tails PROVE X \in SUBSET All
    <3>1. PICK x \in S : X = Above(x)
      OBVIOUS
    <3>2. QED
      BY <2>2, <3>1
  <2>5. QED
    BY <2>3, <2>4
<1>4. \E X \in Tails : \A Y \in Tails : ~(<<Y, X>> \in StrictSubsetOrdering(All))
  <2> HIDE DEF Tails, All
  <2>1. QED
    BY <1>2, <1>3, WFMin
<1>5. PICK m \in S : \A Y \in Tails : ~(<<Y, Above(m)>> \in StrictSubsetOrdering(All))
  BY <1>4
<1>6. ASSUME NEW x \in S PROVE x <= m
  <2>1. SUFFICES ASSUME x > m PROVE FALSE
    OBVIOUS
  <2>2. Above(x) \subseteq Above(m) /\ x \in Above(m) /\ x \notin Above(x)
    <3>1. x \in Int /\ m \in Int /\ ~(x > x)
      OBVIOUS
    <3>2. \A y \in S : y > x => y > m
      BY <2>1, <3>1
    <3>3. QED
      BY <2>1, <3>1, <3>2, Zenon
  <2>3. Above(x) \in Tails /\ Above(x) \in SUBSET All /\ Above(m) \in SUBSET All
    <3>1. Above(x) \in Tails /\ Above(m) \in Tails
      OBVIOUS
    <3>2. QED
      BY <1>3, <3>1, Zenon
  <2>4. <<Above(x), Above(m)>> \in StrictSubsetOrdering(All)
    <3> HIDE DEF Above, All
    <3>1. QED
      BY <2>2, <2>3 DEF StrictSubsetOrdering
  <2>5. QED
    BY <1>5, <2>3, <2>4
<1>7. QED
  BY <1>6

LEMMA MaxOf ==
    ASSUME NEW S \in SUBSET Nat, NEW e \in S, NEW bound \in Nat, \A x \in S : x <= bound
    PROVE  Max(S) \in S /\ \A x \in S : x <= Max(S)
<1>1. \E m \in S : \A x \in S : m >= x
  BY LargestExists
<1>2. QED
  BY <1>1 DEF Max

\* Where the tail of the query starts: after every bucket read, or at since.
LEMMA TailFromIs ==
    ASSUME NEW since \in Time
    PROVE  /\ TailFrom(since) \in Nat
           /\ \A b \in Buckets(since) : b + Minute <= TailFrom(since)
           /\ TailFrom(since) = since \/ \E b \in Buckets(since) : TailFrom(since) = b + Minute
<1> DEFINE S == {b + Minute : b \in Buckets(since)} \cup {since}
<1>1. Buckets(since) \subseteq Time /\ Time \subseteq Nat /\ MaxTime + Minute \in Nat
  BY StoreAssumption DEF Buckets, Time
<1>2. \A b \in Buckets(since) : b + Minute \in Nat /\ b + Minute <= MaxTime + Minute
  BY StoreAssumption DEF Buckets, Time
<1>3. since \in Nat /\ since <= MaxTime + Minute
  BY StoreAssumption DEF Time
<1>4. S \in SUBSET Nat /\ since \in S /\ \A x \in S : x <= MaxTime + Minute
  BY <1>2, <1>3
<1>5. Max(S) \in S /\ \A x \in S : x <= Max(S)
  <2> HIDE DEF S
  <2>1. QED
    BY <1>1, <1>4, MaxOf
<1>6. TailFrom(since) = Max(S)
  BY DEF TailFrom
<1>7. \A b \in Buckets(since) : b + Minute \in S
  OBVIOUS
<1>8. Max(S) \in Nat
  BY <1>4, <1>5
<1>9. Max(S) = since \/ \E b \in Buckets(since) : Max(S) = b + Minute
  BY <1>5
<1>10. QED
  BY <1>5, <1>6, <1>7, <1>8, <1>9

-----------------------------------------------------------------------------
(* The invariant of the rollup and of the query.                           *)

\* When a round may prune, the rollup is less than a round and a minute behind:
\* either this process has rolled up, or it has not run long enough to prune.
Timing ==
    /\ pc \in {"rollup", "commit", "prune?", "prune"} =>
          round <= now /\ now <= round + 1 /\ (now = round + 1 => ticked)
    /\ pc \in {"rollup", "commit"} => lastRoll = round
    /\ pc \in {"prune?", "prune"} => round - lastRoll <= RollEvery
    /\ pc = "commit" => end % Minute = 0 /\ upto < end /\ lastRoll < end + Minute
    /\ pc \notin {"rollup", "commit", "down"} => lastRoll < upto + Minute \/ lastPrune = lastRoll
    /\ pc = "prune" => lastRoll < upto + Minute

\* What is stored and older than upto is in its bucket; a bucket holds only rows
\* of its own minute, and only minutes that are rolled up.
RolledUp ==
    /\ \A r \in raw \ late : r.ts < upto => r \in rollup[Bucket(r)]
    /\ \A b \in Time : \A r \in rollup[b] : Bucket(r) = b /\ b + Minute <= upto

\* What a query has read between its two statements.
HalfRead ==
    api.pc = "raw" =>
        /\ api.from <= upto \/ api.from = api.since
        /\ \A r \in api.rows : r.ts < api.from
        /\ \A r \in raw \ late : r.ts >= api.since /\ r.ts < api.from => r \in api.rows

\* The inductive invariant.
StoreInv == TypeOK /\ Timing /\ RolledUp /\ HalfRead

LEMMA TimeZero == 0 \in Time /\ 0 % Minute = 0
BY StoreAssumption DEF Time

LEMMA StoreInit == Init => StoreInv
<1> SUFFICES ASSUME Init PROVE StoreInv
  OBVIOUS
<1>1. Idle \in [pc : {"idle", "insert", "read", "raw"}, taken : SUBSET Row, since : Time,
                rows : SUBSET Row, from : Nat]
  BY TimeZero DEF Idle
<1>2. TypeOK
  <2>1. received \in 0 .. MaxRows /\ restarts \in 0 .. MaxRestarts
    BY StoreAssumption DEF Init
  <2>2. QED
    BY <1>1, <2>1, TimeZero DEF Init, TypeOK
<1>3. Timing
  BY StoreAssumption DEF Init, Timing
<1>4. RolledUp /\ HalfRead
  BY DEF Init, Idle, RolledUp, HalfRead
<1>5. QED
  BY <1>2, <1>3, <1>4 DEF StoreInv

\* Times are natural numbers, and so are the times of rows.
LEMMA Times == Time \subseteq Nat /\ \A r \in Row : r.ts \in Time
BY StoreAssumption DEF Time, Row

LEMMA TypeStep ==
    ASSUME StoreInv, [Next]_vars
    PROVE  TypeOK'
<1> USE DEF TypeOK
<1>0. TypeOK
  BY DEF StoreInv
<1>1. CASE BufferTelemetry
  <2>1. [ts |-> now, n |-> received + 1] \in Row /\ received + 1 \in 0 .. MaxRows
    BY <1>0, <1>1, StoreAssumption DEF BufferTelemetry, Row
  <2>2. buf' \in SUBSET Row
    BY <1>0, <1>1, <2>1 DEF BufferTelemetry
  <2>3. QED
    BY <1>0, <1>1, <2>1, <2>2 DEF BufferTelemetry, loopVars
<1>2. CASE FlushTake
  BY <1>0, <1>2 DEF FlushTake
<1>3. CASE FlushInsert
  BY <1>0, <1>3 DEF FlushInsert, Insert
<1>4. CASE DecideRollup
  BY <1>0, <1>4 DEF DecideRollup
<1>5. CASE RollupBegin
  <2>1. CompleteMinutes(now) \in Time
    <3>1. now \in Nat /\ now <= MaxTime
      BY <1>0, StoreAssumption DEF Time
    <3>2. CompleteMinutes(now) \in Nat /\ CompleteMinutes(now) <= now
      BY <3>1, MinuteOf
    <3>3. QED
      BY <3>1, <3>2, StoreAssumption DEF Time
  <2>2. QED
    BY <1>0, <1>5, <2>1 DEF RollupBegin
<1>6. CASE RollupCommit
  <2>1. end % Minute = 0
    BY <1>6 DEF RollupCommit, StoreInv, Timing
  <2>2. rollup' \in [Time -> SUBSET Row]
    BY <1>0, <1>6 DEF RollupCommit
  <2>3. QED
    BY <1>0, <1>6, <2>1, <2>2 DEF RollupCommit
<1>7. CASE DecidePrune
  BY <1>0, <1>7, TimeZero DEF DecidePrune, RoundEnds
<1>8. CASE Prune
  BY <1>0, <1>8, TimeZero DEF Prune, RoundEnds
<1>9. ASSUME NEW since \in Time, ApiFlushTake(since) PROVE TypeOK'
  BY <1>0, <1>9 DEF ApiFlushTake, loopVars
<1>10. CASE ApiFlushInsert
  BY <1>0, <1>10 DEF ApiFlushInsert, Insert, loopVars
<1>11. CASE ApiReadRollup
  <2>1. TailFrom(api.since) \in Nat
    BY <1>0, TailFromIs
  <2>2. UNION {rollup[b] : b \in Buckets(api.since)} \in SUBSET Row
    BY <1>0 DEF Buckets
  <2>3. QED
    BY <1>0, <1>11, <2>1, <2>2 DEF ApiReadRollup, loopVars
<1>12. Idle \in [pc : {"idle", "insert", "read", "raw"}, taken : SUBSET Row, since : Time,
                 rows : SUBSET Row, from : Nat]
  BY StoreAssumption DEF Idle, Time
<1>13. CASE ApiReadRaw
  BY <1>0, <1>12, <1>13 DEF ApiReadRaw, loopVars
<1>14. CASE PassTime
  BY <1>0, <1>14, StoreAssumption DEF PassTime, loopVars, Time, Up
<1>15. CASE Stop \/ Crash
  <2>1. Down
    BY <1>15 DEF Stop, Crash
  <2>2. raw' \in SUBSET Row /\ late' \in SUBSET Row
    <3>1. CASE Crash
      BY <1>0, <3>1 DEF Crash
    <3>2. CASE Stop
      <4>1. PICK held \in SUBSET {taken, api.taken} : Insert(buf \cup UNION held)
        BY <3>2 DEF Stop
      <4>2. UNION held \subseteq Row
        BY <1>0
      <4>3. QED
        BY <1>0, <4>1, <4>2 DEF Insert
    <3>3. QED
      BY <1>15, <3>1, <3>2
  <2>3. restarts' \in 0 .. MaxRestarts /\ 0 \in Time
    BY <1>0, <2>1, StoreAssumption DEF Down, Time
  <2>4. QED
    BY <1>0, <1>12, <2>1, <2>2, <2>3 DEF Down
<1>16. CASE Start
  BY <1>0, <1>16 DEF Start
<1>17. CASE UNCHANGED vars
  BY <1>0, <1>17 DEF vars, loopVars
<1>18. QED
  BY <1>1, <1>2, <1>3, <1>4, <1>5, <1>6, <1>7, <1>8, <1>9, <1>10, <1>11, <1>13, <1>14, <1>15, <1>16, <1>17
     DEF Next

\* The clock and the rounds of maintenance_loop.
LEMMA TimingStep ==
    ASSUME StoreInv, [Next]_vars
    PROVE  Timing'
<1>1. Timing
  BY DEF StoreInv
<1>2. {now, upto, round, end, lastRoll, lastPrune} \subseteq Nat
  BY Times DEF StoreInv, TypeOK
<1>3. CASE DecideRollup
  BY <1>1, <1>2, <1>3, StoreAssumption DEF Timing, DecideRollup
<1>4. CASE RollupBegin
  <2>1. end' % Minute = 0 /\ end' \in Nat /\ now < end' + Minute
    BY <1>2, <1>4, MinuteOf DEF RollupBegin
  <2>2. lastRoll = round /\ round <= now /\ now <= round + 1 /\ (now = round + 1 => ticked)
    BY <1>1, <1>4 DEF Timing, RollupBegin
  <2>3. lastRoll < end' + Minute
    BY <1>2, <2>1, <2>2, StoreAssumption
  <2>4. CASE end' <= upto
    <3>1. pc' = "prune?" /\ lastRoll < upto + Minute
      BY <1>2, <1>4, <2>1, <2>3, <2>4, StoreAssumption DEF RollupBegin
    <3>2. QED
      BY <1>2, <1>4, <2>2, <3>1, StoreAssumption DEF Timing, RollupBegin
  <2>5. CASE ~(end' <= upto)
    <3>1. pc' = "commit" /\ upto < end'
      BY <1>2, <1>4, <2>1, <2>5 DEF RollupBegin
    <3>2. QED
      BY <1>2, <1>4, <2>1, <2>2, <2>3, <3>1 DEF Timing, RollupBegin
  <2>6. QED
    BY <2>4, <2>5
<1>5. CASE RollupCommit
  BY <1>1, <1>2, <1>5, StoreAssumption DEF Timing, RollupCommit
<1>6. CASE DecidePrune
  BY <1>1, <1>2, <1>6, StoreAssumption DEF Timing, DecidePrune, RoundEnds
<1>7. CASE Prune
  BY <1>1, <1>7 DEF Timing, Prune, RoundEnds
<1>8. CASE PassTime
  <2>1. /\ UNCHANGED <<upto, pc, round, end, lastRoll, lastPrune>>
        /\ now' = now + 1 /\ ~ticked
    BY <1>8 DEF PassTime, loopVars
  <2>2. pc # "down" => ticked'
    BY <1>8 DEF PassTime, Up
  <2>3. pc \in {"rollup", "commit", "prune?", "prune"} => now = round
    BY <1>1, <1>2, <2>1 DEF Timing
  <2>4. pc \in {"rollup", "commit", "prune?", "prune"} => round <= now' /\ now' <= round + 1 /\ ticked'
    BY <1>2, <2>1, <2>2, <2>3
  <2>5. QED
    BY <1>1, <2>1, <2>4 DEF Timing
<1>9. CASE Stop \/ Crash
  BY <1>9 DEF Timing, Stop, Crash, Down
<1>10. CASE Start
  BY <1>10 DEF Timing, Start
<1>11. CASE FlushTake \/ FlushInsert
  BY <1>1, <1>11 DEF Timing, FlushTake, FlushInsert
<1>12. CASE \/ BufferTelemetry \/ ApiFlushInsert \/ ApiReadRollup \/ ApiReadRaw \/ UNCHANGED vars
            \/ \E since \in Time : ApiFlushTake(since)
  <2>1. UNCHANGED <<now, ticked, upto, pc, round, end, lastRoll, lastPrune>>
    BY <1>12 DEF BufferTelemetry, ApiFlushInsert, ApiReadRollup, ApiReadRaw, vars, ApiFlushTake, loopVars
  <2>2. QED
    BY <1>1, <2>1 DEF Timing
<1>13. QED
  BY <1>3, <1>4, <1>5, <1>6, <1>7, <1>8, <1>9, <1>10, <1>11, <1>12 DEF Next

\* A row lies in the minute its bucket starts, on one side of a whole minute.
LEMMA BucketOf ==
    ASSUME NEW r \in Row, NEW u \in Nat, u % Minute = 0
    PROVE  /\ Bucket(r) \in Time
           /\ Bucket(r) <= r.ts /\ r.ts < Bucket(r) + Minute
           /\ r.ts < u => Bucket(r) + Minute <= u
           /\ r.ts >= u => Bucket(r) >= u
<1>1. r.ts \in Nat /\ r.ts <= MaxTime
  BY StoreAssumption DEF Row, Time
<1>2. Bucket(r) = CompleteMinutes(r.ts)
  BY DEF Bucket, CompleteMinutes
<1>3. /\ Bucket(r) \in Nat /\ Bucket(r) <= r.ts /\ r.ts < Bucket(r) + Minute
      /\ Bucket(r) % Minute = 0
  BY <1>1, <1>2, MinuteOf
<1>4. Bucket(r) \in Time
  BY <1>1, <1>3, StoreAssumption DEF Time
<1>5. Bucket(r) < u => Bucket(r) + Minute <= u
  BY <1>3, MinutesApart
<1>6. QED
  BY <1>1, <1>3, <1>4, <1>5, StoreAssumption

\* Storing rows: a row that comes after its minute was rolled up is late.
LEMMA InsertStep ==
    ASSUME StoreInv, NEW rows \in SUBSET Row, Insert(rows), UNCHANGED <<upto, rollup>>
    PROVE  /\ RolledUp'
           /\ api' = api => HalfRead'
           /\ \A r \in raw' \ late' : r \in raw \ late \/ (r \in rows /\ r.ts >= upto)
<1>1. \A r \in Row : r.ts \in Nat
  BY Times
<1>2. upto \in Nat
  BY Times DEF StoreInv, TypeOK
<1>3. \A r \in raw' \ late' : r \in raw \ late \/ (r \in rows /\ r.ts >= upto)
  BY <1>1, <1>2 DEF Insert
<1>4. RolledUp'
  <2>1. ASSUME NEW r \in raw' \ late', r.ts < upto' PROVE r \in rollup'[Bucket(r)]
    <3>1. r \in raw \ late
      BY <1>1, <1>2, <1>3, <2>1
    <3>2. QED
      BY <2>1, <3>1 DEF StoreInv, RolledUp
  <2>2. \A b \in Time : \A r \in rollup'[b] : Bucket(r) = b /\ b + Minute <= upto'
    BY DEF StoreInv, RolledUp
  <2>3. QED
    BY <2>1, <2>2 DEF RolledUp, Bucket
<1>5. ASSUME api' = api PROVE HalfRead'
  <2>1. SUFFICES ASSUME api.pc = "raw" PROVE HalfRead'
    BY <1>5 DEF HalfRead
  <2>2. /\ api.from <= upto \/ api.from = api.since
        /\ \A r \in api.rows : r.ts < api.from
        /\ \A r \in raw \ late : r.ts >= api.since /\ r.ts < api.from => r \in api.rows
    BY <2>1 DEF StoreInv, HalfRead
  <2>3. api.from \in Nat /\ api.since \in Nat
    BY Times DEF StoreInv, TypeOK
  <2>4. ASSUME NEW r \in raw' \ late', r.ts >= api.since, r.ts < api.from PROVE r \in api.rows
    <3>1. CASE r \in raw \ late
      BY <2>2, <2>4, <3>1
    <3>2. CASE r \in rows /\ r.ts >= upto
      BY <1>1, <1>2, <2>2, <2>3, <2>4, <3>2
    <3>3. QED
      BY <1>3, <3>1, <3>2
  <2>5. QED
    BY <1>5, <2>2, <2>4 DEF HalfRead
<1>6. QED
  BY <1>3, <1>4, <1>5

\* The invariant of the tables.
LEMMA RolledStep ==
    ASSUME StoreInv, [Next]_vars
    PROVE  RolledUp'
<1>1. RolledUp /\ TypeOK
  BY DEF StoreInv
<1>2. CASE FlushInsert
  BY <1>1, <1>2, InsertStep DEF FlushInsert, TypeOK
<1>3. CASE ApiFlushInsert
  BY <1>1, <1>3, InsertStep DEF ApiFlushInsert, TypeOK
<1>4. CASE Stop
  <2>1. PICK held \in SUBSET {taken, api.taken} : Insert(buf \cup UNION held)
    BY <1>4 DEF Stop
  <2>2. buf \cup UNION held \in SUBSET Row
    BY <1>1 DEF TypeOK
  <2>3. UNCHANGED <<upto, rollup>>
    BY <1>4 DEF Stop, Down
  <2>4. QED
    BY <2>1, <2>2, <2>3, InsertStep
<1>5. CASE RollupCommit
  <2> DEFINE Fold(b) == {r \in raw : r.ts >= upto /\ r.ts < end /\ Bucket(r) = b}
  <2>1. /\ rollup' = [b \in Time |-> IF Fold(b) = {} THEN rollup[b] ELSE Fold(b)]
        /\ upto' = end /\ UNCHANGED <<raw, late>>
    BY <1>5 DEF RollupCommit
  <2>2. /\ upto \in Nat /\ upto % Minute = 0 /\ end \in Nat /\ end % Minute = 0 /\ upto < end
        /\ raw \subseteq Row /\ Minute \in Nat
    BY <1>1, <1>5, Times, StoreAssumption DEF RollupCommit, StoreInv, Timing, TypeOK
  <2>3. ASSUME NEW r \in raw \ late, r.ts < end PROVE r \in rollup'[Bucket(r)]
    <3>1. r \in Row /\ r.ts \in Nat /\ Bucket(r) \in Time /\ Bucket(r) <= r.ts /\ Bucket(r) \in Nat
      BY <2>2, BucketOf, Times
    <3>2. CASE r.ts >= upto
      <4>1. r \in Fold(Bucket(r))
        BY <2>3, <3>2
      <4>2. QED
        BY <2>1, <3>1, <4>1
    <3>3. CASE r.ts < upto
      <4>1. Bucket(r) < upto
        BY <2>2, <3>1, <3>3
      <4>2. ASSUME NEW x \in Fold(Bucket(r)) PROVE FALSE
        <5>1. x \in Row /\ x.ts >= upto /\ Bucket(x) = Bucket(r)
          BY <2>2
        <5>2. Bucket(x) >= upto
          BY <2>2, <5>1, BucketOf
        <5>3. QED
          BY <2>2, <3>1, <4>1, <5>1, <5>2
      <4>3. Fold(Bucket(r)) = {}
        BY <4>2
      <4>4. r \in rollup[Bucket(r)]
        BY <1>1, <3>3 DEF RolledUp
      <4>5. QED
        BY <2>1, <3>1, <4>3, <4>4
    <3>4. QED
      BY <2>2, <3>1, <3>2, <3>3
  <2>4. ASSUME NEW b \in Time, NEW r \in rollup'[b] PROVE Bucket(r) = b /\ b + Minute <= end
    <3>1. CASE r \in rollup[b]
      <4>1. Bucket(r) = b /\ b + Minute <= upto /\ b \in Nat
        BY <1>1, <3>1, Times DEF RolledUp
      <4>2. QED
        BY <2>2, <4>1
    <3>2. CASE r \in Fold(b)
      <4>1. r \in Row /\ r.ts < end /\ Bucket(r) = b
        BY <2>2, <3>2
      <4>2. QED
        BY <2>2, <4>1, BucketOf
    <3>3. QED
      BY <2>1, <3>1, <3>2
  <2>5. QED
    BY <2>1, <2>3, <2>4 DEF RolledUp, Bucket
<1>6. CASE Prune
  BY <1>1, <1>6 DEF Prune, RolledUp, Bucket
<1>7. CASE \/ BufferTelemetry \/ FlushTake \/ DecideRollup \/ RollupBegin \/ DecidePrune
           \/ ApiReadRollup \/ ApiReadRaw \/ PassTime \/ Crash \/ Start \/ UNCHANGED vars
           \/ \E since \in Time : ApiFlushTake(since)
  <2>1. UNCHANGED <<raw, late, rollup, upto>>
    BY <1>7 DEF BufferTelemetry, FlushTake, DecideRollup, RollupBegin, DecidePrune, ApiReadRollup,
       ApiReadRaw, PassTime, Crash, Down, Start, vars, ApiFlushTake
  <2>2. QED
    BY <1>1, <2>1 DEF RolledUp, Bucket
<1>8. QED
  BY <1>2, <1>3, <1>4, <1>5, <1>6, <1>7 DEF Next

\* The first statement of the query reads what is rolled up, and notes where the
\* raw rows take over.
LEMMA ReadRollupStep ==
    ASSUME StoreInv, ApiReadRollup
    PROVE  HalfRead'
<1> DEFINE since == api.since
           from == TailFrom(api.since)
           rows == UNION {rollup[b] : b \in Buckets(api.since)}
<1>1. /\ api'.since = since /\ api'.from = from /\ api'.rows = rows
      /\ UNCHANGED <<raw, late, upto>>
  BY DEF ApiReadRollup, StoreInv, TypeOK
<1>2. /\ since \in Time /\ since \in Nat /\ upto \in Nat /\ upto % Minute = 0 /\ raw \subseteq Row
      /\ rollup \in [Time -> SUBSET Row] /\ Minute \in Nat /\ RolledUp
  BY Times, StoreAssumption DEF StoreInv, TypeOK
<1>3. /\ from \in Nat
      /\ \A b \in Buckets(since) : b + Minute <= from
      /\ from = since \/ \E b \in Buckets(since) : from = b + Minute
  BY <1>2, TailFromIs
<1>4. \A b \in Buckets(since) : b \in Time /\ b \in Nat /\ rollup[b] # {} /\ b >= since - Minute
  BY Times DEF Buckets
<1>5. from <= upto \/ from = since
  <2>1. \A b \in Buckets(since) : b + Minute <= upto
    BY <1>2, <1>4 DEF RolledUp
  <2>2. QED
    BY <1>3, <2>1
<1>6. ASSUME NEW r \in rows PROVE r.ts < from
  <2>1. PICK b \in Buckets(since) : r \in rollup[b]
    OBVIOUS
  <2>2. r \in Row /\ Bucket(r) = b /\ b \in Nat
    BY <1>2, <1>4, <2>1 DEF RolledUp
  <2>3. r.ts < b + Minute /\ b + Minute <= from /\ r.ts \in Nat
    BY <1>2, <1>3, <2>1, <2>2, BucketOf, Times
  <2>4. QED
    BY <1>2, <1>3, <2>2, <2>3
<1>7. ASSUME NEW r \in raw \ late, r.ts >= since, r.ts < from PROVE r \in rows
  <2>1. r \in Row /\ r.ts \in Nat /\ r.ts < upto
    <3>1. r \in Row /\ r.ts \in Nat
      BY <1>2, Times
    <3>2. from # since
      BY <1>2, <1>7, <3>1
    <3>3. QED
      BY <1>2, <1>3, <1>5, <1>7, <3>1, <3>2
  <2>2. r \in rollup[Bucket(r)]
    BY <1>2, <1>7, <2>1 DEF RolledUp
  <2>3. Bucket(r) \in Time /\ Bucket(r) \in Nat /\ r.ts < Bucket(r) + Minute
    BY <1>2, <2>1, BucketOf, Times
  <2>4. Bucket(r) >= since - Minute
    BY <1>2, <1>7, <2>1, <2>3
  <2>5. Bucket(r) \in Buckets(since)
    BY <2>2, <2>3, <2>4 DEF Buckets
  <2>6. QED
    BY <2>2, <2>5
<1>8. QED
  BY <1>1, <1>5, <1>6, <1>7 DEF HalfRead

LEMMA HalfReadStep ==
    ASSUME StoreInv, [Next]_vars
    PROVE  HalfRead'
<1>1. HalfRead /\ TypeOK
  BY DEF StoreInv
<1>2. CASE FlushInsert
  BY <1>1, <1>2, InsertStep DEF FlushInsert, TypeOK
<1>3. CASE ApiReadRollup
  BY <1>3, ReadRollupStep
<1>4. CASE RollupCommit
  <2>1. upto' \in Nat /\ upto \in Nat /\ upto < upto' /\ UNCHANGED <<raw, late, api>> /\ api.from \in Nat
    BY <1>1, <1>4, Times DEF RollupCommit, StoreInv, Timing, TypeOK
  <2>2. QED
    BY <1>1, <2>1 DEF HalfRead
<1>5. CASE Prune
  BY <1>1, <1>5 DEF Prune, HalfRead
<1>6. CASE \/ ApiFlushInsert \/ ApiReadRaw \/ Stop \/ Crash \/ \E since \in Time : ApiFlushTake(since)
  <2>1. api'.pc # "raw"
    <3>1. CASE ApiReadRaw \/ Stop \/ Crash
      <4>1. api' = Idle
        BY <3>1 DEF ApiReadRaw, Stop, Crash, Down
      <4>2. QED
        BY <4>1 DEF Idle
    <3>2. CASE ApiFlushInsert
      BY <1>1, <3>2 DEF TypeOK, ApiFlushInsert
    <3>3. CASE \E since \in Time : ApiFlushTake(since)
      BY <1>1, <3>3 DEF TypeOK, ApiFlushTake
    <3>4. QED
      BY <1>6, <3>1, <3>2, <3>3
  <2>2. QED
    BY <2>1 DEF HalfRead
<1>7. CASE \/ BufferTelemetry \/ FlushTake \/ DecideRollup \/ RollupBegin \/ DecidePrune
           \/ PassTime \/ Start \/ UNCHANGED vars
  <2>1. UNCHANGED <<raw, late, upto, api>>
    BY <1>7 DEF BufferTelemetry, FlushTake, DecideRollup, RollupBegin, DecidePrune, PassTime, Start, vars
  <2>2. QED
    BY <1>1, <2>1 DEF HalfRead
<1>8. QED
  BY <1>2, <1>3, <1>4, <1>5, <1>6, <1>7 DEF Next

LEMMA StoreInvariant == Spec => []StoreInv
<1>1. StoreInv /\ [Next]_vars => StoreInv'
  BY TypeStep, TimingStep, RolledStep, HalfReadStep DEF StoreInv
<1>2. QED
  BY <1>1, StoreInit, PTL DEF Spec

-----------------------------------------------------------------------------
(* The theorems.                                                           *)

\* Types of the store: in particular rollup_upto is always a whole minute (rollup).
THEOREM TypeCorrect == Spec => []TypeOK
<1>1. StoreInv => TypeOK
  BY DEF StoreInv
<1>2. QED
  BY <1>1, StoreInvariant, PTL

\* The 1-minute query counts every stored row of its range exactly once, for every
\* interleaving of its two statements with flush, rollup and prune (telemetry).
THEOREM EveryRowCountedOnce == Spec => []QueryCountsOnce
<1>1. ASSUME StoreInv, api.pc = "raw"
      PROVE  /\ api.rows \cap Tail1m = {}
             /\ \A r \in raw \ late : r.ts >= api.since => r \in api.rows \cup Tail1m
  <2>1. /\ \A r \in api.rows : r.ts < api.from
        /\ \A r \in raw \ late : r.ts >= api.since /\ r.ts < api.from => r \in api.rows
    BY <1>1 DEF StoreInv, HalfRead
  <2>2. \A r \in raw \cup api.rows : r.ts \in Nat
    BY <1>1, Times DEF StoreInv, TypeOK
  <2>3. api.from \in Nat
    BY <1>1 DEF StoreInv, TypeOK
  <2>4. QED
    BY <2>1, <2>2, <2>3 DEF Tail1m
<1>2. StoreInv => QueryCountsOnce
  BY <1>1 DEF QueryCountsOnce
<1>3. QED
  BY <1>2, StoreInvariant, PTL

\* prune deletes only rows that are in their bucket, or late: for every retention
\* of at least a rollup period and a minute, and after any downtime (maintenance_loop).
THEOREM RolledUpBeforePruned == Spec => PrunedAreRolledUp
<1>1. ASSUME StoreInv, [Next]_vars, NEW r \in raw \ raw'
      PROVE  r \in rollup[Bucket(r)] \cup late
  <2>1. CASE Prune
    <3>1. r \in Row /\ r.ts \in Nat /\ {now, upto, round, lastRoll} \subseteq Nat
      BY <1>1, Times DEF StoreInv, TypeOK
    <3>2. now <= round + 1 /\ round - lastRoll <= RollEvery /\ lastRoll < upto + Minute
      BY <1>1, <2>1 DEF StoreInv, Timing, Prune
    <3>3. now - Retention <= upto
      BY <3>1, <3>2, StoreAssumption
    <3>4. r.ts < now - Retention
      BY <1>1, <2>1, <3>1, StoreAssumption DEF Prune
    <3>5. r.ts < upto
      BY <3>1, <3>3, <3>4, StoreAssumption
    <3>6. QED
      BY <1>1, <3>5 DEF StoreInv, RolledUp
  <2>2. CASE ~Prune
    <3>1. raw \subseteq raw'
      BY <1>1, <2>2 DEF Next, vars, BufferTelemetry, FlushTake, FlushInsert, Insert, DecideRollup, RollupBegin,
         RollupCommit, DecidePrune, ApiFlushTake, ApiFlushInsert, ApiReadRollup, ApiReadRaw, PassTime, Stop,
         Crash, Start
    <3>2. QED
      BY <1>1, <3>1
  <2>3. QED
    BY <2>1, <2>2
<1>2. StoreInv /\ [Next]_vars => [\A r \in raw \ raw' : r \in rollup[Bucket(r)] \cup late]_vars
  BY <1>1
<1>3. QED
  BY <1>2, StoreInvariant, PTL DEF Spec, PrunedAreRolledUp
==============================================================================
