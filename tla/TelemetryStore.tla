---------------------------- MODULE TelemetryStore ---------------------------
(***************************************************************************)
(* The telemetry store of backend/app/db.py for one device: the buffer,    *)
(* flush, rollup, prune and the 1-minute query, called by the receive      *)
(* path, by maintenance_loop and by device_telemetry of api.py.  The last  *)
(* two call the database in worker threads, so that every lock it releases *)
(* is a point where the other one may run.                                 *)
(*                                                                         *)
(* A row is its time of arrival and a number.  A bucket of the rollup      *)
(* table is the set of rows that were aggregated into it: its count and    *)
(* averages are functions of that set.                                     *)
(***************************************************************************)
EXTENDS Integers, FiniteSets, FiniteSetsExt

CONSTANTS
    Minute,         \* width of a bucket, in time units
    RollEvery,      \* rollup_s
    PruneEvery,     \* prune_s
    Retention,      \* retention_h
    MaxTime,        \* bound: the clock
    MaxRows,        \* bound: samples received
    MaxRestarts     \* bound: stops and crashes of the backend

ASSUME StoreAssumption ==
    /\ Minute \in Nat \ {0}
    /\ RollEvery \in Nat
    /\ PruneEvery \in Nat /\ PruneEvery >= RollEvery
    /\ Retention \in Nat /\ Retention >= RollEvery + Minute
    /\ MaxTime \in Nat
    /\ MaxRows \in Nat
    /\ MaxRestarts \in Nat

VARIABLES
    now,        \* the clock
    ticked,     \* the clock has moved in this round of maintenance_loop
    buf,        \* self._tel_buf
    raw,        \* the telemetry table
    rollup,     \* telemetry_rollup_1m: bucket -> rows, {} where there is none
    upto,       \* meta.rollup_upto
    pc,         \* maintenance_loop: "down" when no process runs
    taken,      \* rows its flush holds between the two locks
    round,      \* now as read by maintenance_loop
    end,        \* rollup: the end of the range to fold
    lastRoll,
    lastPrune,
    api,        \* device_telemetry: [pc, taken, since, rows, from]
    received,   \* samples received so far
    restarts,
    late        \* ghost: rows stored after their minute had been rolled up

loopVars == <<pc, taken, round, end, lastRoll, lastPrune>>

vars == <<now, ticked, buf, raw, rollup, upto, loopVars, api, received, restarts, late>>

Time == 0 .. MaxTime

Row == [ts : Time, n : 1 .. MaxRows]

Idle == [pc |-> "idle", taken |-> {}, since |-> 0, rows |-> {}, from |-> 0]

TypeOK ==
    /\ now \in Time
    /\ ticked \in BOOLEAN
    /\ buf \in SUBSET Row
    /\ raw \in SUBSET Row
    /\ rollup \in [Time -> SUBSET Row]
    /\ upto \in Time /\ upto % Minute = 0
    /\ pc \in {"sleep", "insert", "decide", "rollup", "commit", "prune?", "prune", "down"}
    /\ taken \in SUBSET Row
    /\ {round, end, lastRoll, lastPrune} \subseteq Time
    /\ api \in [pc : {"idle", "insert", "read", "raw"}, taken : SUBSET Row, since : Time,
                rows : SUBSET Row, from : Nat]
    /\ received \in 0 .. MaxRows
    /\ restarts \in 0 .. MaxRestarts
    /\ late \in SUBSET Row

Init ==
    /\ now = 0
    /\ ticked = FALSE
    /\ buf = {} /\ raw = {} /\ late = {}
    /\ rollup = [b \in Time |-> {}]
    /\ upto = 0
    /\ pc = "sleep" /\ taken = {}
    /\ round = 0 /\ end = 0 /\ lastRoll = 0 /\ lastPrune = 0
    /\ api = Idle
    /\ received = 0
    /\ restarts = 0

Up == pc # "down"

Bucket(r) == (r.ts \div Minute) * Minute

-----------------------------------------------------------------------------
\* handle_telemetry, buffer_telemetry: a row is stamped with its arrival.
BufferTelemetry ==
    /\ Up
    /\ received < MaxRows
    /\ received' = received + 1
    /\ buf' = buf \cup {[ts |-> now, n |-> received + 1]}
    /\ UNCHANGED <<now, ticked, raw, rollup, upto, loopVars, api, restarts, late>>

\* flush, second half: the rows taken are inserted in one transaction.
Insert(rows) ==
    /\ raw' = raw \cup rows
    /\ late' = late \cup {r \in rows : r.ts < upto}

-----------------------------------------------------------------------------
(* maintenance_loop.                                                       *)

\* flush, first half: the buffer is taken and replaced under its own lock.
FlushTake ==
    /\ pc = "sleep"
    /\ pc' = "insert"
    /\ taken' = buf
    /\ buf' = {}
    /\ UNCHANGED <<now, ticked, raw, rollup, upto, round, end, lastRoll, lastPrune, api,
                   received, restarts, late>>

\* Mutant of FlushInsert: the buffer is emptied after the rows were written.
FlushInsertClears ==
    /\ pc = "insert"
    /\ pc' = "decide"
    /\ Insert(taken)
    /\ taken' = {}
    /\ buf' = {}
    /\ UNCHANGED <<now, ticked, rollup, upto, round, end, lastRoll, lastPrune, api,
                   received, restarts>>

FlushInsert ==
    /\ pc = "insert"
    /\ pc' = "decide"
    /\ Insert(taken)
    /\ taken' = {}
    /\ UNCHANGED <<now, ticked, buf, rollup, upto, round, end, lastRoll, lastPrune, api,
                   received, restarts>>

\* The time of this round is read, and rollup is called when it is due.
DecideRollup ==
    /\ pc = "decide"
    /\ round' = now
    /\ \/ now - lastRoll > RollEvery /\ lastRoll' = now /\ pc' = "rollup"
       \/ now - lastRoll <= RollEvery /\ pc' = "prune?" /\ UNCHANGED lastRoll
    /\ UNCHANGED <<now, ticked, buf, raw, rollup, upto, taken, end, lastPrune, api,
                   received, restarts, late>>

\* rollup: only complete minutes.
CompleteMinutes(t) == (t \div Minute) * Minute

RollupBegin ==
    /\ pc = "rollup"
    /\ end' = CompleteMinutes(now)
    /\ pc' = IF end' <= upto THEN "prune?" ELSE "commit"
    /\ UNCHANGED <<now, ticked, buf, raw, rollup, upto, taken, round, lastRoll, lastPrune, api,
                   received, restarts, late>>

\* The rows of [upto, end) are folded: a bucket is replaced if there are any.
RollupCommit ==
    /\ pc = "commit"
    /\ pc' = "prune?"
    /\ upto' = end
    /\ rollup' = [b \in Time |->
                    LET rows == {r \in raw : r.ts >= upto /\ r.ts < end /\ Bucket(r) = b}
                    IN  IF rows = {} THEN rollup[b] ELSE rows]
    /\ UNCHANGED <<now, ticked, buf, raw, taken, round, end, lastRoll, lastPrune, api,
                   received, restarts, late>>

\* A round ends: its locals are dead, and the loop sleeps again.
RoundEnds ==
    /\ pc' = "sleep"
    /\ ticked' = FALSE
    /\ round' = 0
    /\ end' = 0

DecidePrune ==
    /\ pc = "prune?"
    /\ \/ /\ round - lastPrune > PruneEvery
          /\ lastPrune' = round
          /\ pc' = "prune"
          /\ UNCHANGED <<ticked, round, end>>
       \/ round - lastPrune <= PruneEvery /\ RoundEnds /\ UNCHANGED lastPrune
    /\ UNCHANGED <<now, buf, raw, rollup, upto, taken, lastRoll, api, received, restarts, late>>

Prune ==
    /\ pc = "prune"
    /\ RoundEnds
    /\ raw' = {r \in raw : r.ts >= now - Retention}
    /\ UNCHANGED <<now, buf, rollup, upto, taken, lastRoll, lastPrune, api,
                   received, restarts, late>>

-----------------------------------------------------------------------------
(* device_telemetry with step=1m: flush, then the query in two statements. *)

ApiFlushTake(since) ==
    /\ Up
    /\ api.pc = "idle"
    /\ api' = [api EXCEPT !.pc = "insert", !.taken = buf, !.since = since]
    /\ buf' = {}
    /\ UNCHANGED <<now, ticked, raw, rollup, upto, loopVars, received, restarts, late>>

ApiFlushInsert ==
    /\ api.pc = "insert"
    /\ api' = [api EXCEPT !.pc = "read", !.taken = {}]
    /\ Insert(api.taken)
    /\ UNCHANGED <<now, ticked, buf, rollup, upto, loopVars, received, restarts>>

\* The buckets the first statement returns.
Buckets(since) == {b \in Time : rollup[b] # {} /\ b >= since - Minute}

\* Mutant of TailFrom: the tail starts inside the last bucket read.
TailFromBucket(since) == Max(Buckets(since) \cup {since})

\* Where the aggregation of raw rows takes over.
TailFrom(since) == Max({b + Minute : b \in Buckets(since)} \cup {since})

ApiReadRollup ==
    /\ api.pc = "read"
    /\ api' = [api EXCEPT !.pc = "raw",
                          !.rows = UNION {rollup[b] : b \in Buckets(api.since)},
                          !.from = TailFrom(api.since)]
    /\ UNCHANGED <<now, ticked, buf, raw, rollup, upto, loopVars, received, restarts, late>>

\* _agg_raw: the rows of the answer that come from the raw table.
Tail1m == {r \in raw : r.ts >= api.from}

ApiReadRaw ==
    /\ api.pc = "raw"
    /\ api' = Idle
    /\ UNCHANGED <<now, ticked, buf, raw, rollup, upto, loopVars, received, restarts, late>>

-----------------------------------------------------------------------------
(* Time and restarts.                                                      *)

\* Assumption: a round of the loop takes less than a time unit (RollEvery).
PassTime ==
    /\ now < MaxTime
    /\ ~ticked
    /\ now' = now + 1
    /\ ticked' = Up
    /\ UNCHANGED <<buf, raw, rollup, upto, loopVars, api, received, restarts, late>>

Down ==
    /\ Up
    /\ restarts < MaxRestarts
    /\ restarts' = restarts + 1
    /\ pc' = "down"
    /\ buf' = {}
    /\ taken' = {}
    /\ api' = Idle
    /\ ticked' = FALSE
    /\ round' = 0 /\ end' = 0 /\ lastRoll' = 0 /\ lastPrune' = 0
    /\ UNCHANGED <<now, rollup, upto, received>>

\* lifespan, close: the buffer is flushed; a thread that is still between its
\* locks writes its rows before the connection is closed, or fails.
Stop == \E held \in SUBSET {taken, api.taken} : Insert(buf \cup UNION held) /\ Down

Crash == Down /\ UNCHANGED <<raw, late>>

\* Mutant of Start: the time of the last prune is not initialised to now.
StartPruneDue ==
    /\ pc = "down"
    /\ pc' = "sleep"
    /\ lastRoll' = now
    /\ lastPrune' = 0
    /\ UNCHANGED <<now, ticked, buf, raw, rollup, upto, taken, round, end, api,
                   received, restarts, late>>

Start ==
    /\ pc = "down"
    /\ pc' = "sleep"
    /\ lastRoll' = now
    /\ lastPrune' = now
    /\ UNCHANGED <<now, ticked, buf, raw, rollup, upto, taken, round, end, api,
                   received, restarts, late>>

Next ==
    \/ BufferTelemetry
    \/ FlushTake
    \/ FlushInsert
    \/ DecideRollup
    \/ RollupBegin
    \/ RollupCommit
    \/ DecidePrune
    \/ Prune
    \/ \E since \in Time : ApiFlushTake(since)
    \/ ApiFlushInsert
    \/ ApiReadRollup
    \/ ApiReadRaw
    \/ PassTime
    \/ Stop
    \/ Crash
    \/ Start

Spec == Init /\ [][Next]_vars

-----------------------------------------------------------------------------
\* What the backend holds of the rows it has received.
Held == buf \cup taken \cup api.taken \cup raw

\* A received sample is never dropped between the receive path, two flushes in
\* different threads and the tables: only prune, a crash, or a stop that closes
\* the database under a running flush ends it (buffer_telemetry, flush).
NothingDropped == [][Prune \/ Stop \/ Crash \/ Held \subseteq Held']_vars

\* Prune deletes no row whose minute has not been rolled up, also in the first
\* rounds after a long downtime; late rows are the exception (maintenance_loop).
PrunedAreRolledUp ==
    [][\A r \in raw \ raw' : r \in rollup[Bucket(r)] \cup late]_vars

\* The 1-minute query, although its two statements are not one transaction,
\* counts every stored row of the range exactly once, unless it is late
\* (telemetry, rollup).
QueryCountsOnce ==
    api.pc = "raw" =>
        /\ api.rows \cap Tail1m = {}
        /\ \A r \in raw \ late : r.ts >= api.since => r \in api.rows \cup Tail1m
==============================================================================
