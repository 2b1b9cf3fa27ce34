----------------------------- MODULE Monitoring ------------------------------
(***************************************************************************)
(* Presence and alerts of one device: the in-memory statistics and the     *)
(* offline and stats loops of backend/app/ingest.py, the devices and       *)
(* device_stats tables, and the alert engine they drive.  The backend may  *)
(* stop (stop() saves the statistics) or crash, also between the two       *)
(* database writes of _set_online, and is started again on its database.   *)
(***************************************************************************)
EXTENDS AlertEngine

CONSTANTS
    OfflineAfter,   \* OFFLINE_AFTER_S
    MaxRestarts     \* bound: stops and crashes of the backend

ASSUME MonitoringAssumption ==
    /\ OfflineAfter \in Nat /\ MaxRestarts \in Nat
    /\ None \notin [online : BOOLEAN, seen : Nat]

VARIABLES
    tracked,    \* the device is a key of self.stats
    online,     \* s.online
    seen,       \* age of s.last_seen, or None
    row,        \* devices row: None or [online, seen]
    saved,      \* device_stats row: None or [seen]
    statsPc,    \* _stats_loop: about to "persist" or to "tick"
    restarts,
    quiet,      \* ghost: age of the last HELLO, HEARTBEAT or TELEMETRY
    hot         \* ghost: per rule, age of the last sample that made it true

presenceVars == <<tracked, online, seen, row, saved, statsPc>>

vars == <<engineVars, presenceVars, restarts, quiet, hot>>

SeenAge == (0 .. OfflineAfter + 1) \cup {None}

TypeOK ==
    /\ EngineTypeOK
    /\ tracked \in BOOLEAN
    /\ online \in BOOLEAN
    /\ seen \in SeenAge
    /\ row \in [online : BOOLEAN, seen : SeenAge \ {None}] \cup {None}
    /\ saved \in [seen : SeenAge] \cup {None}
    /\ statsPc \in {"persist", "tick"}
    /\ restarts \in 0 .. MaxRestarts
    /\ quiet \in SeenAge
    /\ hot \in [Rules -> (0 .. Hold) \cup {None}]

Init ==
    /\ EngineInit
    /\ tracked = FALSE
    /\ online = FALSE
    /\ seen = None
    /\ row = None
    /\ saved = None
    /\ statsPc = "persist"
    /\ restarts = 0
    /\ quiet = None
    /\ hot = [r \in Rules |-> None]

-----------------------------------------------------------------------------
(* Frames.                                                                 *)

\* _seen: an offline device comes online, and on_online resolves its alert.
Seen(rowSeen) ==
    /\ tracked' = TRUE
    /\ online' = TRUE
    /\ seen' = 0
    /\ row' = [online |-> (IF online THEN row.online ELSE TRUE), seen |-> rowSeen]

\* Mutant of BackOnline: on_online asks the engine's memory, not the database.
BackOnlineInMemory == {r \in {"offline"} : ~online /\ active[r] # None}

\* The rules resolved by _seen: resolve pops st.active as well.
BackOnline == {r \in {"offline"} : ~online /\ HasOpenAlert(r)}

\* handle_telemetry: _seen, then on_telemetry marks the rules in conds.
Telemetry(conds) ==
    /\ Seen(0)
    /\ active' = [r \in AllRules |-> IF r \in BackOnline THEN None ELSE MarkActive(conds)[r]]
    /\ open' = [r \in AllRules |->
                  IF r \in BackOnline THEN Resolved(open[r]) ELSE MarkOpen(conds)[r]]
    /\ quiet' = 0
    /\ hot' = [r \in Rules |-> IF r \in conds THEN 0 ELSE hot[r]]
    /\ UNCHANGED <<ruleset, saved, statsPc>>

\* HELLO and HEARTBEAT: upsert_device and _seen.
Heartbeat == Telemetry({})

\* LOG: _seen alone, last_seen of the devices row keeps its value.
LogFrame ==
    /\ row # None
    /\ Seen(row.seen)
    /\ active' = [r \in AllRules |-> IF r \in BackOnline THEN None ELSE active[r]]
    /\ open' = [r \in AllRules |-> IF r \in BackOnline THEN Resolved(open[r]) ELSE open[r]]
    /\ UNCHANGED <<ruleset, saved, statsPc, quiet, hot>>

\* CONFIG_ACK(applied) on a connection of this process: upsert_device writes last_seen
\* of the devices row, without _seen.
ConfigAck ==
    /\ tracked
    /\ row # None
    /\ row' = [row EXCEPT !.seen = 0]
    /\ UNCHANGED <<engineVars, tracked, online, seen, saved, statsPc, quiet, hot>>

\* on_datagram with a good header and a bad CRC: a statistics entry, no more.
BadDatagram ==
    /\ ~tracked
    /\ tracked' = TRUE
    /\ UNCHANGED <<engineVars, online, seen, row, saved, statsPc, quiet, hot>>

-----------------------------------------------------------------------------
(* Background loops.                                                       *)

\* Mutant of Overdue: a device this process has not heard is offline at once.
OverdueAfterRestart ==
    \/ online /\ seen > OfflineAfter
    \/ ~tracked /\ row # None /\ row.online

\* Mutant of Overdue: only devices seen by this process.
OverdueInMemory == online /\ seen > OfflineAfter

\* _offline_loop: a device seen by this process, or known from the database only.
Overdue ==
    \/ online /\ seen > OfflineAfter
    \/ ~tracked /\ row # None /\ row.online /\ row.seen > OfflineAfter

\* _set_online(False), then on_offline if that rule is enabled.
OfflineLoop ==
    /\ Overdue
    /\ tracked' = TRUE
    /\ online' = FALSE
    /\ row' = [row EXCEPT !.online = FALSE]
    /\ Mark({"offline"} \cap ruleset)
    /\ UNCHANGED <<ruleset, seen, saved, statsPc, quiet, hot>>

Persisted == IF tracked THEN [seen |-> seen] ELSE saved

\* _stats_loop: _persist_stats in a thread, and when it is done, engine.tick().
PersistStats ==
    /\ statsPc = "persist"
    /\ statsPc' = "tick"
    /\ saved' = Persisted
    /\ UNCHANGED <<engineVars, tracked, online, seen, row, quiet, hot>>

EngineTick ==
    /\ statsPc = "tick"
    /\ statsPc' = "persist"
    /\ Tick
    /\ UNCHANGED <<tracked, online, seen, row, saved, quiet, hot>>

-----------------------------------------------------------------------------
(* Restarts.  A new process rebuilds self.stats from device_stats rows.    *)

Reloaded(stats) ==
    /\ tracked' = (stats # None)
    /\ seen' = IF stats = None THEN None ELSE stats.seen
    /\ online' = FALSE
    /\ saved' = stats
    /\ statsPc' = "persist"
    /\ EngineRestart
    /\ restarts < MaxRestarts
    /\ restarts' = restarts + 1
    /\ UNCHANGED hot

Stop == Reloaded(Persisted) /\ UNCHANGED <<row, open, quiet>>

Crash == Reloaded(saved) /\ UNCHANGED <<row, open, quiet>>

\* The process dies in _set_online, after the UPDATE of devices and before the
\* alert is opened (going offline) or resolved (coming online).
CrashGoingOffline ==
    /\ Overdue
    /\ Reloaded(saved)
    /\ row' = [row EXCEPT !.online = FALSE]
    /\ UNCHANGED <<open, quiet>>

CrashComingOnline ==
    /\ ~online
    /\ Reloaded(saved)
    /\ row' = [online |-> TRUE, seen |-> 0]
    /\ quiet' = 0
    /\ UNCHANGED open

-----------------------------------------------------------------------------
PassTime ==
    /\ EnginePassTime
    /\ seen' = Older(seen, OfflineAfter + 1)
    /\ row' = IF row = None THEN row ELSE [row EXCEPT !.seen = Older(@, OfflineAfter + 1)]
    /\ saved' = IF saved = None THEN saved ELSE [seen |-> Older(saved.seen, OfflineAfter + 1)]
    /\ quiet' = Older(quiet, OfflineAfter + 1)
    /\ hot' = [r \in Rules |-> Older(hot[r], Hold)]
    /\ UNCHANGED <<tracked, online, statsPc>>

Api ==
    /\ \/ \E r \in AllRules : \E i \in DOMAIN open[r] : AckAlert(r, i)
       \/ \E rs \in SUBSET AllRules : SetRules(rs)
    /\ UNCHANGED <<presenceVars, quiet, hot>>

Next ==
    \/ (\E conds \in SUBSET (Rules \cap ruleset) : Telemetry(conds)) /\ UNCHANGED restarts
    \/ Heartbeat /\ UNCHANGED restarts
    \/ LogFrame /\ UNCHANGED restarts
    \/ ConfigAck /\ UNCHANGED restarts
    \/ BadDatagram /\ UNCHANGED restarts
    \/ OfflineLoop /\ UNCHANGED restarts
    \/ PersistStats /\ UNCHANGED restarts
    \/ EngineTick /\ UNCHANGED restarts
    \/ Api /\ UNCHANGED restarts
    \/ PassTime /\ UNCHANGED restarts
    \/ Stop
    \/ Crash
    \/ CrashGoingOffline
    \/ CrashComingOnline

Spec == Init /\ [][Next]_vars

(***************************************************************************)
(* Fairness: time passes, and the two loops of a running backend take      *)
(* their turn.  Frames, requests and restarts need not happen.             *)
(***************************************************************************)
FairSpec ==
    /\ Spec
    /\ WF_vars(PassTime /\ UNCHANGED restarts)
    /\ WF_vars(OfflineLoop /\ UNCHANGED restarts)
    /\ WF_vars((PersistStats \/ EngineTick) /\ UNCHANGED restarts)

-----------------------------------------------------------------------------
\* The engine's promise: one open alert per rule, whatever is acknowledged,
\* re-raised, swept or left behind by an earlier process (_mark, open_alert).
OneOpenAlert == \A r \in AllRules : Len(open[r]) <= 1

\* A device this process shows online is online in the database and has no open
\* offline alert, also after a crash inside _set_online (_seen, on_online).
OnlineIsClean == online => row.online /\ ~HasOpenAlert("offline")

\* The database marks a device offline only after it has really been silent for
\* longer than OfflineAfter, also right after a restart (_offline_loop).
OnlySilentGoOffline ==
    [][row # None /\ row.online /\ ~row'.online => quiet > OfflineAfter]_vars

\* An alert is resolved only when its condition has been clear for Hold, or when
\* it is Hold old and this process has not seen its condition (tick).
ResolvedOnlyWhenClear ==
    [][\A r \in Rules : HasOpenAlert(r) /\ Len(open'[r]) < Len(open[r]) =>
         \/ hot[r] >= Hold
         \/ active[r] = None /\ open[r][Len(open[r])].age >= Hold]_vars

\* Every alert is resolved once its condition stays clear, also when it was
\* acknowledged, its rule was removed, or the process that opened it is gone.
AlertsClear ==
    \A r \in Rules : HasOpenAlert(r) ~> (~HasOpenAlert(r) \/ active[r] = 0
                                          \/ open[r][Len(open[r])].age = 0)

\* The offline loop watches a device: this process has seen it, or has not yet
\* any statistics entry for it.
Watched == row # None /\ row.online /\ (online \/ ~tracked)

\* A watched device that falls silent is marked offline.
SilentGoesOffline == Watched ~> (~Watched \/ seen = 0 \/ row.seen = 0)

-----------------------------------------------------------------------------
DbOnline == row # None /\ row.online

\* docs/protocol.md: "Backend marks a device `offline` after 15 s without
\* HEARTBEAT or TELEMETRY".  So a device that this process shows online, and that has
\* a device_stats row, is heard again or marked offline, also by the next process.
OfflineIsNoticed == (online /\ saved # None) ~> (~DbOnline \/ seen = 0 \/ row.seen = 0)
==============================================================================
