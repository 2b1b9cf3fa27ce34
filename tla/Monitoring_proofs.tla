-------------------------- MODULE Monitoring_proofs --------------------------
(***************************************************************************)
(* Proofs about Monitoring for every set of rules, every hold time and     *)
(* offline limit, and any number of stops and crashes.                     *)
(***************************************************************************)
EXTENDS Monitoring, SequenceTheorems, TLAPS

\* A device shown online has a row in the database that agrees, no open offline
\* alert, and was seen no longer ago than it was really heard.
Presence ==
    online =>
        /\ row # None /\ row.online
        /\ open["offline"] = <<>>
        /\ seen # None /\ seen <= quiet

\* devices.last_seen is never older than the last HELLO, HEARTBEAT or TELEMETRY; an
\* acknowledged configuration may have renewed it since.
RowIsQuiet == row # None => quiet # None /\ row.seen <= quiet

\* What this process remembers of a condition is when it was really last true.
ActiveIsHot == \A r \in Rules : active[r] # None => hot[r] = active[r]

\* The inductive invariant.
MonInv == TypeOK /\ OneOpenAlert /\ Presence /\ RowIsQuiet /\ ActiveIsHot

-----------------------------------------------------------------------------
(* Operators of the engine.                                                *)

\* Resolving keeps the type of the rows and leaves at most what was there less one.
LEMMA ResolvedType ==
    ASSUME NEW rows \in Seq(AlertRow), Len(rows) <= 1
    PROVE  Resolved(rows) = <<>>
<1>1. CASE rows = <<>>
  BY <1>1 DEF Resolved
<1>2. CASE rows # <<>>
  <2>1. Len(rows) \in Nat \ {0}
    BY <1>2, EmptySeq
  <2>2. Len(rows) = 1
    BY <2>1
  <2>3. Resolved(rows) = SubSeq(rows, 1, 0)
    BY <1>2, <2>2 DEF Resolved
  <2>4. QED
    BY <2>3
<1>3. QED
  BY <1>1, <1>2

LEMMA OlderType ==
    ASSUME NEW limit \in Nat, NEW age \in (0 .. limit) \cup {None}
    PROVE  /\ Older(age, limit) \in (0 .. limit) \cup {None}
           /\ Older(age, limit) = None <=> age = None
BY EngineAssumption DEF Older

\* Marking rules keeps the types and opens at most one alert per rule.
LEMMA MarkType ==
    ASSUME EngineTypeOK, OneOpenAlert, NEW conds
    PROVE  /\ MarkActive(conds) \in [AllRules -> (0 .. Hold) \cup {None}]
           /\ MarkOpen(conds) \in [AllRules -> Seq(AlertRow)]
           /\ \A r \in AllRules : Len(MarkOpen(conds)[r]) <= 1
<1>1. NewAlert \in AlertRow
  BY EngineAssumption DEF NewAlert, AlertRow
<1>2. ASSUME NEW r \in AllRules
      PROVE  MarkOpen(conds)[r] \in Seq(AlertRow) /\ Len(MarkOpen(conds)[r]) <= 1
  <2>1. open[r] \in Seq(AlertRow) /\ Len(open[r]) <= 1
    BY DEF EngineTypeOK, OneOpenAlert
  <2>2. CASE r \in conds /\ ~HasOpenAlert(r)
    BY <1>1, <2>1, <2>2 DEF HasOpenAlert, MarkOpen
  <2>3. CASE ~(r \in conds /\ ~HasOpenAlert(r))
    BY <2>1, <2>3 DEF MarkOpen
  <2>4. QED
    BY <2>2, <2>3
<1>3. QED
  BY <1>2, EngineAssumption DEF EngineTypeOK, MarkActive, MarkOpen

\* tick keeps the types and opens nothing.
LEMMA TickType ==
    ASSUME EngineTypeOK, OneOpenAlert, Tick
    PROVE  /\ EngineTypeOK' /\ OneOpenAlert'
           /\ open'["offline"] = open["offline"]
           /\ \A r \in Rules : active'[r] \in {active[r], None}
<1>1. ASSUME NEW r \in AllRules
      PROVE  open'[r] \in Seq(AlertRow) /\ Len(open'[r]) <= 1
  <2>1. open[r] \in Seq(AlertRow) /\ Len(open[r]) <= 1
    BY DEF EngineTypeOK, OneOpenAlert
  <2>2. Resolved(open[r]) = <<>>
    BY <2>1, ResolvedType
  <2>3. open'[r] = open[r] \/ open'[r] = <<>>
    BY <2>2 DEF Tick
  <2>4. CASE open'[r] = open[r]
    BY <2>1, <2>4
  <2>5. CASE open'[r] = <<>>
    BY <2>5
  <2>6. QED
    BY <2>3, <2>4, <2>5
<1>2. open' \in [AllRules -> Seq(AlertRow)]
  BY <1>1 DEF Tick
<1>3. active' \in [AllRules -> (0 .. Hold) \cup {None}]
  BY DEF Tick, EngineTypeOK
<1>4. "offline" \in AllRules /\ "offline" \notin Expired \cup Orphaned /\ Rules \subseteq AllRules
  BY EngineAssumption DEF AllRules, Expired, Orphaned
<1>5. open'["offline"] = open["offline"] /\ \A r \in Rules : active'[r] \in {active[r], None}
  BY <1>4 DEF Tick
<1>6. QED
  BY <1>1, <1>2, <1>3, <1>5 DEF Tick, EngineTypeOK, OneOpenAlert

\* Time changes no number of alerts.
LEMMA PassTimeType ==
    ASSUME EngineTypeOK, OneOpenAlert, EnginePassTime
    PROVE  /\ EngineTypeOK' /\ OneOpenAlert'
           /\ \A r \in AllRules : Len(open'[r]) = Len(open[r]) /\ (open[r] = <<>> => open'[r] = <<>>)
           /\ \A r \in AllRules : active'[r] = Older(active[r], Hold)
<1>1. ASSUME NEW r \in AllRules
      PROVE  open'[r] \in Seq(AlertRow) /\ Len(open'[r]) = Len(open[r])
  <2>1. open[r] \in Seq(AlertRow) /\ DOMAIN open[r] = 1 .. Len(open[r])
    BY DEF EngineTypeOK
  <2>2. ASSUME NEW i \in 1 .. Len(open[r])
        PROVE  [open[r][i] EXCEPT !.age = Older(@, Hold)] \in AlertRow
    <3>1. open[r][i] \in AlertRow
      BY <2>1
    <3>2. Older(open[r][i].age, Hold) \in 0 .. Hold
      BY <3>1, OlderType, EngineAssumption DEF AlertRow
    <3>3. QED
      BY <3>1, <3>2 DEF AlertRow
  <2>3. open'[r] = [i \in 1 .. Len(open[r]) |-> [open[r][i] EXCEPT !.age = Older(@, Hold)]]
    BY <2>1 DEF EnginePassTime
  <2>4. QED
    BY <2>1, <2>2, <2>3
<1>2. open' \in [AllRules -> Seq(AlertRow)]
  BY <1>1 DEF EnginePassTime
<1>3. active' \in [AllRules -> (0 .. Hold) \cup {None}]
  BY OlderType, EngineAssumption DEF EnginePassTime, EngineTypeOK
<1>4. \A r \in AllRules : open[r] = <<>> => open'[r] = <<>>
  BY <1>1, EmptySeq DEF EngineTypeOK
<1>5. QED
  BY <1>1, <1>2, <1>3, <1>4 DEF EnginePassTime, EngineTypeOK, OneOpenAlert

\* An acknowledgement changes one row in place.
LEMMA AckType ==
    ASSUME EngineTypeOK, OneOpenAlert, NEW r \in AllRules, NEW i \in DOMAIN open[r], AckAlert(r, i)
    PROVE  /\ EngineTypeOK' /\ OneOpenAlert'
           /\ \A x \in AllRules : Len(open'[x]) = Len(open[x])
           /\ open["offline"] = <<>> => open'["offline"] = <<>>
<1> DEFINE acked == [status |-> "acked", age |-> 0]
<1>1. acked \in AlertRow
  BY EngineAssumption DEF AlertRow
<1>2. open[r] \in Seq(AlertRow)
  BY DEF EngineTypeOK
<1>3. acked \in AlertRow /\ open[r] \in Seq(AlertRow) /\ i \in 1 .. Len(open[r])
  BY <1>1, <1>2
<1>4. [open[r] EXCEPT ![i] = acked] \in Seq(AlertRow) /\ Len([open[r] EXCEPT ![i] = acked]) = Len(open[r])
  BY <1>3, ExceptSeq
<1>5. open' = [open EXCEPT ![r] = [open[r] EXCEPT ![i] = acked]]
  BY DEF AckAlert
<1>6. open' \in [AllRules -> Seq(AlertRow)] /\ \A x \in AllRules : Len(open'[x]) = Len(open[x])
  BY <1>4, <1>5 DEF EngineTypeOK
<1>7. open["offline"] = <<>> => r # "offline"
  BY <1>3, EmptySeq
<1>8. QED
  BY <1>5, <1>6, <1>7 DEF AckAlert, EngineTypeOK, OneOpenAlert, AllRules

-----------------------------------------------------------------------------
(* The invariant.                                                          *)

LEMMA MonInit == Init => MonInv
<1> SUFFICES ASSUME Init PROVE MonInv
  OBVIOUS
<1>1. EngineTypeOK
  BY EmptySeq DEF Init, EngineInit, EngineTypeOK
<1>2. OneOpenAlert
  BY EmptySeq DEF Init, EngineInit, OneOpenAlert
<1>3. TypeOK
  <2>1. restarts \in 0 .. MaxRestarts
    BY MonitoringAssumption DEF Init
  <2>2. row \in {None} /\ saved \in {None}
    BY DEF Init
  <2>3. QED
    BY <1>1, <2>1, <2>2 DEF Init, TypeOK, SeenAge
<1>4. Presence /\ RowIsQuiet /\ ActiveIsHot
  BY DEF Init, EngineInit, Presence, RowIsQuiet, ActiveIsHot, AllRules
<1>5. QED
  BY <1>2, <1>3, <1>4 DEF MonInv

\* A row of devices is never the value that stands for no row.
LEMMA RowIsARow ==
    ASSUME NEW o \in BOOLEAN, NEW a \in 0 .. OfflineAfter + 1
    PROVE  /\ [online |-> o, seen |-> a] # None
           /\ [online |-> o, seen |-> a] \in [online : BOOLEAN, seen : SeenAge \ {None}]
<1>1. a \in Nat /\ a # None /\ a \in SeenAge
  BY EngineAssumption, MonitoringAssumption DEF SeenAge
<1>2. [online |-> o, seen |-> a] \in [online : BOOLEAN, seen : Nat]
  BY <1>1
<1>3. QED
  BY <1>1, <1>2, MonitoringAssumption

\* What a known row says of the ages.
LEMMA RowAge ==
    ASSUME MonInv, row # None
    PROVE  /\ row.online \in BOOLEAN /\ row.seen \in 0 .. OfflineAfter + 1
           /\ row = [online |-> row.online, seen |-> row.seen]
           /\ quiet \in 0 .. OfflineAfter + 1 /\ quiet # None /\ row.seen <= quiet
BY DEF MonInv, TypeOK, SeenAge, RowIsQuiet

\* _seen resolves an offline alert, so that none is open when the device is online.
LEMMA BackOnlineClears ==
    ASSUME MonInv
    PROVE  IF "offline" \in BackOnline THEN Resolved(open["offline"]) = <<>> ELSE open["offline"] = <<>>
<1>1. open["offline"] \in Seq(AlertRow) /\ Len(open["offline"]) <= 1
  BY DEF MonInv, TypeOK, EngineTypeOK, OneOpenAlert, AllRules
<1>2. Resolved(open["offline"]) = <<>>
  BY <1>1, ResolvedType
<1>3. QED
  BY <1>2 DEF BackOnline, HasOpenAlert, MonInv, Presence

\* BackOnline concerns the offline rule only.
LEMMA BackOnlineRules == BackOnline \subseteq {"offline"} /\ BackOnline \cap Rules = {} /\ Rules \subseteq AllRules
BY EngineAssumption DEF BackOnline, AllRules

LEMMA TelemetryStep ==
    ASSUME MonInv, NEW conds \in SUBSET Rules, Telemetry(conds), UNCHANGED restarts
    PROVE  MonInv'
<1>1. /\ MarkActive(conds) \in [AllRules -> (0 .. Hold) \cup {None}]
      /\ MarkOpen(conds) \in [AllRules -> Seq(AlertRow)]
      /\ \A r \in AllRules : Len(MarkOpen(conds)[r]) <= 1
  BY MarkType DEF MonInv, TypeOK
<1>2. ASSUME NEW r \in AllRules
      PROVE  open'[r] \in Seq(AlertRow) /\ Len(open'[r]) <= 1
  <2>1. CASE r \in BackOnline
    <3>1. r = "offline" /\ open'[r] = Resolved(open["offline"])
      BY <2>1, BackOnlineRules DEF Telemetry
    <3>2. open'[r] = <<>>
      BY <2>1, <3>1, BackOnlineClears
    <3>3. QED
      BY <3>2
  <2>2. CASE r \notin BackOnline
    BY <1>1, <2>2 DEF Telemetry
  <2>3. QED
    BY <2>1, <2>2
<1>3. EngineTypeOK' /\ OneOpenAlert'
  <2>1. active' \in [AllRules -> (0 .. Hold) \cup {None}]
    BY <1>1 DEF Telemetry
  <2>2. open' \in [AllRules -> Seq(AlertRow)]
    BY <1>2 DEF Telemetry
  <2>3. QED
    BY <1>2, <2>1, <2>2 DEF MonInv, TypeOK, EngineTypeOK, OneOpenAlert, Telemetry
<1>4. row' = [online |-> TRUE, seen |-> 0]
  <2>1. CASE online
    BY <2>1 DEF MonInv, TypeOK, Presence, Telemetry, Seen
  <2>2. CASE ~online
    BY <2>2 DEF Telemetry, Seen
  <2>3. QED
    BY <2>1, <2>2
<1>5. /\ row' # None /\ row'.online /\ row'.seen = 0
      /\ row' \in [online : BOOLEAN, seen : SeenAge \ {None}]
  <2>1. 0 \in 0 .. OfflineAfter + 1
    BY MonitoringAssumption
  <2>2. QED
    BY <1>4, <2>1, RowIsARow
<1>6. open'["offline"] = <<>>
  <2>1. "offline" \in AllRules /\ "offline" \notin conds
    BY EngineAssumption DEF AllRules
  <2>2. MarkOpen(conds)["offline"] = open["offline"]
    BY <2>1 DEF MarkOpen
  <2>3. QED
    BY <2>1, <2>2, BackOnlineClears DEF Telemetry
<1>7. 0 \in SeenAge /\ 0 # None
  BY EngineAssumption, MonitoringAssumption DEF SeenAge
<1>8. hot' \in [Rules -> (0 .. Hold) \cup {None}]
  BY EngineAssumption DEF MonInv, TypeOK, Telemetry
<1>9. TypeOK'
  BY <1>3, <1>5, <1>7, <1>8 DEF MonInv, TypeOK, Telemetry, Seen
<1>10. Presence' /\ RowIsQuiet'
  <2>1. seen' = 0 /\ quiet' = 0 /\ online'
    BY DEF Telemetry, Seen
  <2>2. QED
    BY <1>5, <1>6, <1>7, <2>1 DEF Presence, RowIsQuiet
<1>11. ActiveIsHot'
  BY BackOnlineRules DEF MonInv, ActiveIsHot, Telemetry, MarkActive
<1>12. QED
  BY <1>3, <1>9, <1>10, <1>11 DEF MonInv

LEMMA LogFrameStep ==
    ASSUME MonInv, LogFrame, UNCHANGED restarts
    PROVE  MonInv'
<1>1. ASSUME NEW r \in AllRules
      PROVE  open'[r] \in Seq(AlertRow) /\ Len(open'[r]) <= 1
  <2>1. CASE r \in BackOnline
    <3>1. r = "offline" /\ open'[r] = Resolved(open["offline"])
      BY <2>1, BackOnlineRules DEF LogFrame
    <3>2. open'[r] = <<>>
      BY <2>1, <3>1, BackOnlineClears
    <3>3. QED
      BY <3>2
  <2>2. CASE r \notin BackOnline
    BY <2>2 DEF LogFrame, MonInv, TypeOK, EngineTypeOK, OneOpenAlert
  <2>3. QED
    BY <2>1, <2>2
<1>2. EngineTypeOK' /\ OneOpenAlert'
  <2>1. active' \in [AllRules -> (0 .. Hold) \cup {None}]
    BY DEF LogFrame, MonInv, TypeOK, EngineTypeOK
  <2>2. open' \in [AllRules -> Seq(AlertRow)]
    BY <1>1 DEF LogFrame
  <2>3. QED
    BY <1>1, <2>1, <2>2 DEF MonInv, TypeOK, EngineTypeOK, OneOpenAlert, LogFrame
<1>3. row # None
  BY DEF LogFrame
<1>4. row' = [online |-> TRUE, seen |-> row.seen]
  <2>1. CASE online
    BY <2>1 DEF MonInv, TypeOK, Presence, LogFrame, Seen
  <2>2. CASE ~online
    BY <2>2 DEF LogFrame, Seen
  <2>3. QED
    BY <2>1, <2>2
<1>5. /\ row.seen \in 0 .. OfflineAfter + 1 /\ row.seen <= quiet
      /\ quiet \in 0 .. OfflineAfter + 1 /\ quiet # None
  BY <1>3, RowAge
<1>6. /\ row' # None /\ row'.online /\ row'.seen <= quiet
      /\ row' \in [online : BOOLEAN, seen : SeenAge \ {None}]
  BY <1>4, <1>5, RowIsARow
<1>7. open'["offline"] = <<>>
  <2>1. "offline" \in AllRules
    BY DEF AllRules
  <2>2. QED
    BY <2>1, BackOnlineClears DEF LogFrame
<1>8. 0 \in SeenAge /\ 0 # None /\ 0 <= quiet /\ quiet # None
  BY <1>5, EngineAssumption, MonitoringAssumption DEF SeenAge
<1>9. TypeOK'
  BY <1>2, <1>6, <1>8 DEF MonInv, TypeOK, LogFrame, Seen
<1>10. Presence' /\ RowIsQuiet'
  BY <1>6, <1>7, <1>8 DEF LogFrame, Seen, Presence, RowIsQuiet
<1>11. ActiveIsHot'
  BY BackOnlineRules DEF MonInv, ActiveIsHot, LogFrame
<1>12. QED
  BY <1>2, <1>9, <1>10, <1>11 DEF MonInv

LEMMA ConfigAckStep ==
    ASSUME MonInv, ConfigAck, UNCHANGED restarts
    PROVE  MonInv'
<1>1. row # None
  BY DEF ConfigAck
<1>2. /\ row.online \in BOOLEAN /\ row = [online |-> row.online, seen |-> row.seen]
      /\ quiet \in 0 .. OfflineAfter + 1 /\ quiet # None
  BY <1>1, RowAge
<1>3. row' = [online |-> row.online, seen |-> 0]
  BY <1>2 DEF ConfigAck
<1>4. /\ row' # None /\ row'.online = row.online /\ row'.seen = 0
      /\ row' \in [online : BOOLEAN, seen : SeenAge \ {None}]
  <2>1. 0 \in 0 .. OfflineAfter + 1
    BY MonitoringAssumption
  <2>2. QED
    BY <1>2, <1>3, <2>1, RowIsARow
<1>5. EngineTypeOK' /\ OneOpenAlert'
  BY DEF MonInv, TypeOK, ConfigAck, engineVars, EngineTypeOK, OneOpenAlert
<1>6. TypeOK'
  BY <1>4, <1>5 DEF MonInv, TypeOK, ConfigAck
<1>7. Presence'
  BY <1>4 DEF MonInv, Presence, ConfigAck, engineVars
<1>8. RowIsQuiet'
  <2>1. quiet' = quiet /\ 0 <= quiet
    BY <1>2 DEF ConfigAck
  <2>2. QED
    BY <1>2, <1>4, <2>1 DEF RowIsQuiet
<1>9. ActiveIsHot'
  BY DEF MonInv, ActiveIsHot, ConfigAck, engineVars
<1>10. QED
  BY <1>5, <1>6, <1>7, <1>8, <1>9 DEF MonInv

LEMMA OfflineLoopStep ==
    ASSUME MonInv, OfflineLoop, UNCHANGED restarts
    PROVE  MonInv'
<1>1. row # None
  BY DEF OfflineLoop, Overdue, MonInv, Presence
<1>2. row' = [online |-> FALSE, seen |-> row.seen]
  BY <1>1, RowAge DEF OfflineLoop
<1>3. /\ row' # None /\ row'.seen <= quiet /\ quiet # None
      /\ row' \in [online : BOOLEAN, seen : SeenAge \ {None}]
  BY <1>1, <1>2, RowAge, RowIsARow, EngineAssumption, MonitoringAssumption
<1>4. EngineTypeOK' /\ OneOpenAlert'
  BY MarkType DEF MonInv, TypeOK, OfflineLoop, Mark, EngineTypeOK, OneOpenAlert
<1>5. TypeOK'
  BY <1>3, <1>4 DEF MonInv, TypeOK, OfflineLoop
<1>6. Presence' /\ RowIsQuiet'
  BY <1>3 DEF OfflineLoop, Presence, RowIsQuiet
<1>7. ActiveIsHot'
  BY EngineAssumption DEF MonInv, ActiveIsHot, OfflineLoop, Mark, MarkActive, AllRules
<1>8. QED
  BY <1>4, <1>5, <1>6, <1>7 DEF MonInv

LEMMA EngineTickStep ==
    ASSUME MonInv, EngineTick, UNCHANGED restarts
    PROVE  MonInv'
<1>1. /\ EngineTypeOK' /\ OneOpenAlert'
      /\ open'["offline"] = open["offline"]
      /\ \A r \in Rules : active'[r] \in {active[r], None}
  BY TickType DEF MonInv, TypeOK, EngineTick
<1>2. TypeOK'
  BY <1>1 DEF MonInv, TypeOK, EngineTick
<1>3. Presence' /\ RowIsQuiet' /\ ActiveIsHot'
  BY <1>1 DEF MonInv, EngineTick, Presence, RowIsQuiet, ActiveIsHot
<1>4. QED
  BY <1>1, <1>2, <1>3 DEF MonInv

\* Requests to the alerts API change rows in place or the rules in force.
LEMMA ApiStep ==
    ASSUME MonInv, Api, UNCHANGED restarts
    PROVE  MonInv'
<1> DEFINE Kept == /\ EngineTypeOK' /\ OneOpenAlert' /\ UNCHANGED active
                   /\ open["offline"] = <<>> => open'["offline"] = <<>>
<1>1. Kept
  <2>1. ASSUME NEW r \in AllRules, NEW i \in DOMAIN open[r], AckAlert(r, i)
        PROVE  Kept
    BY <2>1, AckType DEF MonInv, TypeOK, AckAlert
  <2>2. ASSUME NEW rs \in SUBSET AllRules, SetRules(rs)
        PROVE  Kept
    BY <2>2 DEF MonInv, TypeOK, SetRules, EngineTypeOK, OneOpenAlert
  <2>3. QED
    BY <2>1, <2>2 DEF Api
<1>2. TypeOK'
  BY <1>1 DEF MonInv, TypeOK, Api, presenceVars
<1>3. Presence' /\ RowIsQuiet' /\ ActiveIsHot'
  BY <1>1 DEF MonInv, Api, presenceVars, Presence, RowIsQuiet, ActiveIsHot
<1>4. QED
  BY <1>1, <1>2, <1>3 DEF MonInv

\* A new process: nothing is online in memory and no condition is remembered.
LEMMA ReloadedStep ==
    ASSUME MonInv, NEW stats \in [seen : SeenAge] \cup {None}, Reloaded(stats), open' = open,
           row' \in [online : BOOLEAN, seen : SeenAge \ {None}] \cup {None},
           quiet' \in SeenAge, RowIsQuiet'
    PROVE  MonInv'
<1>1. EngineTypeOK' /\ OneOpenAlert'
  BY DEF MonInv, TypeOK, EngineTypeOK, OneOpenAlert, Reloaded, EngineRestart
<1>2. restarts' \in 0 .. MaxRestarts
  BY MonitoringAssumption DEF MonInv, TypeOK, Reloaded
<1>3. tracked' \in BOOLEAN /\ seen' \in SeenAge
  BY DEF Reloaded, SeenAge
<1>4. TypeOK'
  BY <1>1, <1>2, <1>3 DEF MonInv, TypeOK, Reloaded
<1>5. Presence'
  BY DEF Reloaded, Presence
<1>6. ActiveIsHot'
  BY DEF Reloaded, EngineRestart, ActiveIsHot, AllRules
<1>7. QED
  BY <1>1, <1>4, <1>5, <1>6 DEF MonInv

LEMMA RestartStep ==
    ASSUME MonInv, Stop \/ Crash \/ CrashGoingOffline \/ CrashComingOnline
    PROVE  MonInv'
<1>1. Persisted \in [seen : SeenAge] \cup {None} /\ saved \in [seen : SeenAge] \cup {None}
  BY DEF MonInv, TypeOK, Persisted
<1>2. CASE Stop
  BY <1>1, <1>2, ReloadedStep DEF Stop, MonInv, TypeOK, RowIsQuiet
<1>3. CASE Crash
  BY <1>1, <1>3, ReloadedStep DEF Crash, MonInv, TypeOK, RowIsQuiet
<1>4. CASE CrashGoingOffline
  <2>1. row # None
    BY <1>4 DEF CrashGoingOffline, Overdue, MonInv, Presence
  <2>2. row' = [online |-> FALSE, seen |-> row.seen]
    BY <1>4, <2>1, RowAge DEF CrashGoingOffline
  <2>3. /\ row' \in [online : BOOLEAN, seen : SeenAge \ {None}]
        /\ row'.seen <= quiet /\ quiet # None
    BY <2>1, <2>2, RowAge, RowIsARow, EngineAssumption, MonitoringAssumption
  <2>4. QED
    BY <1>1, <1>4, <2>3, ReloadedStep DEF CrashGoingOffline, MonInv, TypeOK, RowIsQuiet
<1>5. CASE CrashComingOnline
  <2>1. 0 \in 0 .. OfflineAfter + 1 /\ 0 \in SeenAge /\ 0 # None
    BY EngineAssumption, MonitoringAssumption DEF SeenAge
  <2>2. row' \in [online : BOOLEAN, seen : SeenAge \ {None}] /\ row'.seen = 0 /\ quiet' = 0
    BY <1>5, <2>1, RowIsARow DEF CrashComingOnline
  <2>3. QED
    BY <1>1, <1>5, <2>1, <2>2, ReloadedStep DEF CrashComingOnline, RowIsQuiet
<1>6. QED
  BY <1>2, <1>3, <1>4, <1>5

LEMMA PassTimeStep ==
    ASSUME MonInv, PassTime, UNCHANGED restarts
    PROVE  MonInv'
<1> DEFINE L == OfflineAfter + 1
<1>1. L \in Nat /\ SeenAge = (0 .. L) \cup {None}
  BY MonitoringAssumption DEF SeenAge
<1>2. /\ EngineTypeOK' /\ OneOpenAlert'
      /\ \A r \in AllRules : open[r] = <<>> => open'[r] = <<>>
      /\ \A r \in AllRules : active'[r] = Older(active[r], Hold)
  BY PassTimeType DEF MonInv, TypeOK, PassTime
<1>3. /\ seen' = Older(seen, L) /\ quiet' = Older(quiet, L)
      /\ seen' \in SeenAge /\ quiet' \in SeenAge
      /\ seen' = None <=> seen = None
      /\ quiet' = None <=> quiet = None
  BY <1>1, OlderType DEF MonInv, TypeOK, PassTime
<1>4. row # None => /\ row' = [online |-> row.online, seen |-> Older(row.seen, L)]
                    /\ Older(row.seen, L) \in 0 .. L
                    /\ row' # None
                    /\ row' \in [online : BOOLEAN, seen : SeenAge \ {None}]
  <2>0. HAVE row # None
  <2>1. row.online \in BOOLEAN /\ row.seen \in 0 .. L /\ row = [online |-> row.online, seen |-> row.seen]
    BY <2>0, RowAge
  <2>2. row' = [online |-> row.online, seen |-> Older(row.seen, L)]
    BY <2>0, <2>1 DEF PassTime
  <2>3. Older(row.seen, L) \in 0 .. L
    BY <1>1, <2>1, OlderType, EngineAssumption DEF Older
  <2>4. QED
    BY <2>1, <2>2, <2>3, RowIsARow
<1>5. row = None => row' = None
  BY DEF PassTime
<1>6. saved' \in [seen : SeenAge] \cup {None}
  <2>1. CASE saved = None
    BY <2>1 DEF PassTime
  <2>2. CASE saved # None
    <3>1. saved.seen \in SeenAge
      BY <2>2 DEF MonInv, TypeOK
    <3>2. Older(saved.seen, L) \in SeenAge
      BY <1>1, <3>1, OlderType
    <3>3. QED
      BY <2>2, <3>2 DEF PassTime
  <2>3. QED
    BY <2>1, <2>2
<1>7. hot' \in [Rules -> (0 .. Hold) \cup {None}]
  BY OlderType, EngineAssumption DEF MonInv, TypeOK, PassTime
<1>8. TypeOK'
  BY <1>2, <1>3, <1>4, <1>5, <1>6, <1>7 DEF MonInv, TypeOK, PassTime
<1>9. Presence'
  <2> SUFFICES ASSUME online' PROVE Presence'
    BY DEF Presence
  <2>1. /\ online /\ row # None /\ row.online /\ open["offline"] = <<>>
        /\ seen # None /\ seen <= quiet
    BY DEF MonInv, Presence, PassTime
  <2>2. row' # None /\ row'.online
    BY <1>4, <2>1
  <2>3. open'["offline"] = <<>>
    BY <1>2, <2>1 DEF AllRules
  <2>4. quiet # None /\ seen \in 0 .. L /\ quiet \in 0 .. L
    BY <1>1, <2>1 DEF MonInv, TypeOK, RowIsQuiet
  <2>5. seen' # None /\ seen' <= quiet'
    BY <1>1, <1>3, <2>1, <2>4, EngineAssumption DEF Older
  <2>6. QED
    BY <2>2, <2>3, <2>5 DEF Presence
<1>10. RowIsQuiet'
  <2>1. CASE row = None
    BY <1>5, <2>1 DEF RowIsQuiet
  <2>2. CASE row # None
    <3>1. PICK a, b : a = row.seen /\ b = quiet
      OBVIOUS
    <3>2. a \in 0 .. L /\ b \in 0 .. L /\ a <= b /\ a # None /\ b # None
      BY <1>1, <2>2, <3>1, RowAge, EngineAssumption
    <3>3. Older(a, L) <= Older(b, L)
      BY <1>1, <3>2 DEF Older
    <3>4. row'.seen = Older(a, L) /\ quiet' = Older(b, L) /\ quiet' # None
      BY <1>3, <1>4, <2>2, <3>1, <3>2
    <3>5. QED
      BY <3>3, <3>4 DEF RowIsQuiet
  <2>3. QED
    BY <2>1, <2>2
<1>11. ActiveIsHot'
  <2> SUFFICES ASSUME NEW r \in Rules, active'[r] # None PROVE hot'[r] = active'[r]
    BY DEF ActiveIsHot
  <2>1. active'[r] = Older(active[r], Hold) /\ hot'[r] = Older(hot[r], Hold)
    BY <1>2 DEF PassTime, AllRules
  <2>2. active[r] # None
    BY <2>1 DEF Older
  <2>3. QED
    BY <2>1, <2>2 DEF MonInv, ActiveIsHot
<1>12. QED
  BY <1>2, <1>8, <1>9, <1>10, <1>11 DEF MonInv

LEMMA MonStep == MonInv /\ [Next]_vars => MonInv'
<1> SUFFICES ASSUME MonInv, [Next]_vars PROVE MonInv'
  OBVIOUS
<1>1. ASSUME NEW conds \in SUBSET (Rules \cap ruleset), Telemetry(conds), UNCHANGED restarts
      PROVE  MonInv'
  BY <1>1, TelemetryStep
<1>2. CASE Heartbeat /\ UNCHANGED restarts
  BY <1>2, TelemetryStep DEF Heartbeat
<1>3. CASE LogFrame /\ UNCHANGED restarts
  BY <1>3, LogFrameStep
<1>3a. CASE ConfigAck /\ UNCHANGED restarts
  BY <1>3a, ConfigAckStep
<1>4. CASE BadDatagram /\ UNCHANGED restarts
  BY <1>4 DEF MonInv, BadDatagram, engineVars, TypeOK, EngineTypeOK, OneOpenAlert, Presence, RowIsQuiet,
     ActiveIsHot
<1>5. CASE OfflineLoop /\ UNCHANGED restarts
  BY <1>5, OfflineLoopStep
<1>6. CASE PersistStats /\ UNCHANGED restarts
  <2>1. saved' \in [seen : SeenAge] \cup {None}
    BY <1>6 DEF MonInv, TypeOK, PersistStats, Persisted
  <2>2. QED
    BY <1>6, <2>1 DEF MonInv, PersistStats, engineVars, TypeOK, EngineTypeOK, OneOpenAlert, Presence,
       RowIsQuiet, ActiveIsHot
<1>7. CASE EngineTick /\ UNCHANGED restarts
  BY <1>7, EngineTickStep
<1>8. CASE Api /\ UNCHANGED restarts
  BY <1>8, ApiStep
<1>9. CASE PassTime /\ UNCHANGED restarts
  BY <1>9, PassTimeStep
<1>10. CASE Stop \/ Crash \/ CrashGoingOffline \/ CrashComingOnline
  BY <1>10, RestartStep
<1>11. CASE UNCHANGED vars
  BY <1>11 DEF MonInv, vars, engineVars, presenceVars, TypeOK, EngineTypeOK, OneOpenAlert, Presence,
     RowIsQuiet, ActiveIsHot
<1>12. QED
  BY <1>1, <1>2, <1>3, <1>3a, <1>4, <1>5, <1>6, <1>7, <1>8, <1>9, <1>10, <1>11 DEF Next

LEMMA MonInvariant == Spec => []MonInv
  BY MonInit, MonStep, PTL DEF Spec

-----------------------------------------------------------------------------
(* The theorems.                                                           *)

\* The types hold in every state: ages stay within what the comparisons of the
\* offline and stats loops can tell apart (Ingest, AlertEngine).
THEOREM TypeCorrect == Spec => []TypeOK
<1>1. MonInv => TypeOK
  BY DEF MonInv
<1>2. QED
  BY <1>1, MonInvariant, PTL

\* A rule has at most one alert that is open or acknowledged, for any rules,
\* restarts, acknowledgements and changes of the rules (_mark, open_alert).
THEOREM OneAlertPerRule == Spec => []OneOpenAlert
<1>1. MonInv => OneOpenAlert
  BY DEF MonInv
<1>2. QED
  BY <1>1, MonInvariant, PTL

\* A device shown online is online in the database and has no open offline
\* alert, whichever step of _set_online an earlier process died in (_seen).
THEOREM OnlineHasNoAlert == Spec => []OnlineIsClean
<1>1. MonInv => OnlineIsClean
  BY DEF MonInv, Presence, OnlineIsClean, HasOpenAlert
<1>2. QED
  BY <1>1, MonInvariant, PTL

\* Only a device silent for longer than OfflineAfter is overdue.
LEMMA OverdueIsSilent ==
    ASSUME MonInv, Overdue
    PROVE  quiet > OfflineAfter
<1>1. row # None
  BY DEF Overdue, MonInv, Presence
<1>2. row.seen <= quiet /\ row.seen \in 0 .. OfflineAfter + 1 /\ quiet \in 0 .. OfflineAfter + 1
  BY <1>1, RowAge
<1>3. CASE online /\ seen > OfflineAfter
  <2>1. seen \in 0 .. OfflineAfter + 1 /\ seen <= quiet
    BY <1>3 DEF MonInv, TypeOK, SeenAge, Presence
  <2>2. QED
    BY <1>2, <1>3, <2>1, MonitoringAssumption
<1>4. CASE ~tracked /\ row # None /\ row.online /\ row.seen > OfflineAfter
  BY <1>2, <1>4, MonitoringAssumption
<1>5. QED
  BY <1>3, <1>4 DEF Overdue

\* The offline loop marks a device offline only when it has been silent for
\* longer than OfflineAfter, also on what an earlier process left (_offline_loop).
THEOREM SilentBeforeOffline == Spec => OnlySilentGoOffline
<1>1. ASSUME MonInv, [Next]_vars, row # None, row.online, ~row'.online
      PROVE  quiet > OfflineAfter
  <2>1. row = [online |-> row.online, seen |-> row.seen]
    BY <1>1, RowAge
  <2>2. CASE Overdue
    BY <1>1, <2>2, OverdueIsSilent
  <2>3. CASE ~Overdue
    <3>1. ASSUME NEW a, Seen(a)
          PROVE  FALSE
      BY <1>1, <3>1 DEF Seen
    <3>2. ~PassTime
      BY <1>1, <2>1 DEF PassTime
    <3>3. row' # row
      BY <1>1
    <3>4. ~CrashComingOnline
      BY <1>1 DEF CrashComingOnline
    <3>5. ~OfflineLoop /\ ~CrashGoingOffline
      BY <2>3 DEF OfflineLoop, CrashGoingOffline
    <3>5a. ~ConfigAck
      BY <1>1, <2>1 DEF ConfigAck
    <3>6. QED
      BY <1>1, <3>1, <3>2, <3>3, <3>4, <3>5, <3>5a DEF Next, vars, presenceVars, Telemetry, Heartbeat, LogFrame,
         BadDatagram, PersistStats, EngineTick, Api, Stop, Crash
  <2>4. QED
    BY <2>2, <2>3
<1>2. MonInv /\ [Next]_vars => [row # None /\ row.online /\ ~row'.online => quiet > OfflineAfter]_vars
  BY <1>1
<1>3. QED
  BY <1>2, MonInvariant, PTL DEF Spec, OnlySilentGoOffline

\* tick resolves an alert only when its condition was last true Hold ago, or the
\* alert is Hold old and no condition is remembered; nothing else resolves one.
THEOREM ClearBeforeResolved == Spec => ResolvedOnlyWhenClear
<1> DEFINE Clear(r) == \/ hot[r] >= Hold
                       \/ active[r] = None /\ open[r][Len(open[r])].age >= Hold
<1>1. ASSUME MonInv, [Next]_vars, NEW r \in Rules, Len(open'[r]) < Len(open[r])
      PROVE  Clear(r)
  <2>1. r \in AllRules /\ r # "offline" /\ open[r] \in Seq(AlertRow) /\ Len(open[r]) \in Nat
    BY <1>1, EngineAssumption DEF AllRules, MonInv, TypeOK, EngineTypeOK
  <2>2. open'[r] # open[r]
    BY <1>1, <2>1
  <2>3. ASSUME NEW conds \in SUBSET AllRules
        PROVE  MarkOpen(conds)[r] # open'[r]
    <3>1. MarkOpen(conds)[r] \in {open[r], Append(open[r], NewAlert)}
      BY <2>1 DEF MarkOpen
    <3>2. NewAlert \in AlertRow
      BY EngineAssumption DEF NewAlert, AlertRow
    <3>3. Len(MarkOpen(conds)[r]) >= Len(open[r])
      BY <2>1, <3>1, <3>2
    <3>4. QED
      BY <1>1, <2>1, <3>3
  <2>4. r \notin BackOnline
    BY BackOnlineRules
  <2>5. CASE EngineTick
    <3>1. r \in Expired \cup Orphaned
      BY <2>1, <2>2, <2>5 DEF EngineTick, Tick
    <3>2. QED
      BY <1>1, <3>1 DEF Expired, Orphaned, MonInv, ActiveIsHot
  <2>6. CASE PassTime
    <3>1. Len(open'[r]) = Len(open[r])
      BY <1>1, <2>1, <2>6, PassTimeType DEF MonInv, TypeOK, PassTime
    <3>2. QED
      BY <1>1, <2>1, <3>1
  <2>7. CASE Api
    <3>1. ASSUME NEW x \in AllRules, NEW i \in DOMAIN open[x], AckAlert(x, i)
          PROVE  FALSE
      <4>1. Len(open'[r]) = Len(open[r])
        BY <1>1, <2>1, <3>1, AckType DEF MonInv, TypeOK
      <4>2. QED
        BY <1>1, <2>1, <4>1
    <3>2. ASSUME NEW rs, SetRules(rs)
          PROVE  FALSE
      BY <2>2, <3>2 DEF SetRules
    <3>3. QED
      BY <2>7, <3>1, <3>2 DEF Api
  <2>8. ASSUME NEW conds \in SUBSET AllRules
        PROVE  ~Telemetry(conds)
    BY <2>1, <2>3, <2>4 DEF Telemetry
  <2>9. ~OfflineLoop
    <3>1. {"offline"} \cap ruleset \in SUBSET AllRules
      BY DEF AllRules
    <3>2. QED
      BY <2>3, <3>1 DEF OfflineLoop, Mark
  <2>10. ~LogFrame
    BY <2>1, <2>2, <2>4 DEF LogFrame
  <2>11. QED
    BY <1>1, <2>2, <2>5, <2>6, <2>7, <2>8, <2>9, <2>10 DEF Next, vars, engineVars, AllRules, Heartbeat,
       ConfigAck, BadDatagram, PersistStats, Stop, Crash, CrashGoingOffline, CrashComingOnline
<1>2. MonInv /\ [Next]_vars =>
        [\A r \in Rules : HasOpenAlert(r) /\ Len(open'[r]) < Len(open[r]) => Clear(r)]_vars
  BY <1>1
<1>3. QED
  BY <1>2, MonInvariant, PTL DEF Spec, ResolvedOnlyWhenClear
==============================================================================
