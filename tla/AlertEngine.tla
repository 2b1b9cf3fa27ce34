----------------------------- MODULE AlertEngine -----------------------------
(***************************************************************************)
(* The alert lifecycle of backend/app/anomaly.py for one device: _mark,    *)
(* resolve, tick and the acknowledgement endpoint of api.py, over the      *)
(* alerts table of db.py.  How a rule decides that its condition holds     *)
(* (threshold, flag, rate, z-score, loss) is an input: the set of rules a  *)
(* sample makes true.                                                      *)
(*                                                                         *)
(* Time is kept as ages.  An age stops growing where no comparison can     *)
(* tell it from a larger one, so time may pass without bound.              *)
(***************************************************************************)
EXTENDS Integers, Sequences, FiniteSets

CONSTANTS
    Rules,      \* rules evaluated on telemetry
    Hold,       \* resolve_after_s
    None        \* no entry, no row

ASSUME EngineAssumption == "offline" \notin Rules /\ Hold \in Nat \ {0} /\ None \notin Nat

VARIABLES
    ruleset,    \* self.rules: the rules in force
    active,     \* st.active: rule -> age of the last true condition, or None
    open        \* rows of alerts in state open or acked, per rule, oldest first

engineVars == <<ruleset, active, open>>

AllRules == Rules \cup {"offline"}

AlertRow == [status : {"open", "acked"}, age : 0 .. Hold]

EngineTypeOK ==
    /\ ruleset \in SUBSET AllRules
    /\ active \in [AllRules -> (0 .. Hold) \cup {None}]
    /\ open \in [AllRules -> Seq(AlertRow)]

EngineInit ==
    /\ ruleset = AllRules
    /\ active = [r \in AllRules |-> None]
    /\ open = [r \in AllRules |-> <<>>]

\* An age one time unit later.
Older(age, limit) == IF age = None \/ age = limit THEN age ELSE age + 1

-----------------------------------------------------------------------------
NewAlert == [status |-> "open", age |-> 0]

\* Mutant of HasOpenAlert: an acknowledged alert does not count as open.
HasUnackedAlert(r) == \E i \in DOMAIN open[r] : open[r][i].status = "open"

\* open_alert: a row that is open or acked.
HasOpenAlert(r) == open[r] # <<>>

\* Mutant of MarkActive: the time is noted only when the alert is created.
MarkActiveOnce(conds) ==
    [r \in AllRules |-> IF r \in conds /\ ~HasOpenAlert(r) THEN 0 ELSE active[r]]

\* _mark for every rule of conds: st.active[rule] = now ...
MarkActive(conds) == [r \in AllRules |-> IF r \in conds THEN 0 ELSE active[r]]

\* ... and an alert is created unless one is open.
MarkOpen(conds) ==
    [r \in AllRules |->
        IF r \in conds /\ ~HasOpenAlert(r) THEN Append(open[r], NewAlert) ELSE open[r]]

Mark(conds) ==
    /\ active' = MarkActive(conds)
    /\ open' = MarkOpen(conds)

\* resolve: the newest open row becomes resolved; resolved rows never change again.
Resolved(rows) == IF rows = <<>> THEN rows ELSE SubSeq(rows, 1, Len(rows) - 1)

-----------------------------------------------------------------------------
\* First loop of tick: conditions this process has not seen for Hold.
Expired == {r \in Rules : active[r] # None /\ active[r] >= Hold}

\* Mutant of Orphaned: no sweep of what an earlier process left open.
NoSweep == {}

\* Second loop: open alerts without in-memory state (opened before a restart).
Orphaned ==
    {r \in Rules : active[r] = None /\ HasOpenAlert(r) /\ open[r][Len(open[r])].age >= Hold}

Tick ==
    /\ active' = [r \in AllRules |-> IF r \in Expired \cup Orphaned THEN None ELSE active[r]]
    /\ open' = [r \in AllRules |->
                  IF r \in Expired \cup Orphaned THEN Resolved(open[r]) ELSE open[r]]
    /\ UNCHANGED ruleset

\* ack_alert: an open alert becomes acked, and its updated_at is now.
AckAlert(r, i) ==
    /\ i \in DOMAIN open[r]
    /\ open[r][i].status = "open"
    /\ open' = [open EXCEPT ![r][i] = [status |-> "acked", age |-> 0]]
    /\ UNCHANGED <<ruleset, active>>

\* put_rules / set_rules: saved in the database as well.
SetRules(rs) ==
    /\ ruleset' = rs
    /\ UNCHANGED <<active, open>>

\* The engine of a new process: the rules and the alerts come from the database.
EngineRestart == active' = [r \in AllRules |-> None] /\ UNCHANGED ruleset

EnginePassTime ==
    /\ active' = [r \in AllRules |-> Older(active[r], Hold)]
    /\ open' = [r \in AllRules |->
                  [i \in DOMAIN open[r] |-> [open[r][i] EXCEPT !.age = Older(@, Hold)]]]
    /\ UNCHANGED ruleset
==============================================================================
