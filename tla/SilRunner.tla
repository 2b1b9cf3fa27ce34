------------------------------ MODULE SilRunner ------------------------------
(***************************************************************************)
(* The scenario runner of sim/run_sil.py: it validates a scenario, starts  *)
(* the backend, the proxy and the agents, walks the merged schedule of     *)
(* actions and expectations, stops its children and reports.               *)
(*                                                                         *)
(* Time appears as its effect only: a wait ends, a deadline passes.  The   *)
(* backend under test is the environment: every poll may get any reply.    *)
(***************************************************************************)
EXTENDS Integers, Sequences, FiniteSets, SequencesExt

CONSTANTS
    Scenarios,      \* scenario files the runner may be given
    Devices,        \* device ids
    None,
    Grace,          \* --grace, in units of the shortest poll
    MaxSignals      \* bound: SIGINT / SIGTERM received

Actions == {"fault", "clear_fault", "config", "firmware_register", "firmware_deploy", "cmd", "proxy_set", "note"}

Event == [at : Nat, action : Actions, device : Devices \cup {None}]

\* A scenario is a document of the right shape.  The agent of a device is a process
\* of its own: the runner names it agent:<id>.
ASSUME SilAssumption ==
    /\ \A s \in Scenarios :
         /\ \A d \in Range(s.devices) : d.id \in Devices
         /\ s.timeline \in Seq(Event)
         /\ \A e \in Range(s.expect) : e.at \in Nat
         /\ s.expect \in Seq(Range(s.expect)) /\ s.devices \in Seq(Range(s.devices))
    /\ {"backend", "lossy_proxy", None} \cap Devices = {}
    /\ None \notin Nat \cup {"backend", "lossy_proxy", "error", "interrupted"}
    /\ Grace \in Nat \ {0}
    /\ MaxSignals \in Nat

Names == {"backend", "lossy_proxy"} \cup Devices

VARIABLES
    sc,         \* the scenario
    args,       \* command-line switches
    pc,         \* where Runner.run is
    proc,       \* state of each child process
    children,   \* self.children: the processes the runner knows
    born,       \* Popen has returned, spawn has not appended it yet
    foreign,    \* a backend the runner did not start answers /health
    stale,      \* the database holds alerts of earlier runs
    todo,       \* the rest of the schedule
    elapsed,    \* time spent on the expectation at the head of the schedule
    results,    \* results: one record per evaluated expectation
    tried,      \* number of actions attempted
    fatal,      \* fatal: None or the reason
    k,          \* loop variable of kill_all
    signals,    \* signals received so far
    cut,        \* ghost: a signal fell into a spawn or into the clean-up
    rc          \* exit status, or None

procVars == <<proc, children, born>>
walkVars == <<todo, elapsed, results, tried>>
envVars == <<sc, args, foreign, signals, cut>>
vars == <<envVars, procVars, walkVars, pc, stale, fatal, k, rc>>

Running(n) == proc[n] \in {"up", "asked"}

-----------------------------------------------------------------------------
(* Scenario.                                                               *)

DeviceActions == {"fault", "clear_fault", "config", "firmware_deploy", "cmd"}
DeviceChecks == {"device_state", "device_fw", "config_version", "loss_pct_gt"}
AlertChecks == {"alert_open", "alert_resolved", "no_alerts_of_severity"}

Ids(s) == {d.id : d \in Range(s.devices)}

\* validate_scenario.  wellFormed stands for the checks of types, ranges and names.
ValidScenario(s) ==
    /\ s.wellFormed
    /\ s.devices # <<>>
    /\ IsInjective([i \in DOMAIN s.devices |-> s.devices[i].id])
    /\ \A d \in Range(s.devices) : ~(d.remote /\ d.via)
    /\ \A ev \in Range(s.timeline) :
         /\ ev.action \in DeviceActions => ev.device \in Ids(s)
         /\ ev.action = "proxy_set" => s.proxy
    /\ s.expect # <<>>
    /\ \A e \in Range(s.expect) :
         e.check \notin {"no_alerts_of_severity"} => e.device \in Ids(s)

\* Mutant of Before: ordered by time alone, expectations listed first.
BeforeByTime(a, b) == a.at < b.at \/ (a.at = b.at /\ a.kind = "expect" /\ b.kind = "action")

\* The sort key of the schedule: time, then actions before expectations.
Before(a, b) == a.at < b.at \/ (a.at = b.at /\ a.kind = "action" /\ b.kind = "expect")

\* timeline and expect put into one list
Merged(s) ==
    [i \in DOMAIN s.timeline |-> [kind |-> "action", at |-> s.timeline[i].at, it |-> s.timeline[i]]]
    \o [i \in DOMAIN s.expect |-> [kind |-> "expect", at |-> s.expect[i].at, it |-> s.expect[i]]]

\* list.sort is stable: items that the key does not order stay as they were.
Sooner(items, i, j) ==
    Before(items[i], items[j]) \/ (~Before(items[j], items[i]) /\ i < j)

\* Where the sort puts item i.
Place(items, i) == Cardinality({j \in DOMAIN items : j = i \/ Sooner(items, j, i)})

\* timeline and expect merged into one schedule by a stable sort
Schedule(s) ==
    [p \in DOMAIN Merged(s) |->
        Merged(s)[CHOOSE i \in DOMAIN Merged(s) : Place(Merged(s), i) = p]]

-----------------------------------------------------------------------------
(* Expectations.                                                           *)

\* An alert that matches the expectation; fresh: opened during this run.
Alert == [open : BOOLEAN, fresh : BOOLEAN]

\* What the API client returns: None when the call raises (or the device is
\* unknown), no field when the backend does not expose it.
DeviceReply == [online : BOOLEAN, fw : {"1.0.0", "1.1.0"}, ver : {None, 0, 1},
                ack : {None, TRUE, FALSE}, loss : {None, 0, 50}]

Replies(e) ==
    {None} \cup
    CASE e.check \in AlertChecks -> SUBSET {a \in Alert : stale \/ a.fresh}
      [] e.check \in DeviceChecks -> DeviceReply
      [] OTHER -> 0 .. 1            \* number of probable causes

\* Api.alerts returns an empty list when the request fails.
AlertsOf(r) == IF r = None THEN {} ELSE r

\* The alerts a passing alert check rests on.
Hits(e, r) == {a \in AlertsOf(r) : a.open = (e.check = "alert_open")}

DeviceMeets(e, r) ==
    CASE e.check = "device_state" -> r.online = e.online
      [] e.check = "device_fw" -> r.fw = e.version
      [] e.check = "config_version" ->
            r.ver # None /\ r.ver >= e.min /\ (e.acked => r.ack # FALSE)
      [] e.check = "loss_pct_gt" ->
            r.loss # None /\ IF e.invert THEN r.loss <= e.value ELSE r.loss > e.value

\* eval_check
EvalCheck(e, r) ==
    CASE e.check = "no_alerts_of_severity" -> \A a \in AlertsOf(r) : ~a.open
      [] e.check \in {"alert_open", "alert_resolved"} -> Hits(e, r) # {}
      [] e.check \in DeviceChecks -> r # None /\ DeviceMeets(e, r)
      [] OTHER -> r # None /\ r > 0

-----------------------------------------------------------------------------
(* Runner.run: starting up.                                                *)

Init ==
    /\ sc \in Scenarios
    /\ args \in [start_backend : BOOLEAN, fail_fast : BOOLEAN, hold : BOOLEAN, agent : BOOLEAN]
    /\ foreign \in BOOLEAN
    /\ stale = TRUE
    /\ pc = "load"
    /\ proc = [n \in Names |-> "none"]
    /\ children = <<>>
    /\ born = None
    /\ todo = <<>>
    /\ elapsed = 0
    /\ results = <<>>
    /\ tried = 0
    /\ fatal = None
    /\ k = 0
    /\ signals = 0
    /\ cut = FALSE
    /\ rc = None

\* main: load_scenario
Load ==
    /\ pc = "load"
    /\ IF ValidScenario(sc)
       THEN pc' = "start" /\ UNCHANGED rc
       ELSE pc' = "exit" /\ rc' = 2
    /\ UNCHANGED <<envVars, procVars, walkVars, stale, fatal, k>>

\* The finally block: kill_all begins with the SIGTERMs, last child first.
ToKill(reason) ==
    /\ fatal' = reason
    /\ k' = Len(children)
    /\ pc' = "kill_term"

Raise == ToKill("error") /\ UNCHANGED <<envVars, procVars, walkVars, stale, rc>>

\* spawn, first half: Popen, which may fail
Popen(n) ==
    /\ \/ /\ proc' = [proc EXCEPT ![n] = "up"]
          /\ born' = n
          /\ pc' = "track"
          /\ UNCHANGED <<fatal, k>>
       \/ ToKill("error") /\ UNCHANGED <<proc, born>>
    /\ UNCHANGED <<envVars, children, walkVars, rc>>

\* spawn, second half: self.children.append
Track ==
    /\ pc = "track"
    /\ children' = Append(children, born)
    /\ born' = None
    /\ pc' = CASE born = "backend" -> "await_backend"
               [] born = "lossy_proxy" -> "await_proxy"
               [] OTHER -> "agents"
    /\ UNCHANGED <<envVars, proc, walkVars, stale, fatal, k, rc>>

\* Mutant of StartBackend: takes whatever backend answers, and its database.
StartBackendAny ==
    /\ pc = "start"
    /\ args.start_backend
    /\ IF foreign
       THEN pc' = "proxy" /\ UNCHANGED <<envVars, procVars, walkVars, stale, fatal, k, rc>>
       ELSE Popen("backend") /\ stale' = FALSE

\* start_backend: refuses a port that is served, removes the old database
StartBackend ==
    /\ pc = "start"
    /\ args.start_backend
    /\ IF foreign THEN Raise ELSE Popen("backend") /\ stale' = FALSE

\* run without --start-backend
UseBackend ==
    /\ pc = "start"
    /\ ~args.start_backend
    /\ IF foreign
       THEN pc' = "proxy" /\ UNCHANGED <<envVars, procVars, walkVars, stale, fatal, k, rc>>
       ELSE Raise

\* start_backend: healthy, exited early, or not healthy within the timeout
AwaitBackend ==
    /\ pc = "await_backend"
    /\ \/ /\ proc["backend"] = "up"
          /\ pc' = "proxy"
          /\ UNCHANGED <<envVars, procVars, walkVars, stale, fatal, k, rc>>
       \/ Raise

\* start_proxy: only when some device goes through it
StartProxy ==
    /\ pc = "proxy"
    /\ IF \E d \in Range(sc.devices) : d.via
       THEN Popen("lossy_proxy") /\ UNCHANGED stale
       ELSE pc' = "agents" /\ UNCHANGED <<envVars, procVars, walkVars, stale, fatal, k, rc>>

AwaitProxy ==
    /\ pc = "await_proxy"
    /\ \/ /\ proc["lossy_proxy"] = "up"
          /\ pc' = "agents"
          /\ UNCHANGED <<envVars, procVars, walkVars, stale, fatal, k, rc>>
       \/ Raise

\* Places of the devices whose agent was not spawned yet.
NotStarted == {i \in DOMAIN sc.devices : proc[sc.devices[i].id] = "none"}

\* The next agent is spawned; after the last one the scenario clock starts.
SpawnAgents ==
    /\ pc = "agents"
    /\ IF ~args.agent /\ \E d \in Range(sc.devices) : ~d.remote
       THEN Raise
       ELSE IF NotStarted # {}
       THEN \E i \in NotStarted :
              (\A j \in NotStarted : i <= j) /\ Popen(sc.devices[i].id) /\ UNCHANGED stale
       ELSE /\ todo' = Schedule(sc)
            /\ pc' = "walk"
            /\ UNCHANGED <<envVars, procVars, elapsed, results, tried, stale, fatal, k, rc>>

-----------------------------------------------------------------------------
(* Runner.run: walking the schedule.                                       *)

\* run_action: a call that fails is recorded in the report and the walk goes on,
\* so its outcome decides nothing here; a note does nothing.
RunAction ==
    /\ pc = "walk"
    /\ todo # <<>>
    /\ Head(todo).kind = "action"
    /\ tried' = IF Head(todo).it.action = "note" THEN tried ELSE tried + 1
    /\ todo' = Tail(todo)
    /\ UNCHANGED <<envVars, procVars, elapsed, results, pc, stale, fatal, k, rc>>

StartCheck ==
    /\ pc = "walk"
    /\ todo # <<>>
    /\ Head(todo).kind = "expect"
    /\ elapsed' = 0
    /\ pc' = "poll"
    /\ UNCHANGED <<envVars, procVars, todo, results, tried, stale, fatal, k, rc>>

\* Mutant of GraceOver: the deadline is never reached.
GraceOverNever(t) == FALSE

\* eval_with_grace: time.time() >= deadline
GraceOver(t) == t >= Grace

Outcome(e, ok, r) ==
    [e |-> e, ok |-> ok, answered |-> r # None,
     fresh |-> e.check \in {"alert_open", "alert_resolved"} => \A a \in Hits(e, r) : a.fresh]

\* One turn of eval_with_grace: the reply is r and the poll ends at t.
Poll(r, t) ==
    LET e == Head(todo).it
        ok == EvalCheck(e, r)
    IN  /\ pc = "poll"
        /\ elapsed' = t
        /\ IF ok \/ GraceOver(t)
           THEN /\ results' = Append(results, Outcome(e, ok, r))
                /\ todo' = IF ~ok /\ args.fail_fast THEN <<>> ELSE Tail(todo)
                /\ pc' = "walk"
           ELSE pc' = "nap" /\ UNCHANGED <<results, todo>>
        /\ UNCHANGED <<envVars, procVars, tried, stale, fatal, k, rc>>

\* time.sleep(POLL_S)
Nap ==
    /\ pc = "nap"
    /\ pc' = "poll"
    /\ UNCHANGED <<envVars, procVars, walkVars, stale, fatal, k, rc>>

\* The schedule is done: --hold, or the end.
EndOfSchedule ==
    /\ pc = "walk"
    /\ todo = <<>>
    /\ IF args.hold
       THEN pc' = "hold" /\ UNCHANGED <<fatal, k>>
       ELSE ToKill(None)
    /\ UNCHANGED <<envVars, procVars, walkVars, stale, rc>>

-----------------------------------------------------------------------------
(* kill_all and the report.                                                *)

\* SIGTERM to the process group of each child, last one first
KillTerm ==
    /\ pc = "kill_term"
    /\ IF k > 0
       THEN /\ proc' = IF Running(children[k]) THEN [proc EXCEPT ![children[k]] = "asked"] ELSE proc
            /\ k' = k - 1
            /\ UNCHANGED pc
       ELSE k' = 1 /\ pc' = "kill_wait" /\ UNCHANGED proc
    /\ UNCHANGED <<envVars, children, born, walkVars, stale, fatal, rc>>

\* Mutant of KillWait: a child that ignores SIGTERM is left alone.
KillWaitNoKill ==
    /\ pc = "kill_wait"
    /\ IF k <= Len(children)
       THEN k' = k + 1 /\ UNCHANGED <<proc, children, pc>>
       ELSE children' = <<>> /\ pc' = "report" /\ UNCHANGED <<proc, k>>
    /\ UNCHANGED <<envVars, born, walkVars, stale, fatal, rc>>

\* Each child is waited for until the common deadline, then killed.
KillWait ==
    /\ pc = "kill_wait"
    /\ IF k <= Len(children)
       THEN /\ proc' = [proc EXCEPT ![children[k]] = "down"]
            /\ k' = k + 1
            /\ UNCHANGED <<children, pc>>
       ELSE children' = <<>> /\ pc' = "report" /\ UNCHANGED <<proc, k>>
    /\ UNCHANGED <<envVars, born, walkVars, stale, fatal, rc>>

Passed == Cardinality({i \in DOMAIN results : results[i].ok})

\* Mutant of ReportOk: a fatal error after the last expectation is overlooked.
ReportOkPassed == Passed = Len(sc.expect)

ReportOk == fatal = None /\ Passed = Len(sc.expect)

Report ==
    /\ pc = "report"
    /\ rc' = IF ReportOk THEN 0 ELSE 1
    /\ pc' = "exit"
    /\ UNCHANGED <<envVars, procVars, walkVars, stale, fatal, k>>

-----------------------------------------------------------------------------
(* Environment.                                                            *)

\* A child ends: on SIGTERM, at the end of its --duration, or by crashing.
ChildExits(n) ==
    /\ Running(n)
    /\ proc' = [proc EXCEPT ![n] = "down"]
    /\ UNCHANGED <<envVars, children, born, walkVars, pc, stale, fatal, k, rc>>

\* KeyboardInterrupt (SIGINT, or SIGTERM through _on_term) inside the try block:
\* kill_all runs; hold catches it itself.  A child between Popen and append is
\* not yet known to kill_all.
Interrupt ==
    /\ signals < MaxSignals
    /\ pc \notin {"load", "kill_term", "kill_wait", "report", "exit"}
    /\ signals' = signals + 1
    /\ cut' = (pc = "track")
    /\ ToKill(IF pc = "hold" THEN None ELSE "interrupted")
    /\ UNCHANGED <<sc, args, foreign, procVars, walkVars, stale, rc>>

\* The same inside the finally block or the report: it leaves the program.
InterruptCleanup ==
    /\ signals < MaxSignals
    /\ pc \in {"kill_term", "kill_wait", "report"}
    /\ signals' = signals + 1
    /\ cut' = TRUE
    /\ rc' = 130
    /\ pc' = "exit"
    /\ UNCHANGED <<sc, args, foreign, procVars, walkVars, stale, fatal, k>>

RunnerStep ==
    \/ Load \/ StartBackend \/ UseBackend \/ Track \/ AwaitBackend
    \/ StartProxy \/ AwaitProxy \/ SpawnAgents
    \/ RunAction \/ StartCheck \/ Nap \/ EndOfSchedule
    \/ \E r \in IF pc = "poll" THEN Replies(Head(todo).it) ELSE {}, t \in (elapsed + 1) .. (Grace + 1) : Poll(r, t)
    \/ KillTerm \/ KillWait \/ Report

Next ==
    \/ RunnerStep
    \/ \E n \in Names : ChildExits(n)
    \/ Interrupt
    \/ InterruptCleanup

Spec == Init /\ [][Next]_vars

\* The runner's own waits all have a deadline (the API client, /health, --grace,
\* kill_all), so its next step always comes.
FairSpec == Spec /\ WF_vars(RunnerStep)

-----------------------------------------------------------------------------
(* Properties.                                                             *)

\* Items addressed to a device of the scenario.
Addressed(x) ==
    IF x.kind = "action" THEN x.it.action \in DeviceActions ELSE x.it.check # "no_alerts_of_severity"

\* No process is started twice, the walk only ever consumes the schedule, and what
\* is scheduled meets its preconditions: when an expectation is polled every action
\* due at or before its time has been tried (the sort key), and an action or check is
\* addressed to a device whose agent this run has started (validate_scenario).
WellFormed ==
    /\ proc \in [Names -> {"none", "up", "asked", "down"}]
    /\ Range(children) \subseteq Names /\ IsInjective(children)
    /\ born \in Names \cup {None}
    /\ \/ todo = <<>>
       \/ \E n \in DOMAIN Schedule(sc) : todo = SubSeq(Schedule(sc), n, Len(Schedule(sc)))
    /\ elapsed \in 0 .. Grace + 1
    /\ fatal \in {None, "error", "interrupted"}
    /\ pc \in {"kill_term", "kill_wait"} => k \in 0 .. Len(children) + 1
    /\ rc \in {None, 0, 1, 2, 130}
    /\ pc = "poll" => \A i \in DOMAIN todo : todo[i].kind = "action" => todo[i].at > Head(todo).at
    /\ pc = "walk" => \A i \in DOMAIN todo : Addressed(todo[i]) => proc[todo[i].it.device] # "none"

\* Where the schedule has its expectations, and which of them the one at p is.
Checks == {p \in DOMAIN Schedule(sc) : Schedule(sc)[p].kind = "expect"}
Turn(p) == Cardinality({q \in Checks : q <= p})

\* Exit status 0 means what sim/README.md says: nothing fatal happened, every
\* action was tried, and every expectation of the scenario was evaluated, in the
\* order of the schedule, and passed, whatever was interrupted, broken off by
\* --fail-fast or held.
ReportSound ==
    rc = 0 =>
        /\ fatal = None
        /\ Len(results) = Len(sc.expect)
        /\ \A p \in Checks : results[Turn(p)].e = Schedule(sc)[p].it
        /\ \A i \in DOMAIN results : results[i].ok
        /\ tried = Cardinality({i \in DOMAIN sc.timeline : sc.timeline[i].action # "note"})

\* A pass rests on an answer of the backend about this run: no expectation passes
\* on an alert that an earlier run left in the database of a backend the runner
\* starts (start_backend refuses a served port and removes the old database), or
\* on a reply that never came.  The exception is the code's: Api.alerts turns a
\* failed request into "no alerts", so no_alerts_of_severity also passes while the
\* backend is unreachable.
PassesEarned ==
    \A i \in DOMAIN results : results[i].ok =>
        /\ results[i].answered \/ results[i].e.check = "no_alerts_of_severity"
        /\ args.start_backend => results[i].fresh

\* No child outlives the runner, whatever fails and whenever a signal arrives,
\* unless the signal falls between Popen and append or into kill_all itself.
NoOrphans == pc = "exit" /\ ~cut => \A n \in Names : ~Running(n)

\* The runner ends by itself, however the backend and the children behave, unless
\* it was asked to hold (every wait of run_sil.py has a deadline).
RunnerExits == <>(pc \in {"exit", "hold"})
==============================================================================
