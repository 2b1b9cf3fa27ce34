-------------------------- MODULE SilRunner_proofs ---------------------------
(***************************************************************************)
(* Proofs about SilRunner for every scenario, any number of devices, any   *)
(* grace and any number of signals: the runner leaves no child behind,     *)
(* counts no expectation as passed that an earlier run earned, walks its   *)
(* schedule in order and reports success only when everything was done.    *)
(***************************************************************************)
EXTENDS SilRunner, SequenceTheorems, FiniteSetTheorems, TLAPS

States == {"none", "up", "asked", "down"}

\* Some sequence, whatever it holds.
IsList(s) == s \in Seq({s[i] : i \in DOMAIN s})

Known(n) == \E i \in DOMAIN children : children[i] = n

TypeOK ==
    /\ sc \in Scenarios
    /\ proc \in [Names -> States]
    /\ children \in Seq(Names)
    /\ pc = "track" => born \in Names
    /\ k \in Int
    /\ stale \in BOOLEAN
    /\ cut \in BOOLEAN
    /\ IsList(results)

\* A running child is one kill_all will find, or the one spawn is about to append.
Tended ==
    \A n \in Names : Running(n) => cut \/ Known(n) \/ (pc = "track" /\ n = born)

\* Nothing runs before the first spawn or after kill_all.
NoneLeft ==
    pc \in {"load", "start"} \/ (pc \in {"report", "exit"} /\ ~cut) => \A n \in Names : ~Running(n)

\* What still runs while kill_all waits is a child it has not come to.
Reaped ==
    pc = "kill_wait" /\ ~cut =>
        \A n \in Names : Running(n) => \E i \in DOMAIN children : i >= k /\ children[i] = n

Ending == {"kill_term", "kill_wait", "report", "exit"}

\* Only the end of the program follows a signal that cuts spawn or kill_all short.
CutEnds == cut => pc \in Ending

\* A backend the runner starts has a database of its own.
OwnDatabase == args.start_backend /\ pc \notin {"load", "start"} \cup Ending => ~stale

\* The inductive invariant.
SilInv == TypeOK /\ Tended /\ NoneLeft /\ Reaped /\ CutEnds /\ OwnDatabase /\ PassesEarned

\* Where the runner is between start-up and clean-up, but for the middle of a spawn.
Busy == {"await_backend", "proxy", "await_proxy", "agents", "walk", "poll", "nap", "hold"}

-----------------------------------------------------------------------------
(* Sequences of anything.                                                  *)

LEMMA ListIs ==
    ASSUME NEW s, IsList(s)
    PROVE  Len(s) \in Nat /\ DOMAIN s = 1 .. Len(s)
BY DEF IsList

LEMMA ListAppend ==
    ASSUME NEW s, IsList(s), NEW x
    PROVE  /\ IsList(Append(s, x))
           /\ DOMAIN Append(s, x) = 1 .. (Len(s) + 1)
           /\ \A i \in 1 .. Len(s) : Append(s, x)[i] = s[i]
           /\ Append(s, x)[Len(s) + 1] = x
<1> DEFINE All == {s[i] : i \in DOMAIN s} \cup {x}
           t == Append(s, x)
<1>1. Len(s) \in Nat /\ DOMAIN s = 1 .. Len(s) /\ s = [i \in 1 .. Len(s) |-> s[i]]
  BY LenProperties DEF IsList
<1>2. s \in Seq(All) /\ x \in All
  <2>1. \A i \in 1 .. Len(s) : s[i] \in All
    BY <1>1
  <2> HIDE DEF All
  <2>2. s \in Seq(All)
    BY <1>1, <2>1, IsASeq
  <2>3. QED
    BY <2>2 DEF All
<1> HIDE DEF All
<1>3. /\ t \in Seq(All) /\ Len(t) = Len(s) + 1 /\ t[Len(s) + 1] = x
      /\ \A i \in 1 .. Len(s) : t[i] = s[i]
  BY <1>2, AppendProperties
<1>4. Len(t) \in Nat /\ DOMAIN t = 1 .. Len(t) /\ t = [i \in 1 .. Len(t) |-> t[i]]
  BY <1>3, LenProperties
<1> HIDE DEF t
<1>5. IsList(t)
  <2> DEFINE Own == {t[i] : i \in DOMAIN t}
  <2>1. \A i \in 1 .. Len(t) : t[i] \in Own
    BY <1>4
  <2> HIDE DEF Own
  <2>2. t \in Seq(Own)
    BY <1>4, <2>1, IsASeq
  <2>3. QED
    BY <2>2 DEF Own, IsList
<1>6. QED
  BY <1>3, <1>4, <1>5 DEF t

-----------------------------------------------------------------------------
(* Steps that leave the children alone.                                    *)

\* On the way from start-up to the end of the schedule.
LEMMA WalkStep ==
    ASSUME SilInv, pc' \in Busy, pc \in Busy \/ (pc = "start" /\ ~args.start_backend),
           UNCHANGED <<sc, args, cut, proc, children, born, stale, k>>, IsList(results'), PassesEarned'
    PROVE  SilInv'
<1>1. cut = FALSE
  BY DEF SilInv, CutEnds, TypeOK, Ending, Busy
<1>2. TypeOK' /\ CutEnds' /\ NoneLeft' /\ Reaped'
  BY <1>1 DEF SilInv, TypeOK, CutEnds, NoneLeft, Reaped, Busy
<1>3. Tended'
  BY <1>1 DEF SilInv, Tended, NoneLeft, Running, Known, Busy
<1>4. OwnDatabase'
  BY DEF SilInv, OwnDatabase, Busy, Ending
<1>5. QED
  BY <1>2, <1>3, <1>4 DEF SilInv

\* The results are those of earlier steps.
LEMMA SameResults ==
    ASSUME SilInv, UNCHANGED <<sc, args, results>>
    PROVE  IsList(results') /\ PassesEarned'
BY DEF SilInv, TypeOK, PassesEarned

\* The finally block begins, not from the middle of a spawn.
LEMMA KillStep ==
    ASSUME SilInv, pc \in Busy \cup {"start"}, NEW reason, ToKill(reason),
           UNCHANGED <<sc, args, cut, proc, children, born, results>>, stale' \in BOOLEAN
    PROVE  SilInv'
<1>1. k' \in Int
  BY DEF SilInv, TypeOK, ToKill
<1>2. pc' = "kill_term"
  BY DEF ToKill
<1>3. TypeOK' /\ CutEnds' /\ NoneLeft' /\ Reaped' /\ OwnDatabase'
  BY <1>1, <1>2, SameResults DEF SilInv, TypeOK, CutEnds, NoneLeft, Reaped, OwnDatabase, Ending
<1>4. Tended'
  BY <1>2 DEF SilInv, Tended, NoneLeft, Running, Known, Busy
<1>5. QED
  BY <1>3, <1>4, SameResults DEF SilInv

\* Popen starts a process, and spawn knows it until it is appended.
LEMMA PopenStep ==
    ASSUME SilInv, NEW n \in Names, pc \in Busy \cup {"start"}, Popen(n),
           stale' = stale \/ stale' = FALSE, pc = "start" => stale' = FALSE
    PROVE  SilInv'
<1>1. UNCHANGED <<sc, args, cut, children, results>>
  BY DEF Popen, envVars, walkVars
<1>2. stale' \in BOOLEAN
  BY DEF SilInv, TypeOK
<1>3. CASE ToKill("error") /\ UNCHANGED <<proc, born>>
  BY <1>1, <1>2, <1>3, KillStep
<1>4. CASE proc' = [proc EXCEPT ![n] = "up"] /\ born' = n /\ pc' = "track" /\ UNCHANGED <<fatal, k>>
  <2>1. cut = FALSE
    BY DEF SilInv, CutEnds, TypeOK, Ending, Busy
  <2>2. TypeOK'
    BY <1>1, <1>2, <1>4, SameResults DEF SilInv, TypeOK, States
  <2>3. CutEnds' /\ NoneLeft' /\ Reaped'
    BY <1>1, <1>4, <2>1 DEF CutEnds, NoneLeft, Reaped
  <2>4. ASSUME NEW x \in Names, Running(x)' PROVE Known(x)' \/ x = n
    <3>1. x = n \/ Running(x)
      BY <1>4, <2>4 DEF SilInv, TypeOK, Running
    <3>2. Running(x) => Known(x)
      BY <2>1 DEF SilInv, Tended, NoneLeft, Busy
    <3>3. QED
      BY <1>1, <3>1, <3>2 DEF Known
  <2>5. Tended'
    BY <1>4, <2>4 DEF Tended
  <2>6. OwnDatabase'
    BY <1>1, <1>4 DEF SilInv, OwnDatabase, Busy, Ending
  <2>7. QED
    BY <1>1, <2>2, <2>3, <2>5, <2>6, SameResults DEF SilInv
<1>5. QED
  BY <1>3, <1>4 DEF Popen

LEMMA RaiseStep == ASSUME SilInv, pc \in Busy \cup {"start"}, Raise PROVE SilInv'
<1>1. /\ ToKill("error") /\ UNCHANGED <<sc, args, cut, proc, children, born, results>> /\ stale' \in BOOLEAN
  BY DEF Raise, envVars, procVars, walkVars, SilInv, TypeOK
<1>2. QED
  BY <1>1, KillStep

-----------------------------------------------------------------------------
(* The steps of the runner.                                                *)

LEMMA LoadStep == ASSUME SilInv, Load PROVE SilInv'
<1>1. /\ pc = "load" /\ pc' \in {"start", "exit"}
      /\ UNCHANGED <<sc, args, cut, proc, children, born, stale, k, results>>
  BY DEF Load, envVars, procVars, walkVars
<1>2. \A n \in Names : ~Running(n)'
  BY <1>1 DEF SilInv, NoneLeft, Running
<1>3. TypeOK' /\ CutEnds' /\ OwnDatabase' /\ Reaped'
  BY <1>1, SameResults DEF SilInv, TypeOK, CutEnds, OwnDatabase, Reaped, Ending
<1>4. QED
  BY <1>1, <1>2, <1>3, SameResults DEF SilInv, Tended, NoneLeft

LEMMA StartStep == ASSUME SilInv, StartBackend \/ UseBackend PROVE SilInv'
<1>1. pc = "start"
  BY DEF StartBackend, UseBackend
<1>2. CASE Raise
  BY <1>1, <1>2, RaiseStep
<1>3. CASE Popen("backend") /\ stale' = FALSE
  BY <1>1, <1>3, PopenStep DEF Names
<1>4. CASE ~args.start_backend /\ pc' = "proxy" /\ UNCHANGED <<envVars, procVars, walkVars, stale, fatal, k, rc>>
  <2>1. pc' \in Busy /\ UNCHANGED <<sc, args, cut, proc, children, born, stale, k, results>>
    BY <1>4 DEF Busy, envVars, procVars, walkVars
  <2>2. QED
    BY <1>1, <1>4, <2>1, SameResults, WalkStep
<1>5. QED
  BY <1>2, <1>3, <1>4 DEF StartBackend, UseBackend

\* self.children.append: from now on kill_all finds the child.
LEMMA TrackStep == ASSUME SilInv, Track PROVE SilInv'
<1>1. /\ pc = "track" /\ children' = Append(children, born) /\ pc' \in Busy
      /\ UNCHANGED <<sc, args, cut, proc, stale, k, results>>
  BY DEF Track, Busy, envVars, walkVars
<1>2. cut = FALSE /\ born \in Names /\ children \in Seq(Names)
  BY <1>1 DEF SilInv, CutEnds, TypeOK, Ending
<1>3. /\ children' \in Seq(Names)
      /\ \A i \in DOMAIN children : i \in DOMAIN children' /\ children'[i] = children[i]
      /\ \E i \in DOMAIN children' : children'[i] = born
  <2>1. /\ children' \in Seq(Names) /\ Len(children') = Len(children) + 1
        /\ \A i \in 1 .. Len(children) : children'[i] = children[i]
        /\ children'[Len(children) + 1] = born
    BY <1>1, <1>2, AppendProperties
  <2>2. Len(children) \in Nat /\ DOMAIN children = 1 .. Len(children) /\ DOMAIN children' = 1 .. (Len(children) + 1)
    BY <1>2, <2>1, LenProperties
  <2>3. QED
    BY <2>1, <2>2
<1>4. TypeOK'
  BY <1>1, <1>3, SameResults DEF SilInv, TypeOK, Busy
<1>5. CutEnds' /\ NoneLeft' /\ Reaped'
  BY <1>1, <1>2 DEF CutEnds, NoneLeft, Reaped, Busy
<1>6. Tended'
  <2> SUFFICES ASSUME NEW n \in Names, Running(n)' PROVE Known(n)'
    BY DEF Tended
  <2>1. Known(n) \/ n = born
    BY <1>1, <1>2 DEF SilInv, Tended, Running
  <2>2. QED
    BY <1>3, <2>1 DEF Known
<1>7. OwnDatabase'
  BY <1>1 DEF SilInv, OwnDatabase, Ending
<1>8. QED
  BY <1>1, <1>4, <1>5, <1>6, <1>7, SameResults DEF SilInv

LEMMA AwaitStep == ASSUME SilInv, AwaitBackend \/ AwaitProxy PROVE SilInv'
<1>1. pc \in Busy
  BY DEF AwaitBackend, AwaitProxy, Busy
<1>2. CASE Raise
  BY <1>1, <1>2, RaiseStep
<1>3. CASE pc' \in {"proxy", "agents"} /\ UNCHANGED <<envVars, procVars, walkVars, stale, fatal, k, rc>>
  <2>1. pc' \in Busy /\ UNCHANGED <<sc, args, cut, proc, children, born, stale, k, results>>
    BY <1>3 DEF Busy, envVars, procVars, walkVars
  <2>2. QED
    BY <1>1, <2>1, SameResults, WalkStep
<1>4. QED
  BY <1>2, <1>3 DEF AwaitBackend, AwaitProxy

LEMMA StartProxyStep == ASSUME SilInv, StartProxy PROVE SilInv'
<1>1. pc = "proxy" /\ pc \in Busy
  BY DEF StartProxy, Busy
<1>2. CASE Popen("lossy_proxy") /\ UNCHANGED stale
  BY <1>1, <1>2, PopenStep DEF Names
<1>3. CASE pc' = "agents" /\ UNCHANGED <<envVars, procVars, walkVars, stale, fatal, k, rc>>
  <2>1. pc' \in Busy /\ UNCHANGED <<sc, args, cut, proc, children, born, stale, k, results>>
    BY <1>3 DEF Busy, envVars, procVars, walkVars
  <2>2. QED
    BY <1>1, <2>1, SameResults, WalkStep
<1>4. QED
  BY <1>2, <1>3 DEF StartProxy

LEMMA SpawnAgentsStep == ASSUME SilInv, SpawnAgents PROVE SilInv'
<1>1. pc = "agents" /\ pc \in Busy
  BY DEF SpawnAgents, Busy
<1>2. CASE Raise
  BY <1>1, <1>2, RaiseStep
<1>3. ASSUME NEW i \in NotStarted, Popen(sc.devices[i].id), UNCHANGED stale PROVE SilInv'
  <2>1. sc.devices[i].id \in Names
    BY SilAssumption DEF SilInv, TypeOK, NotStarted, Names, Range
  <2>2. QED
    BY <1>1, <1>3, <2>1, PopenStep
<1>4. CASE pc' = "walk" /\ UNCHANGED <<envVars, procVars, elapsed, results, tried, stale, fatal, k, rc>>
  <2>1. pc' \in Busy /\ UNCHANGED <<sc, args, cut, proc, children, born, stale, k, results>>
    BY <1>4 DEF Busy, envVars, procVars
  <2>2. QED
    BY <1>1, <2>1, SameResults, WalkStep
<1>5. QED
  BY <1>2, <1>3, <1>4 DEF SpawnAgents

LEMMA ScheduleStep == ASSUME SilInv, RunAction \/ StartCheck \/ Nap PROVE SilInv'
<1>1. /\ pc \in Busy /\ pc' \in Busy
      /\ UNCHANGED <<sc, args, cut, proc, children, born, stale, k, results>>
  BY DEF RunAction, StartCheck, Nap, Busy, envVars, procVars, walkVars
<1>2. QED
  BY <1>1, SameResults, WalkStep

LEMMA EndOfScheduleStep == ASSUME SilInv, EndOfSchedule PROVE SilInv'
<1>1. pc \in Busy /\ UNCHANGED <<sc, args, cut, proc, children, born, stale, results>> /\ stale' \in BOOLEAN
  BY DEF EndOfSchedule, Busy, envVars, procVars, walkVars, SilInv, TypeOK
<1>2. CASE ToKill(None)
  BY <1>1, <1>2, KillStep
<1>3. CASE pc' = "hold" /\ UNCHANGED <<fatal, k>>
  <2>1. pc' \in Busy
    BY <1>3 DEF Busy
  <2>2. QED
    BY <1>1, <1>3, <2>1, SameResults, WalkStep
<1>4. QED
  BY <1>2, <1>3 DEF EndOfSchedule

\* What a passing expectation rests on, for a reply the API client can give.
LEMMA PassRestsOnReply ==
    ASSUME NEW e, NEW r \in Replies(e), EvalCheck(e, r)
    PROVE  /\ r # None \/ e.check = "no_alerts_of_severity"
           /\ stale = FALSE => Outcome(e, EvalCheck(e, r), r).fresh
<1>1. r # None \/ e.check = "no_alerts_of_severity"
  BY DEF EvalCheck, Hits, AlertsOf
<1>2. ASSUME stale = FALSE, e.check \in {"alert_open", "alert_resolved"}, NEW a \in Hits(e, r) PROVE a.fresh
  <2>1. r = None \/ r \in SUBSET {x \in Alert : stale \/ x.fresh}
    <3>1. e.check \in AlertChecks /\ e.check \notin DeviceChecks
      BY <1>2 DEF AlertChecks, DeviceChecks
    <3>2. QED
      BY <3>1 DEF Replies
  <2>2. QED
    BY <1>2, <2>1 DEF Hits, AlertsOf
<1>3. QED
  BY <1>1, <1>2 DEF Outcome

LEMMA PollStep ==
    ASSUME SilInv, NEW r, pc = "poll" => r \in Replies(Head(todo).it), NEW t, Poll(r, t)
    PROVE  SilInv'
<1> DEFINE e == Head(todo).it
           ok == EvalCheck(e, r)
           out == Outcome(e, ok, r)
<1>1. /\ pc = "poll" /\ pc \in Busy /\ pc' \in Busy /\ r \in Replies(e)
      /\ UNCHANGED <<sc, args, cut, proc, children, born, stale, k>>
      /\ results' = results \/ results' = Append(results, out)
  BY DEF Poll, Busy, envVars, procVars
<1>2. CASE results' = results
  BY <1>1, <1>2, SameResults, WalkStep
<1>3. CASE results' = Append(results, out)
  <2>1. IsList(results)
    BY DEF SilInv, TypeOK
  <2>2. /\ out.ok = ok /\ out.e = e /\ out.answered = (r # None)
    BY DEF Outcome
  <2>3. args.start_backend => stale = FALSE
    BY <1>1 DEF SilInv, TypeOK, OwnDatabase, Busy, Ending
  <2>4. ok => /\ out.answered \/ out.e.check = "no_alerts_of_severity"
              /\ args.start_backend => out.fresh
    BY <1>1, <2>2, <2>3, PassRestsOnReply
  <2> HIDE DEF out
  <2>5. /\ IsList(results') /\ DOMAIN results' = 1 .. (Len(results) + 1)
        /\ \A i \in 1 .. Len(results) : results'[i] = results[i]
        /\ results'[Len(results) + 1] = out
    BY <1>3, <2>1, ListAppend
  <2>6. Len(results) \in Nat /\ DOMAIN results = 1 .. Len(results)
    BY <2>1, ListIs
  <2>7. PassesEarned'
    <3> SUFFICES ASSUME NEW i \in DOMAIN results', results'[i].ok
                 PROVE  /\ results'[i].answered \/ results'[i].e.check = "no_alerts_of_severity"
                        /\ args.start_backend => results'[i].fresh
      BY <1>1 DEF PassesEarned
    <3>1. CASE i \in 1 .. Len(results)
      BY <2>5, <2>6, <3>1 DEF SilInv, PassesEarned
    <3>2. CASE i = Len(results) + 1
      BY <2>2, <2>4, <2>5, <3>2
    <3>3. QED
      BY <2>5, <2>6, <3>1, <3>2
  <2>8. QED
    BY <1>1, <2>5, <2>7, WalkStep
<1>4. QED
  BY <1>1, <1>2, <1>3

-----------------------------------------------------------------------------
(* kill_all, the report and the environment.                               *)

LEMMA KillTermStep == ASSUME SilInv, KillTerm PROVE SilInv'
<1>1. /\ pc = "kill_term" /\ pc' \in {"kill_term", "kill_wait"} /\ k' \in Int
      /\ pc' = "kill_wait" => k' = 1
      /\ UNCHANGED <<sc, args, cut, children, born, stale, results>>
  BY DEF SilInv, TypeOK, KillTerm, envVars, walkVars
<1>2. /\ proc' \in [Names -> States]
      /\ \A n \in Names : Running(n)' => Running(n)
  BY DEF SilInv, TypeOK, KillTerm, Running, States
<1>3. TypeOK' /\ CutEnds' /\ NoneLeft' /\ OwnDatabase'
  BY <1>1, <1>2, SameResults DEF SilInv, TypeOK, CutEnds, NoneLeft, OwnDatabase, Ending
<1>4. Tended'
  BY <1>1, <1>2 DEF SilInv, Tended, Known
<1>5. Reaped'
  <2> SUFFICES ASSUME pc' = "kill_wait", cut = FALSE, NEW n \in Names, Running(n)'
               PROVE  \E i \in DOMAIN children' : i >= k' /\ children'[i] = n
    BY <1>1 DEF Reaped, SilInv, TypeOK
  <2>1. Known(n)
    BY <1>1, <1>2 DEF SilInv, Tended
  <2>2. \A i \in DOMAIN children : i >= 1
    BY DEF SilInv, TypeOK
  <2>3. QED
    BY <1>1, <2>1, <2>2 DEF Known
<1>6. QED
  BY <1>1, <1>3, <1>4, <1>5, SameResults DEF SilInv

LEMMA KillWaitStep == ASSUME SilInv, KillWait PROVE SilInv'
<1>1. /\ pc = "kill_wait" /\ pc' \in {"kill_wait", "report"}
      /\ UNCHANGED <<sc, args, cut, born, stale, results>>
      /\ k \in Int /\ children \in Seq(Names) /\ proc \in [Names -> States] /\ cut \in BOOLEAN
  BY DEF SilInv, TypeOK, KillWait, envVars, walkVars
<1>2. Len(children) \in Nat /\ DOMAIN children = 1 .. Len(children)
  BY <1>1
<1>3. CASE k <= Len(children)
  <2>1. /\ proc' = [proc EXCEPT ![children[k]] = "down"] /\ k' = k + 1 /\ children' = children
        /\ pc' = "kill_wait"
    BY <1>1, <1>3 DEF KillWait
  <2>2. /\ proc' \in [Names -> States] /\ k' \in Int
        /\ \A n \in Names : Running(n)' => Running(n) /\ n # children[k]
    <3> DEFINE child == children[k]
    <3>1. proc' = [proc EXCEPT ![child] = "down"]
      BY <2>1
    <3> HIDE DEF child
    <3>2. \A n \in Names : proc'[n] = IF n = child THEN "down" ELSE proc[n]
      BY <1>1, <3>1
    <3>3. proc' \in [Names -> States]
      BY <1>1, <3>1 DEF States
    <3>4. \A n \in Names : Running(n)' => Running(n) /\ n # child
      BY <3>2 DEF Running
    <3>5. QED
      BY <1>1, <2>1, <3>3, <3>4 DEF child
  <2>3. TypeOK' /\ CutEnds' /\ NoneLeft' /\ OwnDatabase'
    BY <1>1, <2>1, <2>2, SameResults DEF SilInv, TypeOK, CutEnds, NoneLeft, OwnDatabase, Ending
  <2>4. Tended'
    BY <1>1, <2>1, <2>2 DEF SilInv, Tended, Known
  <2>5. Reaped'
    <3> SUFFICES ASSUME cut = FALSE, NEW n \in Names, Running(n)'
                 PROVE  \E i \in DOMAIN children' : i >= k' /\ children'[i] = n
      BY <1>1 DEF Reaped
    <3>1. PICK i \in DOMAIN children : i >= k /\ children[i] = n
      BY <1>1, <2>2 DEF SilInv, Reaped
    <3>2. i # k
      BY <2>2, <3>1
    <3>3. i \in Nat /\ i >= k + 1
      BY <1>1, <1>2, <3>1, <3>2
    <3>4. QED
      BY <2>1, <3>1, <3>3
  <2>6. QED
    BY <1>1, <2>3, <2>4, <2>5, SameResults DEF SilInv
<1>4. CASE ~(k <= Len(children))
  <2>1. proc' = proc /\ k' = k /\ children' = <<>> /\ pc' = "report"
    BY <1>1, <1>4 DEF KillWait
  <2>2. children' \in Seq(Names)
    BY <2>1
  <2>3. ASSUME cut = FALSE, NEW n \in Names PROVE ~Running(n)
    <3>1. ASSUME NEW i \in DOMAIN children PROVE ~(i >= k)
      BY <1>1, <1>2, <1>4
    <3>2. QED
      BY <1>1, <2>3, <3>1 DEF SilInv, Reaped
  <2>4. TypeOK' /\ CutEnds' /\ OwnDatabase' /\ Reaped'
    BY <1>1, <2>1, <2>2, SameResults DEF SilInv, TypeOK, CutEnds, OwnDatabase, Reaped, Ending
  <2>5. Tended' /\ NoneLeft'
    BY <1>1, <2>1, <2>3 DEF Tended, NoneLeft, Running
  <2>6. QED
    BY <1>1, <2>4, <2>5, SameResults DEF SilInv
<1>5. QED
  BY <1>3, <1>4

LEMMA ReportStep == ASSUME SilInv, Report PROVE SilInv'
<1>1. /\ pc = "report" /\ pc' = "exit" /\ UNCHANGED <<sc, args, cut, proc, children, born, stale, k, results>>
  BY DEF Report, envVars, procVars, walkVars
<1>2. TypeOK' /\ CutEnds' /\ OwnDatabase' /\ Reaped'
  BY <1>1, SameResults DEF SilInv, TypeOK, CutEnds, OwnDatabase, Reaped, Ending
<1>3. Tended' /\ NoneLeft'
  BY <1>1 DEF SilInv, Tended, NoneLeft, Running, Known
<1>4. QED
  BY <1>1, <1>2, <1>3, SameResults DEF SilInv

LEMMA ChildExitsStep == ASSUME SilInv, NEW n \in Names, ChildExits(n) PROVE SilInv'
<1>1. UNCHANGED <<sc, args, cut, children, born, pc, stale, k, results>>
  BY DEF ChildExits, envVars, walkVars
<1>2. /\ proc' \in [Names -> States]
      /\ \A x \in Names : Running(x)' => Running(x)
  BY DEF SilInv, TypeOK, ChildExits, Running, States
<1>3. TypeOK' /\ CutEnds' /\ OwnDatabase'
  BY <1>1, <1>2, SameResults DEF SilInv, TypeOK, CutEnds, OwnDatabase
<1>4. Tended' /\ NoneLeft' /\ Reaped'
  BY <1>1, <1>2 DEF SilInv, Tended, NoneLeft, Reaped, Known
<1>5. QED
  BY <1>1, <1>3, <1>4, SameResults DEF SilInv

\* A signal before the clean-up: kill_all runs, and misses only what spawn holds.
LEMMA InterruptStep == ASSUME SilInv, Interrupt PROVE SilInv'
<1>1. /\ pc \notin {"load"} \cup Ending /\ pc' = "kill_term" /\ k' = Len(children) /\ cut' = (pc = "track")
      /\ UNCHANGED <<sc, args, proc, children, born, stale, results>>
  BY DEF Interrupt, ToKill, Ending, procVars, walkVars
<1>2. k' \in Int /\ cut' \in BOOLEAN
  BY <1>1 DEF SilInv, TypeOK
<1>3. TypeOK' /\ CutEnds' /\ NoneLeft' /\ Reaped' /\ OwnDatabase'
  BY <1>1, <1>2, SameResults DEF SilInv, TypeOK, CutEnds, NoneLeft, Reaped, OwnDatabase, Ending
<1>4. Tended'
  <2> SUFFICES ASSUME NEW n \in Names, Running(n)', pc # "track" PROVE Known(n)'
    BY <1>1 DEF Tended
  <2>1. ~cut
    BY <1>1 DEF SilInv, CutEnds
  <2>2. Known(n)
    BY <1>1, <2>1 DEF SilInv, Tended, Running
  <2>3. QED
    BY <1>1, <2>2 DEF Known
<1>5. QED
  BY <1>1, <1>3, <1>4, SameResults DEF SilInv

LEMMA InterruptCleanupStep == ASSUME SilInv, InterruptCleanup PROVE SilInv'
<1>1. pc' = "exit" /\ cut' = TRUE /\ UNCHANGED <<sc, args, proc, children, born, stale, k, results>>
  BY DEF InterruptCleanup, procVars, walkVars
<1>2. TypeOK'
  BY <1>1, SameResults DEF SilInv, TypeOK
<1>3. CutEnds' /\ NoneLeft' /\ Reaped' /\ OwnDatabase' /\ Tended'
  BY <1>1 DEF CutEnds, NoneLeft, Reaped, OwnDatabase, Tended, Ending
<1>4. QED
  BY <1>1, <1>2, <1>3, SameResults DEF SilInv

-----------------------------------------------------------------------------
(* The invariant.                                                          *)

LEMMA SilStart == Init => SilInv
<1> SUFFICES ASSUME Init PROVE SilInv
  OBVIOUS
<1>1. IsList(<<>>)
  BY EmptySeq DEF IsList
<1>2. children \in Seq(Names)
  BY EmptySeq DEF Init
<1>3. TypeOK
  <2>1. proc \in [Names -> States]
    BY DEF Init, States
  <2>2. IsList(results)
    BY <1>1 DEF Init
  <2>3. k \in Int /\ pc # "track" /\ sc \in Scenarios
    BY DEF Init
  <2>4. stale \in BOOLEAN /\ cut \in BOOLEAN
    BY DEF Init
  <2>5. QED
    BY <1>2, <2>1, <2>2, <2>3, <2>4, Zenon DEF TypeOK
<1>4. \A n \in Names : ~Running(n)
  BY DEF Init, Running
<1>5. Tended /\ NoneLeft /\ Reaped /\ CutEnds /\ OwnDatabase
  BY <1>4 DEF Init, Tended, NoneLeft, Reaped, CutEnds, OwnDatabase
<1>6. PassesEarned
  BY DEF Init, PassesEarned
<1>7. QED
  BY <1>3, <1>5, <1>6 DEF SilInv

LEMMA SilKept == SilInv /\ [Next]_vars => SilInv'
<1> SUFFICES ASSUME SilInv, [Next]_vars PROVE SilInv'
  OBVIOUS
<1>1. CASE RunnerStep
  <2>1. CASE Load
    BY <2>1, LoadStep
  <2>2. CASE StartBackend \/ UseBackend
    BY <2>2, StartStep
  <2>3. CASE Track
    BY <2>3, TrackStep
  <2>4. CASE AwaitBackend \/ AwaitProxy
    BY <2>4, AwaitStep
  <2>5. CASE StartProxy
    BY <2>5, StartProxyStep
  <2>6. CASE SpawnAgents
    BY <2>6, SpawnAgentsStep
  <2>7. CASE RunAction \/ StartCheck \/ Nap
    BY <2>7, ScheduleStep
  <2>8. CASE EndOfSchedule
    BY <2>8, EndOfScheduleStep
  <2>9. ASSUME NEW r \in IF pc = "poll" THEN Replies(Head(todo).it) ELSE {},
               NEW t \in (elapsed + 1) .. (Grace + 1), Poll(r, t)
        PROVE  SilInv'
    <3>1. pc = "poll" => r \in Replies(Head(todo).it)
      OBVIOUS
    <3>2. QED
      BY <2>9, <3>1, PollStep
  <2>10. CASE KillTerm
    BY <2>10, KillTermStep
  <2>11. CASE KillWait
    BY <2>11, KillWaitStep
  <2>12. CASE Report
    BY <2>12, ReportStep
  <2>13. QED
    BY <1>1, <2>1, <2>2, <2>3, <2>4, <2>5, <2>6, <2>7, <2>8, <2>9, <2>10, <2>11, <2>12 DEF RunnerStep
<1>2. ASSUME NEW n \in Names, ChildExits(n) PROVE SilInv'
  BY <1>2, ChildExitsStep
<1>3. CASE Interrupt
  BY <1>3, InterruptStep
<1>4. CASE InterruptCleanup
  BY <1>4, InterruptCleanupStep
<1>5. CASE UNCHANGED vars
  <2>1. UNCHANGED <<sc, args, cut, proc, children, born, pc, stale, k, results>>
    BY <1>5 DEF vars, envVars, procVars, walkVars
  <2>2. TypeOK' /\ CutEnds' /\ OwnDatabase'
    BY <2>1, SameResults DEF SilInv, TypeOK, CutEnds, OwnDatabase
  <2>3. Tended' /\ NoneLeft' /\ Reaped'
    BY <2>1 DEF SilInv, Tended, NoneLeft, Reaped, Running, Known
  <2>4. QED
    BY <2>1, <2>2, <2>3, SameResults DEF SilInv
<1>6. QED
  BY <1>1, <1>2, <1>3, <1>4, <1>5 DEF Next

\* The inductive invariant holds wherever the runner, its children and the signals lead.
THEOREM SilInvariant == Spec => []SilInv
<1>1. QED
  BY SilStart, SilKept, PTL DEF Spec

-----------------------------------------------------------------------------
(* The properties.                                                         *)

\* Whatever fails and whenever a signal arrives, no child outlives the runner, unless
\* the signal falls between Popen and append or into kill_all (spawn, kill_all).
THEOREM NoChildOutlives == Spec => []NoOrphans
<1>1. SilInv => NoOrphans
  BY DEF SilInv, NoneLeft, NoOrphans
<1>2. QED
  BY <1>1, SilInvariant, PTL

\* No expectation passes on an alert of an earlier run when the runner starts the
\* backend, or on a reply that never came, but for no_alerts_of_severity
\* (eval_check, start_backend).
THEOREM EveryPassEarned == Spec => []PassesEarned
<1>1. SilInv => PassesEarned
  BY DEF SilInv
<1>2. QED
  BY <1>1, SilInvariant, PTL

-----------------------------------------------------------------------------
(* The stable sort.                                                        *)

\* Entries of the schedule: a time and a kind that the key can compare.
Sortable(items, n) ==
    /\ n \in Nat
    /\ DOMAIN items = 1 .. n
    /\ \A i \in 1 .. n : items[i].at \in Nat /\ items[i].kind \in {"action", "expect"}

\* The stable sort compares any two entries one way.
LEMMA SoonerOrders ==
    ASSUME NEW items, NEW n, Sortable(items, n), NEW i \in 1 .. n, NEW j \in 1 .. n
    PROVE  /\ ~(Sooner(items, i, j) /\ Sooner(items, j, i))
           /\ i # j => Sooner(items, i, j) \/ Sooner(items, j, i)
           /\ ~Sooner(items, i, i)
           /\ \A x \in 1 .. n : Sooner(items, x, i) /\ Sooner(items, i, j) => Sooner(items, x, j)
<1>1. i \in Nat /\ j \in Nat
  BY DEF Sortable
<1>2. \A x \in 1 .. n : x \in Nat /\ items[x].at \in Nat /\ items[x].kind \in {"action", "expect"}
  BY DEF Sortable
<1>3. QED
  BY <1>1, <1>2, SMTT(30) DEF Sooner, Before

LEMMA PlaceIsPlace ==
    ASSUME NEW items, NEW n, Sortable(items, n), NEW i \in 1 .. n
    PROVE  /\ Place(items, i) \in 1 .. n
           /\ \A j \in 1 .. n : Sooner(items, i, j) => Place(items, i) < Place(items, j)
<1> DEFINE S(x) == {j \in 1 .. n : j = x \/ Sooner(items, j, x)}
<1>1. n \in Nat /\ \A x : Place(items, x) = Cardinality(S(x))
  BY DEF Sortable, Place
<1>2. IsFiniteSet(1 .. n) /\ Cardinality(1 .. n) = n
  BY <1>1, FS_Interval
<1>3. ASSUME NEW x \in 1 .. n
      PROVE  IsFiniteSet(S(x)) /\ Cardinality(S(x)) \in 1 .. n
  <2>1. IsFiniteSet(S(x)) /\ Cardinality(S(x)) <= n
    <3>1. S(x) \in SUBSET (1 .. n)
      OBVIOUS
    <3> HIDE DEF S
    <3>2. QED
      BY <1>2, <3>1, FS_Subset
  <2>2. S(x) # {}
    BY <1>3
  <2> HIDE DEF S
  <2>3. Cardinality(S(x)) \in Nat /\ Cardinality(S(x)) # 0
    BY <2>1, <2>2, FS_CardinalityType, FS_EmptySet
  <2>4. QED
    BY <1>1, <2>1, <2>3
<1>4. ASSUME NEW j \in 1 .. n, Sooner(items, i, j) PROVE Cardinality(S(i)) < Cardinality(S(j))
  <2>1. S(i) \subseteq S(j)
    BY <1>4, SoonerOrders
  <2>2. j \in S(j) /\ j \notin S(i)
    BY <1>4, SoonerOrders
  <2>3. IsFiniteSet(S(j)) /\ Cardinality(S(j)) \in 1 .. n /\ Cardinality(S(i)) \in 1 .. n
    BY <1>3
  <2> HIDE DEF S
  <2>4. Cardinality(S(i)) <= Cardinality(S(j)) /\ Cardinality(S(i)) # Cardinality(S(j))
    BY <2>1, <2>2, <2>3, FS_Subset
  <2>5. QED
    BY <1>1, <2>3, <2>4
<1> HIDE DEF S
<1>5. QED
  BY <1>1, <1>3, <1>4

\* Every place of the schedule is taken by exactly one entry.
LEMMA PlacesTaken ==
    ASSUME NEW items, NEW n, Sortable(items, n)
    PROVE  /\ \A p \in 1 .. n : \E i \in 1 .. n : Place(items, i) = p
           /\ \A i, j \in 1 .. n : Place(items, i) = Place(items, j) => i = j
<1> DEFINE f == [i \in 1 .. n |-> Place(items, i)]
<1>1. n \in Nat /\ IsFiniteSet(1 .. n)
  BY FS_Interval DEF Sortable
<1>2. \A i, j \in 1 .. n : Place(items, i) = Place(items, j) => i = j
  <2> SUFFICES ASSUME NEW i \in 1 .. n, NEW j \in 1 .. n, Place(items, i) = Place(items, j), i # j PROVE FALSE
    OBVIOUS
  <2>1. Sooner(items, i, j) \/ Sooner(items, j, i)
    BY SoonerOrders
  <2>2. Place(items, i) \in 1 .. n /\ Place(items, j) \in 1 .. n
    BY PlaceIsPlace
  <2>3. Place(items, i) < Place(items, j) \/ Place(items, j) < Place(items, i)
    BY <2>1, PlaceIsPlace
  <2>4. QED
    BY <2>2, <2>3
<1>3. f \in Injection(1 .. n, 1 .. n)
  <2>1. f \in [1 .. n -> 1 .. n]
    BY PlaceIsPlace
  <2>2. \A i, j \in 1 .. n : f[i] = f[j] => i = j
    BY <1>2
  <2> HIDE DEF f
  <2>3. QED
    BY <2>1, <2>2 DEF Injection, IsInjective
<1>4. f \in Surjection(1 .. n, 1 .. n)
  <2> HIDE DEF f
  <2>1. QED
    BY <1>1, <1>3, FS_Injection
<1>5. \A p \in 1 .. n : \E i \in 1 .. n : f[i] = p
  <2> HIDE DEF f
  <2>1. QED
    BY <1>4 DEF Surjection
<1>6. QED
  BY <1>2, <1>5

-----------------------------------------------------------------------------
(* The schedule of a scenario.                                             *)

ActionEntry(s, i) == [kind |-> "action", at |-> s.timeline[i].at, it |-> s.timeline[i]]
ExpectEntry(s, i) == [kind |-> "expect", at |-> s.expect[i].at, it |-> s.expect[i]]

\* What the shape of a scenario says of its two lists.
LEMMA ScenarioShape ==
    ASSUME NEW s \in Scenarios
    PROVE  /\ Len(s.timeline) \in Nat /\ DOMAIN s.timeline = 1 .. Len(s.timeline)
           /\ Len(s.expect) \in Nat /\ DOMAIN s.expect = 1 .. Len(s.expect)
           /\ \A i \in DOMAIN s.timeline : s.timeline[i].at \in Nat
           /\ \A i \in DOMAIN s.expect : s.expect[i].at \in Nat
<1>1. s.timeline \in Seq(Event) /\ s.expect \in Seq(Range(s.expect)) /\ \A e \in Range(s.expect) : e.at \in Nat
  BY SilAssumption
<1>2. /\ Len(s.timeline) \in Nat /\ DOMAIN s.timeline = 1 .. Len(s.timeline)
      /\ \A i \in DOMAIN s.timeline : s.timeline[i] \in Event
  BY <1>1, LenProperties, ElementOfSeq
<1>3. /\ Len(s.expect) \in Nat /\ DOMAIN s.expect = 1 .. Len(s.expect)
      /\ \A i \in DOMAIN s.expect : s.expect[i] \in Range(s.expect)
  BY <1>1, LenProperties, ElementOfSeq
<1>4. \A x \in Event : x.at \in Nat
  BY DEF Event
<1>5. QED
  BY <1>1, <1>2, <1>3, <1>4

\* A scenario with m actions and l expectations.
Sizes(s, m, l) == s \in Scenarios /\ m = Len(s.timeline) /\ l = Len(s.expect)

LEMMA SizesAre ==
    ASSUME NEW s, NEW m, NEW l, Sizes(s, m, l)
    PROVE  /\ m \in Nat /\ DOMAIN s.timeline = 1 .. m /\ \A i \in 1 .. m : s.timeline[i].at \in Nat
           /\ l \in Nat /\ DOMAIN s.expect = 1 .. l /\ \A i \in 1 .. l : s.expect[i].at \in Nat
<1>1. s \in Scenarios /\ m = Len(s.timeline) /\ l = Len(s.expect)
  BY DEF Sizes
<1>2. QED
  BY <1>1, ScenarioShape, Zenon

\* The merged list holds the timeline, then the expectations.
LEMMA MergedIs ==
    ASSUME NEW s, NEW m \in Nat, NEW l \in Nat, Sizes(s, m, l)
    PROVE  /\ Sortable(Merged(s), m + l)
           /\ \A i \in 1 .. m : Merged(s)[i] = ActionEntry(s, i)
           /\ \A i \in 1 .. (m + l) : i > m => i - m \in 1 .. l /\ Merged(s)[i] = ExpectEntry(s, i - m)
<1> DEFINE a == [i \in DOMAIN s.timeline |-> ActionEntry(s, i)]
           b == [i \in DOMAIN s.expect |-> ExpectEntry(s, i)]
           All == {ActionEntry(s, i) : i \in DOMAIN s.timeline} \cup {ExpectEntry(s, i) : i \in DOMAIN s.expect}
<1>1. DOMAIN s.timeline = 1 .. m /\ DOMAIN s.expect = 1 .. l
  BY SizesAre, Zenon
<1>3. a \in Seq(All) /\ Len(a) = m
  <2>1. \A i \in 1 .. m : ActionEntry(s, i) \in All
    BY <1>1
  <2>2. a = [i \in 1 .. m |-> ActionEntry(s, i)]
    BY <1>1
  <2> HIDE DEF All
  <2>3. a \in Seq(All)
    BY <1>1, <2>1, <2>2, IsASeq
  <2>4. DOMAIN a = 1 .. m
    BY <1>1
  <2> HIDE DEF a
  <2>5. QED
    BY <1>1, <2>3, <2>4, LenProperties
<1>4. b \in Seq(All) /\ Len(b) = l
  <2>1. \A i \in 1 .. l : ExpectEntry(s, i) \in All
    BY <1>1
  <2>2. b = [i \in 1 .. l |-> ExpectEntry(s, i)]
    BY <1>1
  <2> HIDE DEF All
  <2>3. b \in Seq(All)
    BY <2>1, <2>2, IsASeq
  <2>4. DOMAIN b = 1 .. l
    BY <2>2
  <2> HIDE DEF b
  <2>5. QED
    BY <2>2, <2>3, <2>4, LenProperties
<1>5. Merged(s) = a \o b
  BY DEF Merged, ActionEntry, ExpectEntry
<1> HIDE DEF All
<1>6. /\ a \o b \in Seq(All) /\ Len(a \o b) = m + l
      /\ \A i \in 1 .. (m + l) : (a \o b)[i] = IF i <= m THEN a[i] ELSE b[i - m]
  <2> HIDE DEF a, b
  <2>1. QED
    BY <1>3, <1>4, ConcatProperties, Zenon
<1>7. DOMAIN (a \o b) = 1 .. (m + l)
  <2> HIDE DEF a, b
  <2>1. QED
    BY <1>6, LenProperties, Zenon
<1>8. \A i \in 1 .. m : i \in 1 .. (m + l) /\ i <= m /\ a[i] = ActionEntry(s, i)
  <2>1. \A i \in 1 .. m : i \in 1 .. (m + l) /\ i <= m
    OBVIOUS
  <2>2. \A i \in 1 .. m : a[i] = ActionEntry(s, i)
    BY <1>1, Zenon
  <2>3. QED
    BY <2>1, <2>2, Zenon
<1>9. \A i \in 1 .. (m + l) : i > m => /\ i - m \in 1 .. l /\ i \in 1 .. (m + l) /\ ~(i <= m)
                                 /\ b[i - m] = ExpectEntry(s, i - m)
  <2>1. \A i \in 1 .. (m + l) : i > m => i - m \in 1 .. l /\ i \in 1 .. (m + l) /\ ~(i <= m)
    OBVIOUS
  <2>2. \A i \in 1 .. l : b[i] = ExpectEntry(s, i)
    BY <1>1, Zenon
  <2>3. QED
    BY <2>1, <2>2, Zenon
<1> HIDE DEF a, b
<1>10. /\ \A i \in 1 .. m : Merged(s)[i] = ActionEntry(s, i)
       /\ \A i \in 1 .. (m + l) : i > m => i - m \in 1 .. l /\ Merged(s)[i] = ExpectEntry(s, i - m)
  BY <1>5, <1>6, <1>8, <1>9
<1>11. \A i \in 1 .. (m + l) : Merged(s)[i].at \in Nat /\ Merged(s)[i].kind \in {"action", "expect"}
  <2> SUFFICES ASSUME NEW i \in 1 .. (m + l) PROVE Merged(s)[i].at \in Nat /\ Merged(s)[i].kind \in {"action", "expect"}
    OBVIOUS
  <2>1. i \in 1 .. m \/ i > m
    OBVIOUS
  <2>2. CASE i \in 1 .. m
    <3>1. Merged(s)[i] = ActionEntry(s, i) /\ s.timeline[i].at \in Nat
      BY <1>1, <1>10, <2>2, SizesAre, Zenon
    <3>2. QED
      BY <3>1 DEF ActionEntry
  <2>3. CASE i > m
    <3>1. Merged(s)[i] = ExpectEntry(s, i - m) /\ s.expect[i - m].at \in Nat
      BY <1>1, <1>10, <2>3, SizesAre, Zenon
    <3>2. QED
      BY <3>1 DEF ExpectEntry
  <2>4. QED
    BY <2>1, <2>2, <2>3
<1>12. Sortable(Merged(s), m + l)
  BY <1>1, <1>5, <1>7, <1>11 DEF Sortable
<1>13. QED
  BY <1>10, <1>12

\* order[p] is the entry at place p of the schedule.
Sorts(order, s, n) ==
    /\ order \in [1 .. n -> 1 .. n]
    /\ DOMAIN Schedule(s) = 1 .. n
    /\ \A p \in 1 .. n : Schedule(s)[p] = Merged(s)[order[p]]
    /\ \A p, q \in 1 .. n : p < q => Sooner(Merged(s), order[p], order[q])
    /\ \A i \in 1 .. n : \E p \in 1 .. n : order[p] = i

\* The schedule holds every entry once, in the order of the sort key.
LEMMA ScheduleSorts ==
    ASSUME NEW s, NEW n, Sortable(Merged(s), n)
    PROVE  \E order : Sorts(order, s, n)
<1>1. PICK items : items = Merged(s)
  OBVIOUS
<1>2. Sortable(items, n) /\ n \in Nat /\ DOMAIN items = 1 .. n
  BY <1>1 DEF Sortable
<1> DEFINE order == [p \in 1 .. n |-> CHOOSE i \in 1 .. n : Place(items, i) = p]
<1>3. \A p \in 1 .. n : order[p] \in 1 .. n /\ Place(items, order[p]) = p
  BY <1>2, PlacesTaken
<1>4. order \in [1 .. n -> 1 .. n]
  BY <1>3
<1>5. DOMAIN Schedule(s) = 1 .. n /\ \A p \in 1 .. n : Schedule(s)[p] = items[order[p]]
  BY <1>1, <1>2 DEF Schedule
<1> HIDE DEF order
<1>6. \A p, q \in 1 .. n : p < q => Sooner(items, order[p], order[q])
  <2> SUFFICES ASSUME NEW p \in 1 .. n, NEW q \in 1 .. n, p < q PROVE Sooner(items, order[p], order[q])
    OBVIOUS
  <2>1. /\ order[p] \in 1 .. n /\ order[q] \in 1 .. n
        /\ Place(items, order[p]) = p /\ Place(items, order[q]) = q
    BY <1>3
  <2>2. order[p] # order[q] /\ ~(q < p)
    BY <1>2, <2>1
  <2>3. ~Sooner(items, order[q], order[p])
    BY <1>2, <2>1, <2>2, PlaceIsPlace
  <2>4. QED
    BY <1>2, <2>1, <2>2, <2>3, SoonerOrders
<1>7. \A i \in 1 .. n : \E p \in 1 .. n : order[p] = i
  <2> SUFFICES ASSUME NEW i \in 1 .. n PROVE \E p \in 1 .. n : order[p] = i
    OBVIOUS
  <2>1. Place(items, i) \in 1 .. n
    BY <1>2, PlaceIsPlace
  <2>2. Place(items, order[Place(items, i)]) = Place(items, i) /\ order[Place(items, i)] \in 1 .. n
    BY <1>3, <2>1
  <2>3. order[Place(items, i)] = i
    BY <1>2, <2>2, PlacesTaken
  <2>4. QED
    BY <2>1, <2>3
<1>8. Sorts(order, s, n)
  BY <1>1, <1>4, <1>5, <1>6, <1>7 DEF Sorts
<1>9. QED
  BY <1>8

\* A function on 1 .. n is a sequence.
LEMMA FunctionIsList ==
    ASSUME NEW f, NEW n \in Nat, f = [i \in 1 .. n |-> f[i]]
    PROVE  IsList(f) /\ Len(f) = n /\ DOMAIN f = 1 .. n
<1> DEFINE All == {f[i] : i \in DOMAIN f}
<1>1. DOMAIN f = 1 .. n
  BY Zenon
<1>2. \A i \in 1 .. n : f[i] \in All
  BY <1>1, Zenon
<1> HIDE DEF All
<1>3. f \in Seq(All)
  BY <1>2, IsASeq
<1>4. Len(f) = n
  BY <1>1, <1>3, LenProperties
<1>5. QED
  BY <1>1, <1>3, <1>4 DEF All, IsList

\* The schedule, entry by entry.
LEMMA ScheduleEntries ==
    ASSUME NEW s, NEW m \in Nat, NEW l \in Nat, Sizes(s, m, l), NEW order, Sorts(order, s, m + l),
           NEW p \in 1 .. (m + l)
    PROVE  /\ order[p] \in 1 .. (m + l)
           /\ order[p] <= m => Schedule(s)[p] = ActionEntry(s, order[p])
           /\ order[p] > m => order[p] - m \in 1 .. l /\ Schedule(s)[p] = ExpectEntry(s, order[p] - m)
           /\ Schedule(s)[p].kind = "action" <=> order[p] <= m
           /\ Schedule(s)[p].kind = "expect" <=> order[p] > m
<1>1. PICK i : i = order[p]
  OBVIOUS
<1>2. i \in 1 .. (m + l) /\ Schedule(s)[p] = Merged(s)[i]
  BY <1>1 DEF Sorts
<1>3. i <= m \/ i > m
  BY <1>2
<1>4. CASE i <= m
  <2>1. i \in 1 .. m /\ ~(i > m)
    BY <1>2, <1>4
  <2>2. Schedule(s)[p] = ActionEntry(s, i)
    BY <1>2, <2>1, MergedIs, Zenon
  <2>3. Schedule(s)[p].kind = "action"
    BY <2>2 DEF ActionEntry
  <2>4. QED
    BY <1>1, <1>2, <1>4, <2>1, <2>2, <2>3
<1>5. CASE i > m
  <2>1. ~(i <= m)
    BY <1>2, <1>5
  <2>2. i - m \in 1 .. l /\ Schedule(s)[p] = ExpectEntry(s, i - m)
    BY <1>2, <1>5, MergedIs, Zenon
  <2>3. Schedule(s)[p].kind = "expect"
    BY <2>2 DEF ExpectEntry
  <2>4. QED
    BY <1>1, <1>2, <1>5, <2>1, <2>2, <2>3
<1>6. QED
  BY <1>3, <1>4, <1>5

\* The schedule is a sequence, and an action that comes after an expectation is due later.
LEMMA ScheduleIs ==
    ASSUME NEW s, NEW m \in Nat, NEW l \in Nat, Sizes(s, m, l), NEW order, Sorts(order, s, m + l)
    PROVE  /\ IsList(Schedule(s)) /\ Len(Schedule(s)) = m + l /\ DOMAIN Schedule(s) = 1 .. (m + l)
           /\ \A p, q \in 1 .. (m + l) :
                p < q /\ Schedule(s)[p].kind = "expect" /\ Schedule(s)[q].kind = "action"
                    => Schedule(s)[q].at > Schedule(s)[p].at
<1>1. PICK sched, n : sched = Schedule(s) /\ n = m + l
  OBVIOUS
<1>2. n \in Nat /\ DOMAIN sched = 1 .. n /\ sched = [p \in 1 .. n |-> sched[p]]
  <2>1. sched = [p \in DOMAIN sched |-> sched[p]]
    BY <1>1 DEF Schedule
  <2>2. n \in Nat /\ DOMAIN sched = 1 .. n
    BY <1>1 DEF Sorts
  <2>3. QED
    BY <2>1, <2>2, Zenon
<1>3. IsList(sched) /\ Len(sched) = n
  BY <1>2, FunctionIsList
<1>4. ASSUME NEW p \in 1 .. n, NEW q \in 1 .. n, p < q, sched[p].kind = "expect", sched[q].kind = "action"
      PROVE  sched[q].at > sched[p].at
  <2>1. PICK items, i, j : items = Merged(s) /\ i = order[p] /\ j = order[q]
    OBVIOUS
  <2>2. /\ i \in 1 .. n /\ j \in 1 .. n /\ Sooner(items, i, j) /\ sched[p] = items[i] /\ sched[q] = items[j]
    BY <1>1, <1>4, <2>1, Zenon DEF Sorts
  <2>3. Sortable(items, n)
    BY <1>1, <2>1, MergedIs
  <2>4. /\ items[i].at \in Nat /\ items[j].at \in Nat
        /\ items[i].kind = "expect" /\ items[j].kind = "action"
    BY <1>4, <2>2, <2>3 DEF Sortable
  <2>5. items[j].at > items[i].at
    <3>1. ~(items[i].at = items[j].at) /\ ~(items[i].at > items[j].at)
      BY <2>2, <2>4 DEF Sooner, Before
    <3>2. QED
      BY <2>4, <3>1
  <2>6. QED
    BY <2>2, <2>5
<1>5. QED
  BY <1>1, <1>2, <1>3, <1>4

CheckPlaces(s) == {p \in DOMAIN Schedule(s) : Schedule(s)[p].kind = "expect"}
TryPlaces(s) == {p \in DOMAIN Schedule(s) : Schedule(s)[p].kind = "action" /\ Schedule(s)[p].it.action # "note"}
ToTry(s) == {i \in DOMAIN s.timeline : s.timeline[i].action # "note"}

\* Two finite sets between which g is one to one have the same size.
LEMMA SameSize ==
    ASSUME NEW S, NEW T, IsFiniteSet(S), NEW g \in [S -> T],
           \A a, b \in S : g[a] = g[b] => a = b, \A t \in T : \E a \in S : g[a] = t
    PROVE  Cardinality(S) = Cardinality(T)
<1>1. g \in Injection(S, T) /\ g \in Surjection(S, T)
  BY DEF Injection, IsInjective, Surjection
<1>2. ExistsBijection(S, T)
  BY <1>1 DEF ExistsBijection, Bijection
<1>3. QED
  BY <1>2, FS_Bijection

LEMMA OrderIsOneToOne ==
    ASSUME NEW s, NEW n, Sortable(Merged(s), n), NEW order, Sorts(order, s, n)
    PROVE  \A p, q \in 1 .. n : order[p] = order[q] => p = q
<1> SUFFICES ASSUME NEW p \in 1 .. n, NEW q \in 1 .. n, order[p] = order[q] PROVE p = q
  OBVIOUS
<1>1. PICK items : items = Merged(s)
  OBVIOUS
<1>2. n \in Nat /\ Sortable(items, n) /\ order[p] \in 1 .. n
  BY <1>1 DEF Sortable, Sorts
<1>3. ~Sooner(items, order[p], order[q]) /\ ~Sooner(items, order[q], order[p])
  BY <1>2, SoonerOrders
<1>4. ~(p < q) /\ ~(q < p)
  BY <1>1, <1>3 DEF Sorts
<1>5. QED
  BY <1>2, <1>4

\* The schedule holds as many expectations, and as many actions to try, as the scenario.
LEMMA ScheduleCounts ==
    ASSUME NEW s, NEW m \in Nat, NEW l \in Nat, Sizes(s, m, l), NEW order, Sorts(order, s, m + l)
    PROVE  /\ IsFiniteSet(CheckPlaces(s)) /\ Cardinality(CheckPlaces(s)) = l
           /\ IsFiniteSet(TryPlaces(s)) /\ Cardinality(TryPlaces(s)) = Cardinality(ToTry(s))
<1>1. PICK n : n = m + l
  OBVIOUS
<1>2. n \in Nat /\ IsFiniteSet(1 .. n) /\ DOMAIN Schedule(s) = 1 .. n
  <2>1. n \in Nat
    BY <1>1
  <2>2. QED
    BY <1>1, <2>1, FS_Interval DEF Sorts
<1>3. /\ CheckPlaces(s) \in SUBSET (1 .. n) /\ TryPlaces(s) \in SUBSET (1 .. n)
  BY <1>2 DEF CheckPlaces, TryPlaces
<1>4. IsFiniteSet(CheckPlaces(s)) /\ IsFiniteSet(TryPlaces(s))
  BY <1>2, <1>3, FS_Subset
<1>5. \A p \in 1 .. n :
         /\ order[p] \in 1 .. n
         /\ order[p] <= m => Schedule(s)[p] = ActionEntry(s, order[p])
         /\ Schedule(s)[p].kind = "action" <=> order[p] <= m
         /\ Schedule(s)[p].kind = "expect" <=> order[p] > m
         /\ order[p] > m => order[p] - m \in 1 .. l
  BY <1>1, ScheduleEntries
<1>6. \A p, q \in 1 .. n : order[p] = order[q] => p = q
  <2>1. Sortable(Merged(s), n) /\ Sorts(order, s, n)
    BY <1>1, MergedIs
  <2>2. QED
    BY <2>1, OrderIsOneToOne
<1>7. \A i \in 1 .. n : \E p \in 1 .. n : order[p] = i
  BY <1>1 DEF Sorts
<1>8. Cardinality(CheckPlaces(s)) = l
  <2> DEFINE g == [p \in CheckPlaces(s) |-> order[p] - m]
  <2>1. \A p \in CheckPlaces(s) : p \in 1 .. n /\ order[p] \in 1 .. n /\ order[p] > m /\ order[p] - m \in 1 .. l
    BY <1>2, <1>5, Zenon DEF CheckPlaces
  <2>2. g \in [CheckPlaces(s) -> 1 .. l]
    BY <2>1, Zenon
  <2>3. ASSUME NEW a \in CheckPlaces(s), NEW b \in CheckPlaces(s), g[a] = g[b] PROVE a = b
    <3>1. order[a] - m = order[b] - m
      BY <2>3, Zenon
    <3>2. order[a] = order[b]
      BY <1>1, <2>1, <3>1
    <3>3. QED
      BY <1>6, <2>1, <3>2, Zenon
  <2>4. ASSUME NEW t \in 1 .. l PROVE \E a \in CheckPlaces(s) : g[a] = t
    <3>1. t + m \in 1 .. n /\ t + m > m /\ t + m - m = t
      BY <1>1
    <3>2. PICK p \in 1 .. n : order[p] = t + m
      BY <1>7, <3>1, Zenon
    <3>3. p \in CheckPlaces(s)
      <4>1. order[p] > m
        BY <3>1, <3>2, Zenon
      <4>2. QED
        BY <1>2, <1>5, <4>1, Zenon DEF CheckPlaces
    <3>4. g[p] = t
      BY <3>1, <3>2, <3>3
    <3>5. QED
      BY <3>3, <3>4, Zenon
  <2> HIDE DEF g
  <2>5. Cardinality(CheckPlaces(s)) = Cardinality(1 .. l)
    BY <1>4, <2>2, <2>3, <2>4, SameSize, Zenon
  <2>6. Cardinality(1 .. l) = l
    BY FS_Interval
  <2>7. QED
    BY <2>5, <2>6
<1>9. Cardinality(TryPlaces(s)) = Cardinality(ToTry(s))
  <2> DEFINE g == [p \in TryPlaces(s) |-> order[p]]
  <2>1. DOMAIN s.timeline = 1 .. m
    BY SizesAre, Zenon
  <2>2. ASSUME NEW p \in 1 .. n, order[p] <= m
        PROVE  Schedule(s)[p].it = s.timeline[order[p]] /\ order[p] \in 1 .. m
    <3>1. Schedule(s)[p] = ActionEntry(s, order[p]) /\ order[p] \in 1 .. n
      BY <1>5, <2>2, Zenon
    <3>2. Schedule(s)[p].it = s.timeline[order[p]]
      BY <3>1 DEF ActionEntry
    <3>3. order[p] \in 1 .. m
      BY <1>1, <2>2, <3>1
    <3>4. QED
      BY <3>2, <3>3
  <2>3. ASSUME NEW p \in TryPlaces(s)
        PROVE  p \in 1 .. n /\ order[p] \in ToTry(s)
    <3>1. p \in 1 .. n /\ Schedule(s)[p].kind = "action" /\ Schedule(s)[p].it.action # "note"
      BY <1>2, <2>3, Zenon DEF TryPlaces
    <3>2. order[p] <= m
      BY <1>5, <3>1, Zenon
    <3>3. Schedule(s)[p].it = s.timeline[order[p]] /\ order[p] \in 1 .. m
      BY <2>2, <3>1, <3>2, Zenon
    <3>4. QED
      BY <2>1, <3>1, <3>3, Zenon DEF ToTry
  <2>4. g \in [TryPlaces(s) -> ToTry(s)]
    BY <2>3, Zenon
  <2>5. ASSUME NEW a \in TryPlaces(s), NEW b \in TryPlaces(s), g[a] = g[b] PROVE a = b
    <3>1. order[a] = order[b]
      BY <2>5, Zenon
    <3>2. QED
      BY <1>6, <2>3, <3>1, Zenon
  <2>6. ASSUME NEW t \in ToTry(s) PROVE \E a \in TryPlaces(s) : g[a] = t
    <3>1. t \in 1 .. m /\ s.timeline[t].action # "note"
      BY <2>1, Zenon DEF ToTry
    <3>2. t \in 1 .. n /\ t <= m
      BY <1>1, <3>1
    <3>3. PICK p \in 1 .. n : order[p] = t
      BY <1>7, <3>2, Zenon
    <3>4. order[p] <= m
      BY <3>2, <3>3, Zenon
    <3>5. Schedule(s)[p].it = s.timeline[t] /\ Schedule(s)[p].kind = "action"
      BY <1>5, <2>2, <3>3, <3>4, Zenon
    <3>6. p \in TryPlaces(s)
      BY <1>2, <3>1, <3>5, Zenon DEF TryPlaces
    <3>7. g[p] = t
      BY <3>3, <3>6, Zenon
    <3>8. QED
      BY <3>6, <3>7, Zenon
  <2> HIDE DEF g
  <2>7. QED
    BY <1>4, <2>4, <2>5, <2>6, SameSize, Zenon
<1>10. QED
  BY <1>4, <1>8, <1>9

-----------------------------------------------------------------------------
(* What a walk over the schedule has done.                                 *)

ChecksTo(sched, n) == {p \in 1 .. n : sched[p].kind = "expect"}
TriesTo(sched, n) == {p \in 1 .. n : sched[p].kind = "action" /\ sched[p].it.action # "note"}

\* Walking the first n entries of the schedule gave the results res and did many tries.
Done(sched, n, res, did) ==
    /\ n \in 0 .. Len(sched)
    /\ Len(res) = Cardinality(ChecksTo(sched, n))
    /\ \A p \in ChecksTo(sched, n) : res[Cardinality(ChecksTo(sched, p))].e = sched[p].it
    /\ did = Cardinality(TriesTo(sched, n))

LEMMA CountTo ==
    ASSUME NEW sched, NEW n \in Nat
    PROVE  /\ IsFiniteSet(ChecksTo(sched, n)) /\ Cardinality(ChecksTo(sched, n)) \in Nat
           /\ IsFiniteSet(TriesTo(sched, n)) /\ Cardinality(TriesTo(sched, n)) \in Nat
<1>1. IsFiniteSet(1 .. n)
  BY FS_Interval
<1>2. ChecksTo(sched, n) \in SUBSET (1 .. n) /\ TriesTo(sched, n) \in SUBSET (1 .. n)
  BY DEF ChecksTo, TriesTo
<1>3. QED
  BY <1>1, <1>2, FS_Subset, FS_CardinalityType

\* One entry more.
LEMMA CountNext ==
    ASSUME NEW sched, NEW n \in Nat
    PROVE  /\ Cardinality(ChecksTo(sched, n + 1)) =
                 Cardinality(ChecksTo(sched, n)) + (IF sched[n + 1].kind = "expect" THEN 1 ELSE 0)
           /\ Cardinality(TriesTo(sched, n + 1)) =
                 Cardinality(TriesTo(sched, n))
                 + (IF sched[n + 1].kind = "action" /\ sched[n + 1].it.action # "note" THEN 1 ELSE 0)
           /\ ChecksTo(sched, n + 1) =
                 ChecksTo(sched, n) \cup (IF sched[n + 1].kind = "expect" THEN {n + 1} ELSE {})
<1>1. /\ IsFiniteSet(ChecksTo(sched, n)) /\ Cardinality(ChecksTo(sched, n)) \in Nat
      /\ IsFiniteSet(TriesTo(sched, n)) /\ Cardinality(TriesTo(sched, n)) \in Nat
  BY CountTo
<1>2. 1 .. (n + 1) = (1 .. n) \cup {n + 1} /\ n + 1 \notin 1 .. n
  OBVIOUS
<1>3. n + 1 \notin ChecksTo(sched, n) /\ n + 1 \notin TriesTo(sched, n)
  BY <1>2, Zenon DEF ChecksTo, TriesTo
<1>4. ChecksTo(sched, n + 1) = ChecksTo(sched, n) \cup (IF sched[n + 1].kind = "expect" THEN {n + 1} ELSE {})
  BY <1>2, Zenon DEF ChecksTo
<1>5. TriesTo(sched, n + 1) = TriesTo(sched, n)
          \cup (IF sched[n + 1].kind = "action" /\ sched[n + 1].it.action # "note" THEN {n + 1} ELSE {})
  BY <1>2, Zenon DEF TriesTo
<1>6. /\ Cardinality(ChecksTo(sched, n) \cup {n + 1}) = Cardinality(ChecksTo(sched, n)) + 1
      /\ Cardinality(TriesTo(sched, n) \cup {n + 1}) = Cardinality(TriesTo(sched, n)) + 1
  BY <1>1, <1>3, FS_AddElement, Zenon
<1>7. /\ ChecksTo(sched, n) \cup {} = ChecksTo(sched, n) /\ TriesTo(sched, n) \cup {} = TriesTo(sched, n)
  OBVIOUS
<1>8. Cardinality(ChecksTo(sched, n + 1)) = Cardinality(ChecksTo(sched, n)) + (IF sched[n + 1].kind = "expect" THEN 1 ELSE 0)
  <2>1. CASE sched[n + 1].kind = "expect"
    BY <1>1, <1>4, <1>6, <2>1
  <2>2. CASE sched[n + 1].kind # "expect"
    <3>1. Cardinality(ChecksTo(sched, n + 1)) = Cardinality(ChecksTo(sched, n))
      BY <1>4, <1>7, <2>2, Zenon
    <3>2. QED
      BY <1>1, <2>2, <3>1
  <2>3. QED
    BY <2>1, <2>2
<1>9. Cardinality(TriesTo(sched, n + 1)) = Cardinality(TriesTo(sched, n))
          + (IF sched[n + 1].kind = "action" /\ sched[n + 1].it.action # "note" THEN 1 ELSE 0)
  <2>1. CASE sched[n + 1].kind = "action" /\ sched[n + 1].it.action # "note"
    BY <1>1, <1>5, <1>6, <2>1
  <2>2. CASE ~(sched[n + 1].kind = "action" /\ sched[n + 1].it.action # "note")
    <3>1. Cardinality(TriesTo(sched, n + 1)) = Cardinality(TriesTo(sched, n))
      BY <1>5, <1>7, <2>2, Zenon
    <3>2. QED
      BY <1>1, <2>2, <3>1
  <2>3. QED
    BY <2>1, <2>2
<1>10. QED
  BY <1>4, <1>8, <1>9

\* An expectation among the first n has had its turn.
LEMMA TurnTaken ==
    ASSUME NEW sched, NEW n \in Nat, NEW p \in ChecksTo(sched, n)
    PROVE  Cardinality(ChecksTo(sched, p)) \in 1 .. Cardinality(ChecksTo(sched, n))
<1>1. p \in Nat /\ p >= 1 /\ p <= n /\ sched[p].kind = "expect"
  BY DEF ChecksTo
<1>2. /\ IsFiniteSet(ChecksTo(sched, n)) /\ Cardinality(ChecksTo(sched, n)) \in Nat
      /\ IsFiniteSet(ChecksTo(sched, p)) /\ Cardinality(ChecksTo(sched, p)) \in Nat
  BY <1>1, CountTo
<1>3. ChecksTo(sched, p) \subseteq ChecksTo(sched, n) /\ p \in ChecksTo(sched, p)
  BY <1>1 DEF ChecksTo
<1>4. Cardinality(ChecksTo(sched, p)) <= Cardinality(ChecksTo(sched, n))
  BY <1>2, <1>3, FS_Subset
<1>5. Cardinality(ChecksTo(sched, p)) # 0
  BY <1>2, <1>3, FS_EmptySet
<1>6. QED
  BY <1>2, <1>4, <1>5

LEMMA DoneNothing ==
    ASSUME NEW sched, Len(sched) \in Nat
    PROVE  Done(sched, 0, <<>>, 0)
<1>1. ChecksTo(sched, 0) = {} /\ TriesTo(sched, 0) = {}
  BY DEF ChecksTo, TriesTo
<1>2. QED
  BY <1>1, FS_EmptySet DEF Done

LEMMA DoneAction ==
    ASSUME NEW sched, Len(sched) \in Nat, NEW n, n + 1 <= Len(sched), NEW res, NEW did, Done(sched, n, res, did),
           sched[n + 1].kind = "action"
    PROVE  Done(sched, n + 1, res, IF sched[n + 1].it.action = "note" THEN did ELSE did + 1)
<1>1. n \in Nat /\ n \in 0 .. Len(sched)
  BY DEF Done
<1>2. n + 1 \in 0 .. Len(sched)
  BY <1>1
<1>3. /\ Cardinality(ChecksTo(sched, n)) \in Nat /\ Cardinality(TriesTo(sched, n)) \in Nat
  BY <1>1, CountTo
<1>4. ChecksTo(sched, n + 1) = ChecksTo(sched, n)
  <2>1. ChecksTo(sched, n + 1) = ChecksTo(sched, n) \cup {}
    BY <1>1, CountNext
  <2>2. QED
    BY <2>1
<1>5. Cardinality(TriesTo(sched, n + 1)) = IF sched[n + 1].it.action = "note" THEN did ELSE did + 1
  <2>1. did = Cardinality(TriesTo(sched, n))
    BY DEF Done
  <2>2. Cardinality(TriesTo(sched, n + 1)) = did + (IF sched[n + 1].it.action # "note" THEN 1 ELSE 0)
    BY <1>1, <2>1, CountNext
  <2>3. QED
    BY <1>3, <2>1, <2>2
<1>6. QED
  BY <1>2, <1>4, <1>5 DEF Done

LEMMA DoneCheck ==
    ASSUME NEW sched, Len(sched) \in Nat, NEW n, n + 1 <= Len(sched), NEW res, IsList(res), NEW did,
           Done(sched, n, res, did), sched[n + 1].kind = "expect", NEW out, out.e = sched[n + 1].it
    PROVE  Done(sched, n + 1, Append(res, out), did)
<1>1. n \in Nat /\ n \in 0 .. Len(sched)
  BY DEF Done
<1>2. n + 1 \in 0 .. Len(sched)
  BY <1>1
<1>3. PICK c, t, len : c = Cardinality(ChecksTo(sched, n)) /\ t = Append(res, out) /\ len = Len(res)
  OBVIOUS
<1>4. c \in Nat /\ len = c /\ did = Cardinality(TriesTo(sched, n)) /\ Cardinality(TriesTo(sched, n)) \in Nat
  BY <1>1, <1>3, CountTo DEF Done
<1>5. /\ IsList(t) /\ DOMAIN t = 1 .. (len + 1) /\ t[len + 1] = out
      /\ \A i \in 1 .. len : t[i] = res[i]
  <2>1. /\ IsList(Append(res, out)) /\ DOMAIN Append(res, out) = 1 .. (Len(res) + 1)
        /\ Append(res, out)[Len(res) + 1] = out
        /\ \A i \in 1 .. Len(res) : Append(res, out)[i] = res[i]
    BY ListAppend
  <2>2. QED
    BY <1>3, <2>1, Zenon
<1>6. Len(t) = c + 1
  BY <1>4, <1>5, ListIs
<1>7. Cardinality(ChecksTo(sched, n + 1)) = c + 1 /\ ChecksTo(sched, n + 1) = ChecksTo(sched, n) \cup {n + 1}
  BY <1>1, <1>3, CountNext
<1>8. ASSUME NEW p \in ChecksTo(sched, n + 1) PROVE t[Cardinality(ChecksTo(sched, p))].e = sched[p].it
  <2>1. CASE p = n + 1
    BY <1>4, <1>5, <1>7, <2>1
  <2>2. CASE p \in ChecksTo(sched, n)
    <3>1. Cardinality(ChecksTo(sched, p)) \in 1 .. c
      BY <1>1, <1>3, <2>2, TurnTaken
    <3>2. res[Cardinality(ChecksTo(sched, p))].e = sched[p].it
      BY <2>2 DEF Done
    <3>3. QED
      BY <1>4, <1>5, <3>1, <3>2
  <2>3. QED
    BY <1>7, <2>1, <2>2
<1>9. did = Cardinality(TriesTo(sched, n + 1))
  <2>1. Cardinality(TriesTo(sched, n + 1)) = Cardinality(TriesTo(sched, n)) + 0
    BY <1>1, CountNext
  <2>2. QED
    BY <1>4, <2>1
<1>10. Done(sched, n + 1, t, did)
  BY <1>2, <1>6, <1>7, <1>8, <1>9 DEF Done
<1>11. QED
  BY <1>3, <1>10

-----------------------------------------------------------------------------
(* The walk: where the runner is in its schedule.                          *)

Early == {"load", "start", "track", "await_backend", "proxy", "await_proxy", "agents"}
Walking == {"walk", "poll", "nap", "hold"}
Killing == {"kill_term", "kill_wait", "report"}

Fields ==
    /\ elapsed \in 0 .. Grace + 1
    /\ fatal \in {None, "error", "interrupted"}
    /\ rc \in {None, 0, 1, 2, 130}
    /\ pc # "exit" => rc = None

\* The walk has come to some entry of the schedule, or --fail-fast broke it off.
Walked ==
    \E n \in 0 .. Len(Schedule(sc)) :
        /\ Done(Schedule(sc), n, results, tried)
        /\ \/ todo = SubSeq(Schedule(sc), n + 1, Len(Schedule(sc)))
           \/ todo = <<>> /\ \E i \in DOMAIN results : ~results[i].ok

Remainder ==
    \/ todo = <<>>
    \/ \E n \in DOMAIN Schedule(sc) : todo = SubSeq(Schedule(sc), n, Len(Schedule(sc)))

Progress ==
    /\ pc \in Early => results = <<>> /\ tried = 0 /\ todo = <<>>
    /\ pc \in Walking \/ (pc \in Killing /\ fatal = None) => Walked
    /\ pc = "hold" \/ (pc \in Killing /\ fatal = None) => todo = <<>>
    /\ pc \in {"poll", "nap"} => todo # <<>> /\ Head(todo).kind = "expect"

\* The inductive invariant of the walk.
WalkInv == Fields /\ Progress /\ Remainder /\ ReportSound

-----------------------------------------------------------------------------
(* The schedule of the scenario at hand.                                   *)

Tries == {p \in DOMAIN Schedule(sc) : Schedule(sc)[p].kind = "action" /\ Schedule(sc)[p].it.action # "note"}

LEMMA ScheduleAtHand ==
    ASSUME SilInv
    PROVE  /\ IsList(Schedule(sc)) /\ Len(Schedule(sc)) \in Nat
           /\ DOMAIN Schedule(sc) = 1 .. Len(Schedule(sc))
           /\ \A p, q \in DOMAIN Schedule(sc) :
                p < q /\ Schedule(sc)[p].kind = "expect" /\ Schedule(sc)[q].kind = "action"
                    => Schedule(sc)[q].at > Schedule(sc)[p].at
           /\ Cardinality(Checks) = Len(sc.expect) /\ Len(sc.expect) \in Nat
           /\ Cardinality(Tries) = Cardinality({i \in DOMAIN sc.timeline : sc.timeline[i].action # "note"})
<1>1. PICK s, m, l : s = sc /\ m = Len(sc.timeline) /\ l = Len(sc.expect)
  OBVIOUS
<1>2. Sizes(s, m, l)
  BY <1>1 DEF Sizes, SilInv, TypeOK
<1>3. m \in Nat /\ l \in Nat
  BY <1>2, SizesAre
<1>4. Sortable(Merged(s), m + l)
  BY <1>2, <1>3, MergedIs
<1>5. PICK order : Sorts(order, s, m + l)
  BY <1>4, ScheduleSorts
<1>6. /\ IsList(Schedule(s)) /\ Len(Schedule(s)) = m + l /\ DOMAIN Schedule(s) = 1 .. (m + l)
      /\ \A p, q \in 1 .. (m + l) :
           p < q /\ Schedule(s)[p].kind = "expect" /\ Schedule(s)[q].kind = "action"
               => Schedule(s)[q].at > Schedule(s)[p].at
  BY <1>2, <1>3, <1>5, ScheduleIs
<1>7. /\ Cardinality(CheckPlaces(s)) = l
      /\ Cardinality(TryPlaces(s)) = Cardinality(ToTry(s))
  BY <1>2, <1>3, <1>5, ScheduleCounts
<1>8. Checks = CheckPlaces(s) /\ Tries = TryPlaces(s)
  BY <1>1 DEF Checks, CheckPlaces, Tries, TryPlaces
<1>9. m + l \in Nat
  BY <1>3
<1>10. QED
  BY <1>1, <1>3, <1>6, <1>7, <1>8, <1>9, Zenon DEF ToTry

-----------------------------------------------------------------------------
(* Steps of the walk.                                                      *)

\* Before the walk begins.
LEMMA EarlyKept ==
    ASSUME SilInv, WalkInv, pc \in Early, UNCHANGED <<sc, todo, results, tried, elapsed, rc>>,
           (pc' \in Early /\ fatal' = fatal) \/ ToKill("error")
    PROVE  WalkInv'
<1>1. rc' = None /\ todo' = <<>>
  BY DEF WalkInv, Fields, Progress, Early
<1>2. ReportSound' /\ Remainder'
  BY <1>1, SilAssumption DEF ReportSound, Remainder
<1>3. Fields'
  BY <1>1 DEF WalkInv, Fields, ToKill
<1>4. Progress'
  <2>1. CASE pc' \in Early
    BY <2>1 DEF WalkInv, Progress, Early, Walking, Killing
  <2>2. CASE ToKill("error")
    BY <2>2, SilAssumption DEF ToKill, Progress, Early, Walking, Killing
  <2>3. QED
    BY <2>1, <2>2
<1>5. QED
  BY <1>2, <1>3, <1>4 DEF WalkInv

\* Once it has begun: what the walk has done so far stays done.
LEMMA WalkedKept ==
    ASSUME Walked, UNCHANGED <<sc, todo, results, tried>>
    PROVE  Walked'
BY DEF Walked

LEMMA RemainderKept ==
    ASSUME Remainder, UNCHANGED <<sc, todo>>
    PROVE  Remainder'
BY DEF Remainder

LEMMA ReportKept ==
    ASSUME ReportSound, UNCHANGED <<sc, results, tried, rc, fatal>>
    PROVE  ReportSound'
BY DEF ReportSound, Checks, Turn

LEMMA NotReported ==
    ASSUME rc' \in {None, 1, 2, 130}
    PROVE  ReportSound'
BY SilAssumption DEF ReportSound

\* The schedule is laid out.
LEMMA WalkBegins ==
    ASSUME SilInv, WalkInv, pc = "agents", pc' = "walk", todo' = Schedule(sc),
           UNCHANGED <<sc, results, tried, elapsed, rc, fatal>>
    PROVE  WalkInv'
<1>1. rc' = None /\ results = <<>> /\ tried = 0
  BY DEF WalkInv, Fields, Progress, Early
<1>2. PICK sched : sched = Schedule(sc)
  OBVIOUS
<1>3. IsList(sched) /\ Len(sched) \in Nat /\ DOMAIN sched = 1 .. Len(sched)
  BY <1>2, ScheduleAtHand
<1>4. sched = SubSeq(sched, 1, Len(sched))
  BY <1>3, SubSeqFull DEF IsList
<1>5. Walked'
  <2>1. Done(sched, 0, <<>>, 0)
    BY <1>3, DoneNothing
  <2>2. 0 \in 0 .. Len(sched) /\ 0 + 1 = 1
    BY <1>3
  <2>3. QED
    BY <1>1, <1>2, <1>4, <2>1, <2>2 DEF Walked
<1>6. Remainder'
  <2>1. CASE Len(sched) = 0
    <3>1. sched = <<>>
      BY <1>3, <2>1, EmptySeq DEF IsList
    <3>2. QED
      BY <1>2, <3>1 DEF Remainder
  <2>2. CASE Len(sched) # 0
    <3>1. 1 \in DOMAIN sched
      BY <1>3, <2>2
    <3>2. QED
      BY <1>2, <1>4, <3>1 DEF Remainder
  <2>3. QED
    BY <2>1, <2>2
<1>7. Fields' /\ Progress'
  BY <1>1, <1>5 DEF WalkInv, Fields, Progress, Early, Walking, Killing
<1>8. QED
  BY <1>1, <1>5, <1>6, <1>7, NotReported DEF WalkInv

\* The entry the walk has come to.
LEMMA AtEntry ==
    ASSUME SilInv, Walked, todo # <<>>
    PROVE  \E n \in 0 .. Len(Schedule(sc)) :
             /\ Done(Schedule(sc), n, results, tried)
             /\ todo = SubSeq(Schedule(sc), n + 1, Len(Schedule(sc)))
             /\ n + 1 \in DOMAIN Schedule(sc) /\ n + 1 <= Len(Schedule(sc))
             /\ Head(todo) = Schedule(sc)[n + 1]
             /\ Tail(todo) = SubSeq(Schedule(sc), n + 2, Len(Schedule(sc)))
<1>1. PICK sched, N : sched = Schedule(sc) /\ N = Len(sched)
  OBVIOUS
<1>2. IsList(sched) /\ N \in Nat /\ DOMAIN sched = 1 .. N
  BY <1>1, ScheduleAtHand
<1>3. PICK n \in 0 .. N : Done(sched, n, results, tried) /\ todo = SubSeq(sched, n + 1, N)
  BY <1>1 DEF Walked
<1>4. n + 1 \in 1 .. N
  <2>1. SUFFICES ASSUME n = N PROVE FALSE
    BY <1>2
  <2>2. SubSeq(sched, n + 1, N) = <<>>
    BY <1>2, <2>1, SubSeqEmpty
  <2>3. QED
    BY <1>3, <2>2
<1>5. /\ Head(SubSeq(sched, n + 1, N)) = sched[n + 1]
      /\ Tail(SubSeq(sched, n + 1, N)) = SubSeq(sched, n + 1 + 1, N)
  <2>1. N \in (n + 1) .. Len(sched) /\ n + 1 \in 1 .. Len(sched)
    BY <1>1, <1>2, <1>4
  <2>2. QED
    BY <1>2, <2>1, HeadTailOfSubSeq DEF IsList
<1>6. n + 1 + 1 = n + 2 /\ n + 1 <= N
  BY <1>2, <1>4
<1>7. QED
  BY <1>1, <1>2, <1>3, <1>4, <1>5, <1>6

\* What is left after one entry more is still a remainder of the schedule.
LEMMA TailIsRemainder ==
    ASSUME SilInv, Walked, todo # <<>>, todo' = Tail(todo), UNCHANGED sc
    PROVE  Remainder'
<1>1. PICK sched, N : sched = Schedule(sc) /\ N = Len(sched)
  OBVIOUS
<1>2. N \in Nat /\ DOMAIN sched = 1 .. N
  BY <1>1, ScheduleAtHand
<1>3. PICK n \in 0 .. N : n + 1 \in DOMAIN sched /\ Tail(todo) = SubSeq(sched, n + 2, N)
  BY <1>1, AtEntry
<1>4. CASE n + 2 <= N
  <2>1. n + 2 \in DOMAIN sched
    BY <1>2, <1>3, <1>4
  <2>2. QED
    BY <1>1, <1>3, <2>1 DEF Remainder
<1>5. CASE ~(n + 2 <= N)
  <2>1. SubSeq(sched, n + 2, N) = <<>>
    BY <1>2, <1>5, SubSeqEmpty
  <2>2. QED
    BY <1>3, <2>1 DEF Remainder
<1>6. QED
  BY <1>4, <1>5

LEMMA ActionWalked == ASSUME SilInv, WalkInv, RunAction PROVE WalkInv'
<1>1. /\ pc = "walk" /\ pc' = "walk" /\ todo # <<>> /\ Head(todo).kind = "action" /\ todo' = Tail(todo)
      /\ tried' = IF Head(todo).it.action = "note" THEN tried ELSE tried + 1
      /\ UNCHANGED <<sc, elapsed, results, fatal, rc>>
  BY DEF RunAction, envVars
<1>2. Walked /\ rc' = None
  BY <1>1 DEF WalkInv, Fields, Progress, Walking
<1>3. PICK sched, N : sched = Schedule(sc) /\ N = Len(sched)
  OBVIOUS
<1>4. N \in Nat
  BY <1>3, ScheduleAtHand
<1>5. PICK n \in 0 .. N : /\ Done(sched, n, results, tried) /\ n + 1 <= N
                          /\ Head(todo) = sched[n + 1] /\ Tail(todo) = SubSeq(sched, n + 2, N)
  BY <1>1, <1>2, <1>3, AtEntry
<1>6. Walked'
  <2>1. Done(sched, n + 1, results, tried')
    <3>1. PICK did : did = tried
      OBVIOUS
    <3>2. /\ Done(sched, n, results, did) /\ sched[n + 1].kind = "action" /\ Len(sched) \in Nat
          /\ n + 1 <= Len(sched) /\ tried' = IF sched[n + 1].it.action = "note" THEN did ELSE did + 1
      BY <1>1, <1>3, <1>4, <1>5, <3>1, Zenon
    <3>3. Done(sched, n + 1, results, IF sched[n + 1].it.action = "note" THEN did ELSE did + 1)
      BY <3>2, DoneAction
    <3>4. QED
      BY <3>2, <3>3, Zenon
  <2>2. n + 1 \in 0 .. N /\ n + 1 + 1 = n + 2
    BY <1>4, <1>5
  <2>3. QED
    BY <1>1, <1>3, <1>5, <2>1, <2>2 DEF Walked
<1>7. Remainder'
  BY <1>1, <1>2, TailIsRemainder
<1>8. Fields' /\ Progress'
  BY <1>1, <1>6 DEF WalkInv, Fields, Progress, Early, Walking, Killing
<1>9. QED
  BY <1>2, <1>6, <1>7, <1>8, NotReported DEF WalkInv

\* Steps between two entries, and the pauses of a poll.
LEMMA PauseWalked == ASSUME SilInv, WalkInv, StartCheck \/ Nap PROVE WalkInv'
<1>1. /\ pc \in {"walk", "nap"} /\ pc' = "poll" /\ UNCHANGED <<sc, todo, results, tried, fatal, rc>>
      /\ elapsed' = elapsed \/ elapsed' = 0
      /\ pc = "walk" => todo # <<>> /\ Head(todo).kind = "expect"
  BY DEF StartCheck, Nap, envVars, walkVars
<1>2. Walked /\ Remainder /\ rc' = None /\ todo # <<>> /\ Head(todo).kind = "expect"
  BY <1>1 DEF WalkInv, Fields, Progress, Walking
<1>3. Walked' /\ Remainder'
  BY <1>1, <1>2, WalkedKept, RemainderKept
<1>4. elapsed' \in 0 .. Grace + 1
  BY <1>1, SilAssumption DEF WalkInv, Fields
<1>5. Fields' /\ Progress'
  BY <1>1, <1>2, <1>3, <1>4 DEF WalkInv, Fields, Progress, Early, Walking, Killing
<1>6. QED
  BY <1>2, <1>3, <1>5, NotReported DEF WalkInv

LEMMA PollWalked ==
    ASSUME SilInv, WalkInv, NEW r, NEW t \in (elapsed + 1) .. (Grace + 1), Poll(r, t)
    PROVE  WalkInv'
<1>1. PICK e, ok, out : e = Head(todo).it /\ ok = EvalCheck(e, r) /\ out = Outcome(e, ok, r)
  OBVIOUS
<1>2. /\ pc = "poll" /\ elapsed' = t /\ UNCHANGED <<sc, tried, fatal, rc>>
      /\ \/ /\ results' = Append(results, out)
            /\ todo' = (IF ~ok /\ args.fail_fast THEN <<>> ELSE Tail(todo))
            /\ pc' = "walk"
         \/ pc' = "nap" /\ UNCHANGED <<results, todo>>
  BY <1>1 DEF Poll, envVars
<1>3. Walked /\ Remainder /\ rc' = None /\ todo # <<>> /\ Head(todo).kind = "expect"
  BY <1>2 DEF WalkInv, Fields, Progress, Walking
<1>4. elapsed' \in 0 .. Grace + 1
  BY <1>2, SilAssumption DEF WalkInv, Fields
<1>5. CASE pc' = "nap" /\ UNCHANGED <<results, todo>>
  <2>1. Walked' /\ Remainder'
    BY <1>2, <1>3, <1>5, WalkedKept, RemainderKept
  <2>2. Fields' /\ Progress'
    BY <1>2, <1>3, <1>4, <1>5, <2>1 DEF WalkInv, Fields, Progress, Early, Walking, Killing
  <2>3. QED
    BY <1>3, <2>1, <2>2, NotReported DEF WalkInv
<1>6. CASE /\ results' = Append(results, out)
           /\ todo' = (IF ~ok /\ args.fail_fast THEN <<>> ELSE Tail(todo))
           /\ pc' = "walk"
  <2>1. PICK sched, N : sched = Schedule(sc) /\ N = Len(sched)
    OBVIOUS
  <2>2. N \in Nat /\ IsList(results)
    BY <2>1, ScheduleAtHand DEF SilInv, TypeOK
  <2>3. PICK n \in 0 .. N : /\ Done(sched, n, results, tried) /\ n + 1 <= N
                            /\ Head(todo) = sched[n + 1] /\ Tail(todo) = SubSeq(sched, n + 2, N)
    BY <1>3, <2>1, AtEntry
  <2>4. Done(sched, n + 1, results', tried')
    <3>1. out.e = sched[n + 1].it /\ sched[n + 1].kind = "expect"
      BY <1>1, <1>3, <2>3 DEF Outcome
    <3>2. QED
      BY <1>2, <1>6, <2>1, <2>2, <2>3, <3>1, DoneCheck
  <2>5. n + 1 \in 0 .. N /\ n + 1 + 1 = n + 2
    BY <2>2, <2>3
  <2>6. CASE ~ok /\ args.fail_fast
    <3>1. todo' = <<>>
      BY <1>6, <2>6
    <3>2. \E i \in DOMAIN results' : ~results'[i].ok
      <4>1. /\ DOMAIN Append(results, out) = 1 .. (Len(results) + 1) /\ Len(results) \in Nat
            /\ Append(results, out)[Len(results) + 1] = out
        BY <2>2, ListAppend, ListIs
      <4>2. Len(results) + 1 \in 1 .. (Len(results) + 1)
        BY <4>1
      <4>3. ~out.ok
        BY <1>1, <2>6 DEF Outcome
      <4>4. QED
        BY <1>6, <4>1, <4>2, <4>3, Zenon
    <3>3. Walked' /\ Remainder'
      BY <1>2, <2>1, <2>4, <2>5, <3>1, <3>2 DEF Walked, Remainder
    <3>4. QED
      BY <1>2, <1>3, <1>4, <1>6, <3>3, NotReported DEF WalkInv, Fields, Progress, Early, Walking, Killing
  <2>7. CASE ~(~ok /\ args.fail_fast)
    <3>1. todo' = Tail(todo)
      BY <1>6, <2>7
    <3>2. Walked'
      BY <1>2, <2>1, <2>3, <2>4, <2>5, <3>1 DEF Walked
    <3>3. Remainder'
      BY <1>2, <1>3, <3>1, TailIsRemainder
    <3>4. QED
      BY <1>2, <1>3, <1>4, <1>6, <3>2, <3>3, NotReported DEF WalkInv, Fields, Progress, Early, Walking, Killing
  <2>8. QED
    BY <2>6, <2>7
<1>7. QED
  BY <1>2, <1>5, <1>6

\* The end of the schedule, and every step of the clean-up before the report.
LEMMA EndWalked == ASSUME SilInv, WalkInv, EndOfSchedule PROVE WalkInv'
<1>1. /\ pc = "walk" /\ todo = <<>> /\ UNCHANGED <<sc, todo, results, tried, elapsed, rc>>
      /\ pc' \in {"hold", "kill_term"} /\ fatal' \in {fatal, None}
  BY DEF EndOfSchedule, ToKill, envVars, walkVars
<1>2. Walked /\ Remainder /\ rc' = None
  BY <1>1 DEF WalkInv, Fields, Progress, Walking
<1>3. Walked' /\ Remainder'
  BY <1>1, <1>2, WalkedKept, RemainderKept
<1>4. Fields' /\ Progress'
  BY <1>1, <1>2, <1>3 DEF WalkInv, Fields, Progress, Early, Walking, Killing
<1>5. QED
  BY <1>2, <1>3, <1>4, NotReported DEF WalkInv

LEMMA KillingWalked ==
    ASSUME WalkInv, pc \in Killing, pc' \in Killing, UNCHANGED <<sc, todo, results, tried, elapsed, rc, fatal>>
    PROVE  WalkInv'
<1>1. Remainder' /\ ReportSound'
  BY RemainderKept, ReportKept DEF WalkInv
<1>2. fatal = None => Walked'
  BY WalkedKept DEF WalkInv, Progress
<1>3. Fields' /\ Progress'
  BY <1>2 DEF WalkInv, Fields, Progress, Early, Walking, Killing
<1>4. QED
  BY <1>1, <1>3 DEF WalkInv

\* A signal or an exception ends the walk: what it has done so far is left as it is.
LEMMA InterruptWalked == ASSUME SilInv, WalkInv, Interrupt PROVE WalkInv'
<1>1. /\ pc \notin {"load", "exit"} \cup Killing /\ pc' = "kill_term"
      /\ fatal' = (IF pc = "hold" THEN None ELSE "interrupted")
      /\ UNCHANGED <<sc, todo, results, tried, elapsed, rc>>
  BY DEF Interrupt, ToKill, Killing, walkVars
<1>2. rc' = None /\ Remainder'
  BY <1>1, RemainderKept DEF WalkInv, Fields
<1>3. pc = "hold" => Walked' /\ todo' = <<>>
  BY <1>1, WalkedKept DEF WalkInv, Progress, Walking
<1>4. fatal' = None => pc = "hold"
  BY <1>1, SilAssumption
<1>5. Fields' /\ Progress'
  BY <1>1, <1>2, <1>3, <1>4 DEF WalkInv, Fields, Progress, Early, Walking, Killing
<1>6. QED
  BY <1>2, <1>5, NotReported DEF WalkInv

LEMMA ExitWalked ==
    ASSUME WalkInv, pc' = "exit", rc' \in {1, 2, 130}, UNCHANGED <<sc, todo, elapsed, fatal>>
    PROVE  WalkInv'
<1>1. Remainder' /\ ReportSound'
  BY RemainderKept, NotReported DEF WalkInv
<1>2. Fields' /\ Progress'
  BY DEF WalkInv, Fields, Progress, Early, Walking, Killing
<1>3. QED
  BY <1>1, <1>2 DEF WalkInv

LEMMA WalkQuiet ==
    ASSUME WalkInv, UNCHANGED <<sc, todo, results, tried, elapsed, rc, fatal, pc>>
    PROVE  WalkInv'
<1>1. Remainder' /\ ReportSound'
  BY RemainderKept, ReportKept DEF WalkInv
<1>2. Walked => Walked'
  BY WalkedKept
<1>3. Fields' /\ Progress'
  BY <1>2 DEF WalkInv, Fields, Progress
<1>4. QED
  BY <1>1, <1>3 DEF WalkInv

\* A report that counts as many passes as the scenario has expectations has seen it all.
LEMMA ReportIsSound ==
    ASSUME SilInv, Walked, todo = <<>>, Passed = Len(sc.expect)
    PROVE  /\ Len(results) = Len(sc.expect)
           /\ \A p \in Checks : results[Turn(p)].e = Schedule(sc)[p].it
           /\ \A i \in DOMAIN results : results[i].ok
           /\ tried = Cardinality({i \in DOMAIN sc.timeline : sc.timeline[i].action # "note"})
<1>1. PICK sched, N, res : sched = Schedule(sc) /\ N = Len(sched) /\ res = results
  OBVIOUS
<1>2. /\ IsList(sched) /\ N \in Nat /\ DOMAIN sched = 1 .. N /\ Len(sc.expect) \in Nat
      /\ IsList(res) /\ Len(res) \in Nat /\ DOMAIN res = 1 .. Len(res)
  BY <1>1, ScheduleAtHand, ListIs DEF SilInv, TypeOK
<1>3. /\ ChecksTo(sched, N) = Checks /\ TriesTo(sched, N) = Tries
      /\ \A p \in Checks : ChecksTo(sched, p) = {q \in Checks : q <= p}
  <2>1. Checks = {p \in 1 .. N : sched[p].kind = "expect"}
    BY <1>1, <1>2 DEF Checks
  <2>2. Tries = {p \in 1 .. N : sched[p].kind = "action" /\ sched[p].it.action # "note"}
    BY <1>1, <1>2 DEF Tries
  <2>3. ASSUME NEW p \in Checks PROVE ChecksTo(sched, p) = {q \in Checks : q <= p}
    <3>1. 1 .. p = {q \in 1 .. N : q <= p}
      BY <1>2, <2>1
    <3>2. QED
      BY <2>1, <3>1, Zenon DEF ChecksTo
  <2>4. QED
    BY <2>1, <2>2, <2>3 DEF ChecksTo, TriesTo
<1>4. PICK n \in 0 .. N :
        /\ Done(sched, n, res, tried)
        /\ todo = SubSeq(sched, n + 1, N) \/ \E i \in DOMAIN res : ~res[i].ok
  BY <1>1 DEF Walked
<1> DEFINE good == {i \in DOMAIN res : res[i].ok}
<1>5. Cardinality(good) <= Len(res) /\ (Cardinality(good) = Len(res) => good = DOMAIN res)
  <2>1. PICK len : len = Len(res)
    OBVIOUS
  <2>2. len \in Nat /\ DOMAIN res = 1 .. len
    BY <1>2, <2>1, Zenon
  <2>3. IsFiniteSet(1 .. len) /\ Cardinality(1 .. len) = len
    BY <2>2, FS_Interval
  <2>4. good \in SUBSET (1 .. len)
    BY <2>2
  <2> HIDE DEF good
  <2>5. Cardinality(good) <= len /\ (Cardinality(good) = len => good = 1 .. len)
    BY <2>3, <2>4, FS_Subset
  <2>6. QED
    BY <2>1, <2>2, <2>5, Zenon
<1>6. Len(res) <= Cardinality(Checks)
  <2>1. ChecksTo(sched, n) \subseteq Checks /\ IsFiniteSet(Checks)
    <3>1. ChecksTo(sched, n) \subseteq ChecksTo(sched, N)
      BY <1>2 DEF ChecksTo
    <3>2. QED
      BY <1>2, <1>3, <3>1, CountTo
  <2>2. Cardinality(ChecksTo(sched, n)) <= Cardinality(Checks)
    BY <2>1, FS_Subset
  <2>3. QED
    BY <1>4, <2>2 DEF Done
<1>7. Cardinality(good) = Len(sc.expect) /\ Cardinality(Checks) = Len(sc.expect)
  BY <1>1, ScheduleAtHand DEF Passed
<1>8. Len(res) = Len(sc.expect) /\ good = DOMAIN res
  <2> HIDE DEF good
  <2>1. QED
    BY <1>2, <1>5, <1>6, <1>7
<1>9. \A i \in DOMAIN res : res[i].ok
  BY <1>8
<1>10. n = N
  <2>1. SUFFICES ASSUME n < N PROVE FALSE
    BY <1>2
  <2>2. SubSeq(sched, n + 1, N) = <<>>
    BY <1>4, <1>9
  <2>3. Len(SubSeq(sched, n + 1, N)) = N - (n + 1) + 1
    <3>1. n + 1 \in 1 .. N /\ N \in Int /\ n + 1 <= N
      BY <1>2, <2>1
    <3>2. \A i \in (n + 1) .. N : sched[i] \in {sched[j] : j \in DOMAIN sched}
      BY <1>2
    <3>3. QED
      BY <3>1, <3>2, SubSeqProperties
  <2>4. N - (n + 1) + 1 # 0
    BY <1>2, <2>1
  <2>5. QED
    BY <2>2, <2>3, <2>4, EmptySeq
<1>11. \A p \in Checks : res[Turn(p)].e = sched[p].it
  BY <1>3, <1>4, <1>10 DEF Done, Turn
<1>12. tried = Cardinality(Tries)
  BY <1>3, <1>4, <1>10 DEF Done
<1>13. QED
  BY <1>1, <1>8, <1>9, <1>11, <1>12, ScheduleAtHand

LEMMA ReportWalked == ASSUME SilInv, WalkInv, Report PROVE WalkInv'
<1>1. /\ pc = "report" /\ pc' = "exit" /\ rc' = (IF ReportOk THEN 0 ELSE 1)
      /\ UNCHANGED <<sc, todo, elapsed, fatal, results, tried>>
  BY DEF Report, envVars, walkVars
<1>2. CASE ReportOk
  <2>1. fatal = None /\ Walked /\ todo = <<>> /\ Passed = Len(sc.expect)
    BY <1>1, <1>2 DEF ReportOk, WalkInv, Progress, Killing
  <2>2. /\ Len(results) = Len(sc.expect)
        /\ \A p \in Checks : results[Turn(p)].e = Schedule(sc)[p].it
        /\ \A i \in DOMAIN results : results[i].ok
        /\ tried = Cardinality({i \in DOMAIN sc.timeline : sc.timeline[i].action # "note"})
    BY <2>1, ReportIsSound
  <2>3. Checks' = Checks /\ \A p : Turn(p)' = Turn(p)
    BY <1>1 DEF Checks, Turn
  <2>4. ReportSound'
    BY <1>1, <2>1, <2>2, <2>3 DEF ReportSound
  <2>5. Remainder'
    BY <1>1, RemainderKept DEF WalkInv
  <2>6. Fields' /\ Progress'
    BY <1>1, <1>2 DEF WalkInv, Fields, Progress, Early, Walking, Killing
  <2>7. QED
    BY <2>4, <2>5, <2>6 DEF WalkInv
<1>3. CASE ~ReportOk
  BY <1>1, <1>3, ExitWalked
<1>4. QED
  BY <1>2, <1>3

\* Starting up: the walk has not begun, or begins.
LEMMA StartUpWalked ==
    ASSUME SilInv, WalkInv,
           Load \/ StartBackend \/ UseBackend \/ Track \/ AwaitBackend \/ StartProxy \/ AwaitProxy \/ SpawnAgents
    PROVE  WalkInv'
<1>1. pc \in Early
  BY DEF Load, StartBackend, UseBackend, Track, AwaitBackend, StartProxy, AwaitProxy, SpawnAgents, Early
<1>2. CASE Load
  <2>1. /\ UNCHANGED <<sc, todo, results, tried, elapsed, fatal>>
        /\ (pc' = "start" /\ rc' = rc) \/ (pc' = "exit" /\ rc' = 2)
    BY <1>2 DEF Load, envVars, walkVars
  <2>2. CASE pc' = "start" /\ rc' = rc
    <3>1. pc' \in Early
      BY <2>2 DEF Early
    <3>2. QED
      BY <1>1, <2>1, <2>2, <3>1, EarlyKept
  <2>3. CASE pc' = "exit" /\ rc' = 2
    BY <2>1, <2>3, ExitWalked
  <2>4. QED
    BY <2>1, <2>2, <2>3
<1>3. CASE SpawnAgents /\ pc' = "walk" /\ todo' = Schedule(sc)
           /\ UNCHANGED <<envVars, procVars, elapsed, results, tried, stale, fatal, k, rc>>
  <2>1. pc = "agents" /\ UNCHANGED <<sc, results, tried, elapsed, rc, fatal>>
    BY <1>3 DEF SpawnAgents, envVars
  <2>2. QED
    BY <1>3, <2>1, WalkBegins
<1>4. CASE Raise
  <2>1. ToKill("error") /\ UNCHANGED <<sc, todo, results, tried, elapsed, rc>>
    BY <1>4 DEF Raise, envVars, walkVars
  <2>2. QED
    BY <1>1, <2>1, EarlyKept
<1>5. ASSUME NEW n, Popen(n) PROVE WalkInv'
  <2>1. /\ UNCHANGED <<sc, todo, results, tried, elapsed, rc>>
        /\ (pc' = "track" /\ fatal' = fatal) \/ ToKill("error")
    BY <1>5 DEF Popen, envVars, walkVars
  <2>2. (pc' \in Early /\ fatal' = fatal) \/ ToKill("error")
    BY <2>1 DEF Early
  <2>3. QED
    BY <1>1, <2>1, <2>2, EarlyKept
<1>6. CASE pc' \in Early /\ UNCHANGED <<envVars, walkVars, fatal, rc>>
  <2>1. UNCHANGED <<sc, todo, results, tried, elapsed, rc>>
    BY <1>6 DEF envVars, walkVars
  <2>2. QED
    BY <1>1, <1>6, <2>1, EarlyKept
<1>7. CASE StartBackend
  BY <1>4, <1>5, <1>7 DEF StartBackend
<1>8. CASE UseBackend \/ AwaitBackend \/ AwaitProxy \/ Track
  BY <1>4, <1>6, <1>8 DEF UseBackend, AwaitBackend, AwaitProxy, Track, Early
<1>9. CASE StartProxy
  BY <1>5, <1>6, <1>9 DEF StartProxy, Early
<1>10. CASE SpawnAgents
  BY <1>3, <1>4, <1>5, <1>10 DEF SpawnAgents
<1>11. QED
  BY <1>2, <1>7, <1>8, <1>9, <1>10

LEMMA WalkKept == SilInv /\ WalkInv /\ [Next]_vars => WalkInv'
<1> SUFFICES ASSUME SilInv, WalkInv, [Next]_vars PROVE WalkInv'
  OBVIOUS
<1>1. CASE Load \/ StartBackend \/ UseBackend \/ Track \/ AwaitBackend \/ StartProxy \/ AwaitProxy \/ SpawnAgents
  BY <1>1, StartUpWalked
<1>2. CASE RunAction
  BY <1>2, ActionWalked
<1>3. CASE StartCheck \/ Nap
  BY <1>3, PauseWalked
<1>4. CASE EndOfSchedule
  BY <1>4, EndWalked
<1>5. ASSUME NEW r, NEW t \in (elapsed + 1) .. (Grace + 1), Poll(r, t) PROVE WalkInv'
  BY <1>5, PollWalked
<1>6. CASE KillTerm \/ KillWait
  <2>1. pc \in Killing /\ pc' \in Killing /\ UNCHANGED <<sc, todo, results, tried, elapsed, rc, fatal>>
    BY <1>6 DEF KillTerm, KillWait, Killing, envVars, walkVars
  <2>2. QED
    BY <2>1, KillingWalked
<1>7. CASE Report
  BY <1>7, ReportWalked
<1>8. CASE Interrupt
  BY <1>8, InterruptWalked
<1>9. CASE InterruptCleanup
  <2>1. pc' = "exit" /\ rc' = 130 /\ UNCHANGED <<sc, todo, elapsed, fatal>>
    BY <1>9 DEF InterruptCleanup, walkVars
  <2>2. QED
    BY <2>1, ExitWalked
<1>10. CASE (\E n \in Names : ChildExits(n)) \/ UNCHANGED vars
  <2>1. UNCHANGED <<sc, todo, results, tried, elapsed, rc, fatal, pc>>
    BY <1>10 DEF ChildExits, vars, envVars, procVars, walkVars
  <2>2. QED
    BY <2>1, WalkQuiet
<1>11. QED
  BY <1>1, <1>2, <1>3, <1>4, <1>5, <1>6, <1>7, <1>8, <1>9, <1>10 DEF Next, RunnerStep

LEMMA WalkStart == Init => WalkInv
<1> SUFFICES ASSUME Init PROVE WalkInv
  OBVIOUS
<1>1. /\ pc = "load" /\ rc = None /\ fatal = None /\ elapsed = 0
      /\ results = <<>> /\ tried = 0 /\ todo = <<>>
  BY DEF Init
<1>2. Fields
  BY <1>1, SilAssumption DEF Fields
<1>3. Progress /\ Remainder
  BY <1>1 DEF Progress, Remainder, Early, Walking, Killing
<1>4. ReportSound
  BY <1>1, SilAssumption DEF ReportSound
<1>5. QED
  BY <1>2, <1>3, <1>4 DEF WalkInv

\* The invariant of the walk holds wherever signals, failures and replies lead it.
THEOREM WalkInvariant == Spec => []WalkInv
<1>1. QED
  BY SilInvariant, WalkStart, WalkKept, PTL DEF Spec

\* Exit status 0 means that nothing fatal happened, every action was tried and every
\* expectation was evaluated in the order of the schedule and passed (the report of
\* Runner.run), for every scenario, interruption and --fail-fast.
THEOREM ReportIsTruthful == Spec => []ReportSound
<1>1. WalkInv => ReportSound
  BY DEF WalkInv
<1>2. QED
  BY <1>1, WalkInvariant, PTL

-----------------------------------------------------------------------------
(* The children: started once, in order, and known by place.               *)

\* A child the runner knows, or has just started, is one it started before.
Unique ==
    /\ IsInjective(children)
    /\ \A n \in Names : Known(n) => proc[n] # "none"
    /\ born \in Names \cup {None}
    /\ pc = "track" => ~Known(born) /\ proc[born] # "none"

\* The backend is started first, then the proxy.
Unborn ==
    /\ pc \in {"load", "start"} => proc["backend"] = "none"
    /\ pc \in {"load", "start", "await_backend", "proxy"} \/ (pc = "track" /\ born = "backend")
           => proc["lossy_proxy"] = "none"

Started == pc \in Walking => \A i \in DOMAIN sc.devices : proc[sc.devices[i].id] # "none"

Indexed ==
    /\ pc = "kill_term" => k \in 0 .. Len(children)
    /\ pc = "kill_wait" => k \in 1 .. (Len(children) + 1)

Validated == pc \notin {"load", "exit"} => ValidScenario(sc)

\* The inductive invariant of the children.
KidsInv == Unique /\ Unborn /\ Started /\ Indexed /\ Validated

\* The runner moves on and the children stay as they are.
LEMMA KidsMove ==
    ASSUME SilInv, KidsInv, UNCHANGED <<sc, proc, children, born>>,
           \/ pc' = "kill_term" /\ k' = Len(children) /\ pc \notin {"load", "exit"}
           \/ pc' = "exit"
           \/ pc' \in Walking /\ pc \in Walking
           \/ pc = "load" /\ pc' = "start" /\ ValidScenario(sc)
           \/ pc' = "proxy" /\ pc \in {"start", "await_backend"}
           \/ pc' = "agents" /\ pc \in {"proxy", "await_proxy"}
           \/ pc = "agents" /\ pc' = "walk" /\ NotStarted = {}
    PROVE  KidsInv'
<1>1. Unique'
  BY DEF KidsInv, Unique, Known, Walking
<1>2. Unborn'
  BY DEF KidsInv, Unborn, Walking
<1>3. Started'
  BY DEF KidsInv, Started, Walking, NotStarted
<1>4. Indexed'
  <2>1. Len(children) \in Nat
    BY DEF SilInv, TypeOK
  <2>2. QED
    BY <2>1 DEF Indexed, Walking
<1>5. Validated'
  BY DEF KidsInv, Validated, Walking
<1>6. QED
  BY <1>1, <1>2, <1>3, <1>4, <1>5 DEF KidsInv

\* Children are asked to end, or end: none of them becomes unborn.
LEMMA KidsEnd ==
    ASSUME SilInv, KidsInv, UNCHANGED <<sc, children, born>>,
           \A n \in Names : proc'[n] = "none" <=> proc[n] = "none",
           pc' = pc \/ (pc \in Killing /\ pc' \in Killing), Indexed'
    PROVE  KidsInv'
<1>1. Unique'
  <2>1. pc = "track" => born \in Names
    BY DEF SilInv, TypeOK
  <2>2. QED
    BY <2>1 DEF KidsInv, Unique, Known, Killing
<1>2. Unborn'
  BY DEF KidsInv, Unborn, Killing, Names
<1>3. Started'
  <2>1. \A i \in DOMAIN sc.devices : sc.devices[i].id \in Names
    BY SilAssumption DEF SilInv, TypeOK, Names, Range
  <2>2. QED
    BY <2>1 DEF KidsInv, Started, Killing, Walking
<1>4. Validated'
  BY DEF KidsInv, Validated, Killing
<1>5. QED
  BY <1>1, <1>2, <1>3, <1>4 DEF KidsInv

\* Popen of a process that was not started before.
LEMMA KidsPopen ==
    ASSUME SilInv, KidsInv, NEW n \in Names, Popen(n), proc[n] = "none", pc \in Early \ {"load"},
           n = "backend" => proc["lossy_proxy"] = "none"
    PROVE  KidsInv'
<1>1. UNCHANGED <<sc, children>>
  BY DEF Popen, envVars
<1>2. CASE ToKill("error") /\ UNCHANGED <<proc, born>>
  <2>1. pc' = "kill_term" /\ k' = Len(children)
    BY <1>2 DEF ToKill
  <2>2. QED
    BY <1>1, <1>2, <2>1, KidsMove DEF Early
<1>3. CASE proc' = [proc EXCEPT ![n] = "up"] /\ born' = n /\ pc' = "track" /\ UNCHANGED <<fatal, k>>
  <2>1. \A x \in Names : proc'[x] = IF x = n THEN "up" ELSE proc[x]
    BY <1>3 DEF SilInv, TypeOK
  <2>2. ~Known(n)
    BY DEF KidsInv, Unique
  <2>3. \A x : Known(x)' <=> Known(x)
    BY <1>1 DEF Known
  <2>4. Unique'
    <3>1. IsInjective(children')
      BY <1>1 DEF KidsInv, Unique
    <3>2. \A x \in Names : Known(x) => proc'[x] # "none"
      BY <2>1 DEF KidsInv, Unique
    <3>3. ~Known(born') /\ proc'[born'] # "none"
      BY <1>3, <2>1, <2>2
    <3>4. QED
      BY <1>1, <1>3, <2>3, <3>1, <3>2, <3>3 DEF Unique, Known
  <2>5. Unborn'
    BY <1>3, <2>1 DEF Unborn, Names
  <2>6. Started' /\ Indexed' /\ Validated'
    BY <1>1, <1>3 DEF KidsInv, Started, Indexed, Validated, Walking, Early
  <2>7. QED
    BY <2>4, <2>5, <2>6 DEF KidsInv
<1>4. QED
  BY <1>2, <1>3 DEF Popen

\* self.children.append
LEMMA KidsTrack == ASSUME SilInv, KidsInv, Track PROVE KidsInv'
<1>1. /\ pc = "track" /\ children' = Append(children, born) /\ born' = None /\ UNCHANGED <<sc, proc, k>>
      /\ pc' \in {"await_backend", "await_proxy", "agents"} /\ (pc' = "await_backend" => born = "backend")
  BY DEF Track, envVars
<1>2. born \in Names /\ children \in Seq(Names) /\ ~Known(born) /\ proc[born] # "none"
  BY <1>1 DEF SilInv, TypeOK, KidsInv, Unique
<1>3. PICK c, b, len : c = children /\ b = born /\ len = Len(children)
  OBVIOUS
<1>4. /\ len \in Nat /\ DOMAIN c = 1 .. len /\ DOMAIN children' = 1 .. (len + 1)
      /\ children'[len + 1] = b /\ \A i \in 1 .. len : children'[i] = c[i]
  BY <1>1, <1>2, <1>3, AppendProperties, LenProperties
<1>5. IsInjective(children')
  <2>1. \A i \in 1 .. len : c[i] # b
    BY <1>2, <1>3, <1>4 DEF Known
  <2>2. \A i, j \in 1 .. len : c[i] = c[j] => i = j
    BY <1>3, <1>4 DEF KidsInv, Unique, IsInjective
  <2>3. ASSUME NEW i \in 1 .. (len + 1), NEW j \in 1 .. (len + 1), children'[i] = children'[j] PROVE i = j
    <3>1. (i \in 1 .. len \/ i = len + 1) /\ (j \in 1 .. len \/ j = len + 1)
      BY <1>4
    <3>2. QED
      BY <1>4, <2>1, <2>2, <2>3, <3>1
  <2>4. QED
    BY <1>4, <2>3 DEF IsInjective
<1>6. \A n \in Names : Known(n)' => proc'[n] # "none"
  <2>1. \A n : Known(n)' => Known(n) \/ n = born
    <3>1. \A i \in 1 .. (len + 1) : i \in 1 .. len \/ i = len + 1
      BY <1>4
    <3>2. QED
      BY <1>3, <1>4, <3>1 DEF Known
  <2>2. QED
    BY <1>1, <1>2, <2>1 DEF KidsInv, Unique
<1>7. Unique' /\ Unborn' /\ Started' /\ Indexed' /\ Validated'
  BY <1>1, <1>5, <1>6 DEF KidsInv, Unique, Unborn, Started, Indexed, Validated, Walking
<1>8. QED
  BY <1>7 DEF KidsInv

LEMMA KidsRaise == ASSUME SilInv, KidsInv, Raise, pc \notin {"load", "exit"} PROVE KidsInv'
<1>1. pc' = "kill_term" /\ k' = Len(children) /\ UNCHANGED <<sc, proc, children, born>>
  BY DEF Raise, ToKill, envVars, procVars
<1>2. QED
  BY <1>1, KidsMove

LEMMA KidsStartUp ==
    ASSUME SilInv, KidsInv,
           Load \/ StartBackend \/ UseBackend \/ AwaitBackend \/ StartProxy \/ AwaitProxy \/ SpawnAgents
    PROVE  KidsInv'
<1>1. pc \in Early
  BY DEF Load, StartBackend, UseBackend, AwaitBackend, StartProxy, AwaitProxy, SpawnAgents, Early
<1>2. CASE Load
  BY <1>2, KidsMove DEF Load, envVars, procVars
<1>3. CASE UseBackend \/ AwaitBackend \/ AwaitProxy
  <2>1. CASE Raise
    BY <1>3, <2>1, KidsRaise DEF UseBackend, AwaitBackend, AwaitProxy
  <2>2. CASE ~Raise
    <3>1. /\ UNCHANGED <<sc, proc, children, born>>
          /\ \/ pc' = "proxy" /\ pc \in {"start", "await_backend"}
             \/ pc' = "agents" /\ pc \in {"proxy", "await_proxy"}
      BY <1>3, <2>2 DEF UseBackend, AwaitBackend, AwaitProxy, envVars, procVars
    <3>2. QED
      BY <3>1, KidsMove
  <2>3. QED
    BY <2>1, <2>2
<1>4. CASE StartBackend
  <2>1. pc = "start" /\ (Raise \/ Popen("backend"))
    BY <1>4 DEF StartBackend
  <2>2. "backend" \in Names /\ proc["backend"] = "none" /\ proc["lossy_proxy"] = "none"
    BY <2>1 DEF Names, KidsInv, Unborn
  <2>3. QED
    BY <2>1, <2>2, KidsRaise, KidsPopen DEF Early
<1>5. CASE StartProxy
  <2>1. /\ pc = "proxy"
        /\ Popen("lossy_proxy") \/ (pc' = "agents" /\ UNCHANGED <<sc, proc, children, born>>)
    BY <1>5 DEF StartProxy, envVars, procVars
  <2>2. "lossy_proxy" \in Names /\ proc["lossy_proxy"] = "none"
    BY <2>1 DEF Names, KidsInv, Unborn
  <2>3. CASE Popen("lossy_proxy")
    BY <2>1, <2>2, <2>3, KidsPopen DEF Early
  <2>4. CASE pc' = "agents" /\ UNCHANGED <<sc, proc, children, born>>
    BY <2>1, <2>4, KidsMove
  <2>5. QED
    BY <2>1, <2>3, <2>4
<1>6. CASE SpawnAgents
  <2>1. pc = "agents"
    BY <1>6 DEF SpawnAgents
  <2>2. CASE Raise
    BY <2>1, <2>2, KidsRaise
  <2>3. ASSUME NEW i \in NotStarted, Popen(sc.devices[i].id) PROVE KidsInv'
    <3>1. sc.devices[i].id \in Devices
      BY SilAssumption DEF SilInv, TypeOK, NotStarted, Range
    <3>2. sc.devices[i].id \in Names /\ sc.devices[i].id # "backend"
      BY <3>1, SilAssumption DEF Names
    <3>3. proc[sc.devices[i].id] = "none"
      BY DEF NotStarted
    <3>4. QED
      BY <2>1, <2>3, <3>2, <3>3, KidsPopen DEF Early
  <2>4. CASE pc' = "walk" /\ NotStarted = {} /\ UNCHANGED <<sc, proc, children, born>>
    BY <2>1, <2>4, KidsMove
  <2>5. QED
    BY <1>6, <2>2, <2>3, <2>4 DEF SpawnAgents, envVars, procVars
<1>7. QED
  BY <1>2, <1>3, <1>4, <1>5, <1>6

LEMMA KidsKill == ASSUME SilInv, KidsInv, KillTerm \/ KillWait PROVE KidsInv'
<1>1. UNCHANGED <<sc, born>> /\ proc \in [Names -> States] /\ children \in Seq(Names) /\ k \in Int
  BY DEF KillTerm, KillWait, envVars, SilInv, TypeOK
<1>2. Len(children) \in Nat /\ DOMAIN children = 1 .. Len(children) /\ \A i \in 1 .. Len(children) : children[i] \in Names
  BY <1>1, LenProperties, ElementOfSeq
<1>3. CASE KillTerm
  <2>1. /\ pc = "kill_term" /\ pc' \in {"kill_term", "kill_wait"} /\ UNCHANGED children
        /\ k > 0 => pc' = pc /\ k' = k - 1
        /\ ~(k > 0) => pc' = "kill_wait" /\ k' = 1
        /\ proc' = proc \/ (Running(children[k]) /\ proc' = [proc EXCEPT ![children[k]] = "asked"])
    BY <1>3 DEF KillTerm
  <2>2. k \in 0 .. Len(children)
    BY <2>1 DEF KidsInv, Indexed
  <2>3. Indexed'
    <3>1. pc' = "kill_term" => k' \in 0 .. Len(children')
      BY <1>2, <2>1, <2>2
    <3>2. pc' = "kill_wait" => k' \in 1 .. (Len(children') + 1)
      BY <1>2, <2>1, <2>2
    <3>3. QED
      BY <3>1, <3>2 DEF Indexed
  <2>4. \A n \in Names : proc'[n] = "none" <=> proc[n] = "none"
    <3>1. PICK c : c = children[k]
      OBVIOUS
    <3>2. proc' = proc \/ (proc[c] # "none" /\ proc' = [proc EXCEPT ![c] = "asked"])
      BY <2>1, <3>1 DEF Running
    <3>3. QED
      BY <1>1, <3>2
  <2>5. QED
    BY <1>1, <2>1, <2>3, <2>4, KidsEnd DEF Killing
<1>4. CASE KillWait /\ k <= Len(children)
  <2>1. /\ pc = "kill_wait" /\ pc' = pc /\ UNCHANGED children /\ k' = k + 1
        /\ proc' = [proc EXCEPT ![children[k]] = "down"]
    BY <1>4 DEF KillWait
  <2>2. k \in 1 .. (Len(children) + 1)
    BY <2>1 DEF KidsInv, Indexed
  <2>3. Indexed'
    <3>1. k' \in 1 .. (Len(children') + 1)
      BY <1>2, <1>4, <2>1, <2>2
    <3>2. QED
      BY <2>1, <3>1 DEF Indexed
  <2>4. \A n \in Names : proc'[n] = "none" <=> proc[n] = "none"
    <3>1. PICK c : c = children[k]
      OBVIOUS
    <3>2. k \in 1 .. Len(children)
      BY <1>2, <1>4, <2>2
    <3>3. c \in Names /\ proc[c] # "none"
      BY <1>2, <3>1, <3>2 DEF KidsInv, Unique, Known
    <3>4. QED
      BY <1>1, <2>1, <3>1, <3>3
  <2>5. QED
    BY <1>1, <2>1, <2>3, <2>4, KidsEnd
<1>5. CASE KillWait /\ ~(k <= Len(children))
  <2>1. pc = "kill_wait" /\ pc' = "report" /\ children' = <<>> /\ UNCHANGED proc
    BY <1>5 DEF KillWait
  <2>2. DOMAIN children' = {}
    BY <2>1
  <2>3. IsInjective(children') /\ \A n : ~Known(n)'
    BY <2>2 DEF IsInjective, Known
  <2>4. QED
    BY <1>1, <2>1, <2>3 DEF KidsInv, Unique, Unborn, Started, Indexed, Validated, Walking
<1>6. QED
  BY <1>3, <1>4, <1>5

LEMMA KidsQuiet == ASSUME KidsInv, UNCHANGED <<sc, proc, children, born, pc, k>> PROVE KidsInv'
BY DEF KidsInv, Unique, Unborn, Started, Indexed, Validated, Known

LEMMA KidsKept == SilInv /\ KidsInv /\ [Next]_vars => KidsInv'
<1> SUFFICES ASSUME SilInv, KidsInv, [Next]_vars PROVE KidsInv'
  OBVIOUS
<1>1. CASE Load \/ StartBackend \/ UseBackend \/ AwaitBackend \/ StartProxy \/ AwaitProxy \/ SpawnAgents
  BY <1>1, KidsStartUp
<1>2. CASE Track
  BY <1>2, KidsTrack
<1>3. ASSUME RunAction \/ StartCheck \/ Nap \/ \E r, t : Poll(r, t) PROVE KidsInv'
  <2>1. pc \in Walking /\ pc' \in Walking /\ UNCHANGED <<sc, proc, children, born>>
    BY <1>3 DEF RunAction, StartCheck, Nap, Poll, Walking, envVars, procVars
  <2>2. QED
    BY <2>1, KidsMove
<1>4. CASE EndOfSchedule
  <2>1. /\ UNCHANGED <<sc, proc, children, born>> /\ pc = "walk"
        /\ pc' = "hold" \/ (pc' = "kill_term" /\ k' = Len(children))
    BY <1>4 DEF EndOfSchedule, ToKill, envVars, procVars
  <2>2. QED
    BY <2>1, KidsMove DEF Walking
<1>5. CASE KillTerm \/ KillWait
  BY <1>5, KidsKill
<1>6. CASE Report \/ InterruptCleanup
  <2>1. pc' = "exit" /\ UNCHANGED <<sc, proc, children, born>>
    BY <1>6 DEF Report, InterruptCleanup, envVars, procVars
  <2>2. QED
    BY <2>1, KidsMove
<1>7. CASE Interrupt
  <2>1. pc' = "kill_term" /\ k' = Len(children) /\ pc \notin {"load", "exit"} /\ UNCHANGED <<sc, proc, children, born>>
    BY <1>7 DEF Interrupt, ToKill, procVars
  <2>2. QED
    BY <2>1, KidsMove
<1>8. ASSUME NEW n \in Names, ChildExits(n) PROVE KidsInv'
  <2>1. Running(n) /\ proc' = [proc EXCEPT ![n] = "down"] /\ UNCHANGED <<sc, children, born, pc, k>>
    BY <1>8 DEF ChildExits, envVars
  <2>2. \A x \in Names : proc'[x] = "none" <=> proc[x] = "none"
    BY <2>1 DEF SilInv, TypeOK, Running
  <2>3. Indexed'
    BY <2>1 DEF KidsInv, Indexed
  <2>4. QED
    BY <2>1, <2>2, <2>3, KidsEnd
<1>9. CASE UNCHANGED vars
  BY <1>9, KidsQuiet DEF vars, envVars, procVars
<1>10. QED
  BY <1>1, <1>2, <1>3, <1>4, <1>5, <1>6, <1>7, <1>8, <1>9 DEF Next, RunnerStep

LEMMA KidsStart == Init => KidsInv
<1> SUFFICES ASSUME Init PROVE KidsInv
  OBVIOUS
<1>1. children = <<>> /\ born = None /\ pc = "load" /\ proc = [n \in Names |-> "none"]
  BY DEF Init
<1>2. DOMAIN children = {}
  BY <1>1
<1>3. IsInjective(children) /\ \A n : ~Known(n)
  BY <1>2 DEF IsInjective, Known
<1>4. "backend" \in Names /\ "lossy_proxy" \in Names
  BY DEF Names
<1>5. QED
  BY <1>1, <1>3, <1>4 DEF KidsInv, Unique, Unborn, Started, Indexed, Validated, Walking

\* Wherever the runner is, it started its children once and in the order of run.
THEOREM KidsInvariant == Spec => []KidsInv
<1>1. QED
  BY SilInvariant, KidsStart, KidsKept, PTL DEF Spec

-----------------------------------------------------------------------------
(* Well-formedness.                                                        *)

\* Every entry of the schedule is one of the timeline or one of the expectations.
LEMMA EntriesAtHand ==
    ASSUME SilInv, NEW p \in DOMAIN Schedule(sc)
    PROVE  \/ Schedule(sc)[p].kind = "action" /\ Schedule(sc)[p].it \in Range(sc.timeline)
           \/ Schedule(sc)[p].kind = "expect" /\ Schedule(sc)[p].it \in Range(sc.expect)
<1>1. PICK s, m, l : s = sc /\ m = Len(sc.timeline) /\ l = Len(sc.expect)
  OBVIOUS
<1>2. Sizes(s, m, l)
  BY <1>1 DEF Sizes, SilInv, TypeOK
<1>3. m \in Nat /\ l \in Nat /\ DOMAIN s.timeline = 1 .. m /\ DOMAIN s.expect = 1 .. l
  BY <1>2, SizesAre, Zenon
<1>4. Sortable(Merged(s), m + l)
  BY <1>2, <1>3, MergedIs
<1>5. PICK order : Sorts(order, s, m + l)
  BY <1>4, ScheduleSorts
<1>6. PICK n : n = m + l
  OBVIOUS
<1>7. p \in 1 .. n /\ p \in 1 .. (m + l)
  BY <1>1, <1>5, <1>6, Zenon DEF Sorts
<1>8. PICK i : i = order[p]
  OBVIOUS
<1>9. /\ i \in 1 .. (m + l)
      /\ i <= m => Schedule(s)[p] = ActionEntry(s, i)
      /\ i > m => i - m \in 1 .. l /\ Schedule(s)[p] = ExpectEntry(s, i - m)
  BY <1>2, <1>3, <1>5, <1>7, <1>8, ScheduleEntries
<1>10. CASE i <= m
  <2>1. i \in 1 .. m
    BY <1>3, <1>9, <1>10
  <2>2. s.timeline[i] \in Range(s.timeline)
    BY <1>3, <2>1, Zenon DEF Range
  <2>3. QED
    BY <1>1, <1>9, <1>10, <2>2 DEF ActionEntry
<1>11. CASE i > m
  <2>1. s.expect[i - m] \in Range(s.expect)
    BY <1>3, <1>9, <1>11, Zenon DEF Range
  <2>2. QED
    BY <1>1, <1>9, <1>11, <2>1 DEF ExpectEntry
<1>12. i <= m \/ i > m
  BY <1>3, <1>9
<1>13. QED
  BY <1>10, <1>11, <1>12

\* What is left of the schedule, entry by entry.
LEMMA LeftIs ==
    ASSUME SilInv, NEW n \in DOMAIN Schedule(sc), todo = SubSeq(Schedule(sc), n, Len(Schedule(sc)))
    PROVE  \A i \in DOMAIN todo : /\ i \in Nat /\ i >= 1 /\ n + i - 1 \in DOMAIN Schedule(sc)
                                  /\ todo[i] = Schedule(sc)[n + i - 1]
<1>1. PICK sched, N : sched = Schedule(sc) /\ N = Len(sched)
  OBVIOUS
<1>2. IsList(sched) /\ N \in Nat /\ DOMAIN sched = 1 .. N /\ n \in 1 .. N
  BY <1>1, ScheduleAtHand
<1>3. \A i \in n .. N : sched[i] \in {sched[j] : j \in DOMAIN sched}
  <2>1. \A i \in n .. N : i \in 1 .. N
    BY <1>2
  <2>2. QED
    BY <1>2, <2>1, Zenon
<1>4. n \in Int /\ N \in Int /\ n <= N
  BY <1>2
<1>5. PICK t : t = SubSeq(sched, n, N)
  OBVIOUS
<1>6. /\ t \in Seq({sched[j] : j \in DOMAIN sched}) /\ Len(t) = N - n + 1
      /\ \A i \in 1 .. N - n + 1 : t[i] = sched[n + i - 1]
  BY <1>3, <1>4, <1>5, SubSeqProperties
<1>7. DOMAIN t = 1 .. (N - n + 1)
  BY <1>6, LenProperties
<1>8. \A i \in 1 .. (N - n + 1) : i \in Nat /\ i >= 1 /\ n + i - 1 \in 1 .. N
  BY <1>2
<1>9. todo = t
  BY <1>1, <1>5
<1>10. QED
  BY <1>1, <1>2, <1>6, <1>7, <1>8, <1>9, Zenon

\* When an expectation is polled, no action due at or before its time is left.
LEMMA PolledInTime ==
    ASSUME SilInv, WalkInv, pc = "poll"
    PROVE  \A i \in DOMAIN todo : todo[i].kind = "action" => todo[i].at > Head(todo).at
<1>1. Walked /\ todo # <<>> /\ Head(todo).kind = "expect"
  BY DEF WalkInv, Progress, Walking
<1>2. PICK sched, N : sched = Schedule(sc) /\ N = Len(sched)
  OBVIOUS
<1>3. /\ N \in Nat /\ DOMAIN sched = 1 .. N
      /\ \A p, q \in DOMAIN sched :
           p < q /\ sched[p].kind = "expect" /\ sched[q].kind = "action" => sched[q].at > sched[p].at
  BY <1>2, ScheduleAtHand
<1>4. PICK n \in 0 .. N : /\ todo = SubSeq(sched, n + 1, N) /\ n + 1 \in DOMAIN sched
                          /\ Head(todo) = sched[n + 1]
  BY <1>1, <1>2, AtEntry
<1>5. PICK p : p = n + 1
  OBVIOUS
<1>6. p \in DOMAIN sched /\ Head(todo) = sched[p] /\ todo = SubSeq(sched, p, N)
  BY <1>4, <1>5, Zenon
<1>7. \A i \in DOMAIN todo : i \in Nat /\ i >= 1 /\ p + i - 1 \in DOMAIN sched /\ todo[i] = sched[p + i - 1]
  BY <1>2, <1>6, LeftIs
<1>8. SUFFICES ASSUME NEW i \in DOMAIN todo, todo[i].kind = "action" PROVE todo[i].at > Head(todo).at
  OBVIOUS
<1>9. PICK q : q = p + i - 1
  OBVIOUS
<1>10. q \in DOMAIN sched /\ todo[i] = sched[q] /\ i \in Nat /\ i >= 1
  BY <1>7, <1>9
<1>11. q # p
  BY <1>1, <1>6, <1>8, <1>10
<1>12. p < q
  BY <1>3, <1>6, <1>9, <1>10, <1>11
<1>13. QED
  BY <1>1, <1>3, <1>6, <1>8, <1>10, <1>12

\* What is left to do is addressed to devices whose agent was started.
LEMMA AddresseesStarted ==
    ASSUME SilInv, WalkInv, KidsInv, pc = "walk"
    PROVE  \A i \in DOMAIN todo : Addressed(todo[i]) => proc[todo[i].it.device] # "none"
<1> SUFFICES ASSUME NEW i \in DOMAIN todo, Addressed(todo[i]) PROVE proc[todo[i].it.device] # "none"
  OBVIOUS
<1>1. todo # <<>>
  OBVIOUS
<1>2. PICK n \in DOMAIN Schedule(sc) : todo = SubSeq(Schedule(sc), n, Len(Schedule(sc)))
  BY <1>1 DEF WalkInv, Remainder
<1>3. PICK p : p \in DOMAIN Schedule(sc) /\ todo[i] = Schedule(sc)[p]
  BY <1>2, LeftIs
<1>4. PICK x : x = todo[i]
  OBVIOUS
<1>5. (x.kind = "action" /\ x.it \in Range(sc.timeline)) \/ (x.kind = "expect" /\ x.it \in Range(sc.expect))
  BY <1>3, <1>4, EntriesAtHand
<1>6. x.it.device \in Ids(sc)
  <2>1. ValidScenario(sc)
    BY DEF KidsInv, Validated
  <2>2. QED
    BY <1>4, <1>5, <2>1 DEF ValidScenario, Addressed
<1>7. \A j \in DOMAIN sc.devices : proc[sc.devices[j].id] # "none"
  BY DEF KidsInv, Started, Walking
<1>8. QED
  BY <1>4, <1>6, <1>7 DEF Ids, Range

\* No process is started twice, the walk consumes the schedule in order, and what is
\* scheduled meets its preconditions (spawn, Runner.run, validate_scenario).
THEOREM RunsWellFormed == Spec => []WellFormed
<1>1. SilInv /\ WalkInv /\ KidsInv => WellFormed
  <2> SUFFICES ASSUME SilInv, WalkInv, KidsInv PROVE WellFormed
    OBVIOUS
  <2>1. proc \in [Names -> {"none", "up", "asked", "down"}]
    BY DEF SilInv, TypeOK, States
  <2>2. Range(children) \subseteq Names /\ IsInjective(children) /\ born \in Names \cup {None}
    BY RangeOfSeq DEF SilInv, TypeOK, KidsInv, Unique
  <2>3. \/ todo = <<>>
        \/ \E n \in DOMAIN Schedule(sc) : todo = SubSeq(Schedule(sc), n, Len(Schedule(sc)))
    BY DEF WalkInv, Remainder
  <2>4. elapsed \in 0 .. Grace + 1 /\ fatal \in {None, "error", "interrupted"} /\ rc \in {None, 0, 1, 2, 130}
    BY DEF WalkInv, Fields
  <2>5. pc \in {"kill_term", "kill_wait"} => k \in 0 .. Len(children) + 1
    <3>1. Len(children) \in Nat
      BY DEF SilInv, TypeOK
    <3>2. QED
      BY <3>1 DEF KidsInv, Indexed
  <2>6. QED
    BY <2>1, <2>2, <2>3, <2>4, <2>5, PolledInTime, AddresseesStarted DEF WellFormed
<1>2. QED
  BY <1>1, SilInvariant, WalkInvariant, KidsInvariant, PTL
=============================================================================
