------------------------ MODULE RuleConditions_proofs ------------------------
(***************************************************************************)
(* Proofs about RuleConditions for every set of rules, configs, models and *)
(* samples, every window, warm-up and sustain time: samples are judged by  *)
(* the newest config, an anomaly is raised exactly when it is sustained,   *)
(* and a rate alert exactly when the whole history of samples says so.     *)
(***************************************************************************)
EXTENDS RuleConditions, SequenceTheorems, FiniteSetTheorems, WellFoundedInduction, TLAPS

EwmaRec == [n : Nat, streak : Nat, since : Nat \cup {None}]

PastRec ==
    [age : Nat, sample : Samples, rated : SUBSET Metrics, gated : (SUBSET Metrics) \cup {None},
     judged : SUBSET Metrics]

TypeOK ==
    /\ rules.rate \in SUBSET Metrics
    /\ rules.anomaly.metrics \in SUBSET Metrics
    /\ rules.anomaly.gated \in SUBSET Metrics
    /\ configs \in Seq(Configs)
    /\ pushes \in Nat
    /\ ewma \in [Metrics -> EwmaRec]
    /\ gateN \in Nat
    /\ past \in Seq(PastRec)
    /\ hwFresh \in BOOLEAN

\* While no push is under way the cached config is the newest one; a model that is
\* known to be fresh is the announced one.
CachesFollow ==
    /\ pushes = 0 => cfgCache = None \/ cfgCache = StoredConfig
    /\ hwFresh => hwCache = "unset" \/ hwCache = hw

\* Samples the gate was updated with.
GatedAt == {i \in DOMAIN past : past[i].gated # None}

\* The counters of the warm-up count what was judged.
WarmUp ==
    /\ gateN = MinOf(Cardinality(GatedAt), Warmup)
    /\ \A m \in Metrics : ewma[m].n = MinOf(Cardinality(JudgedAt(m)), Warmup)

\* A sample of a judged metric came with a gate.
GateKnown == \A i \in DOMAIN past : past[i].judged # {} => past[i].gated # None

\* The capped age of a sample.
Waited(i) == MinOf(past[i].age, SustainS)

\* streak and since tell the length and the age of the row of anomalous samples.
StreakTells(m) ==
    /\ ewma[m].streak = MinOf(Cardinality(AnomalousRow(m)), Sustain)
    /\ ewma[m].since = None => AnomalousRow(m) = {}
    /\ ewma[m].since # None =>
         /\ \E i \in AnomalousRow(m) : Waited(i) = ewma[m].since
         /\ \A i \in AnomalousRow(m) : Waited(i) <= ewma[m].since

Streaks == \A m \in Metrics : StreakTells(m)

AgesCapped == \A i \in DOMAIN past : past[i].age <= AgeCap

\* The alerts of the last sample are those of the averages it left.
Verdict ==
    Evaluated => \A m \in LastSample.judged : <<"anomaly", m>> \in fired <=> Sustained(ewma[m])

\* The inductive invariant.
RuleInv ==
    TypeOK /\ CachesFollow /\ GateKnown /\ AgesCapped /\ WarmUp /\ Streaks /\ Verdict

-----------------------------------------------------------------------------
(* The history of samples.                                                 *)

LEMMA HistoryFinite ==
    ASSUME past \in Seq(PastRec), NEW m
    PROVE  /\ IsFiniteSet(GatedAt) /\ Cardinality(GatedAt) \in Nat
           /\ IsFiniteSet(JudgedAt(m)) /\ Cardinality(JudgedAt(m)) \in Nat
           /\ IsFiniteSet(AnomalousRow(m)) /\ Cardinality(AnomalousRow(m)) \in Nat
<1>1. Len(past) \in Nat /\ DOMAIN past = 1 .. Len(past)
  OBVIOUS
<1>2. IsFiniteSet(DOMAIN past)
  BY <1>1, FS_Interval
<1>3. GatedAt \subseteq DOMAIN past /\ JudgedAt(m) \subseteq DOMAIN past /\ AnomalousRow(m) \subseteq DOMAIN past
  BY DEF GatedAt, JudgedAt, AnomalousRow
<1>4. QED
  BY <1>2, <1>3, FS_Subset, FS_CardinalityType

LEMMA Recorded ==
    ASSUME past \in Seq(PastRec), NEW x \in PastRec, past' = Append(past, x)
    PROVE  /\ Len(past) \in Nat /\ DOMAIN past = 1 .. Len(past)
           /\ past' \in Seq(PastRec) /\ Len(past') = Len(past) + 1 /\ DOMAIN past' = 1 .. (Len(past) + 1)
           /\ \A i \in DOMAIN past : past'[i] = past[i]
           /\ past'[Len(past) + 1] = x
<1> HIDE DEF PastRec
<1>1. QED
  BY AppendProperties, LenProperties

\* A sample adds itself to the samples it was judged on, and to no other.
LEMMA JudgedExtends ==
    ASSUME past \in Seq(PastRec), NEW x \in PastRec, past' = Append(past, x), NEW m
    PROVE  /\ JudgedAt(m)' = IF m \in x.judged THEN JudgedAt(m) \cup {Len(past) + 1} ELSE JudgedAt(m)
           /\ GatedAt' = IF x.gated # None THEN GatedAt \cup {Len(past) + 1} ELSE GatedAt
           /\ Len(past) + 1 \notin JudgedAt(m) \cup GatedAt
<1> DEFINE new == Len(past) + 1
<1>1. /\ new \notin DOMAIN past /\ DOMAIN past' = DOMAIN past \cup {new}
      /\ \A i \in DOMAIN past : past'[i] = past[i]
      /\ past'[new] = x
  BY Recorded
<1> HIDE DEF new
<1>2. JudgedAt(m)' = {i \in DOMAIN past' : m \in past'[i].judged}
  BY DEF JudgedAt
<1>3. GatedAt' = {i \in DOMAIN past' : past'[i].gated # None}
  BY DEF GatedAt
<1>4. JudgedAt(m)' = IF m \in x.judged THEN JudgedAt(m) \cup {new} ELSE JudgedAt(m)
  BY <1>1, <1>2 DEF JudgedAt
<1>5. GatedAt' = IF x.gated # None THEN GatedAt \cup {new} ELSE GatedAt
  BY <1>1, <1>3 DEF GatedAt
<1>6. QED
  BY <1>1, <1>4, <1>5 DEF new, JudgedAt, GatedAt

\* Later samples do not change whether an earlier one is anomalous.
LEMMA OldVerdicts ==
    ASSUME past \in Seq(PastRec), NEW x \in PastRec, past' = Append(past, x), NEW m, NEW i \in DOMAIN past
    PROVE  AnomalousAt(i, m)' <=> AnomalousAt(i, m)
<1> DEFINE new == Len(past) + 1
<1>1. /\ i < new /\ past'[i] = past[i] /\ DOMAIN past' = DOMAIN past \cup {new}
      /\ \A j \in DOMAIN past : past'[j] = past[j]
  BY Recorded
<1>2. ~(new < i)
  BY Recorded
<1> HIDE DEF new
<1>3. JudgedAt(m)' = JudgedAt(m) \/ JudgedAt(m)' = JudgedAt(m) \cup {new}
  BY JudgedExtends DEF new
<1>4. i # new
  BY Recorded DEF new
<1>5. {j \in JudgedAt(m)' : j < i} = {j \in JudgedAt(m) : j < i}
  BY <1>2, <1>3
<1>6. {j \in DOMAIN past' : j < i /\ past'[j].gated # None} = {j \in DOMAIN past : j < i /\ past[j].gated # None}
  BY <1>1, <1>2
<1>7. i \in JudgedAt(m)' <=> i \in JudgedAt(m)
  BY <1>3, <1>4
<1>8. QED
  BY <1>1, <1>5, <1>6, <1>7 DEF AnomalousAt

\* The newest sample is anomalous by what came before it.
LEMMA NewVerdict ==
    ASSUME past \in Seq(PastRec), NEW x \in PastRec, past' = Append(past, x), NEW m,
           NEW CONSTANT new, new = Len(past) + 1
    PROVE  AnomalousAt(new, m)' <=>
             /\ m \in x.judged
             /\ m \in x.sample.far
             /\ Cardinality(JudgedAt(m)) >= Warmup
             /\ ~(x.sample.moving /\ m \in x.gated /\ Cardinality(GatedAt) >= Warmup)
<1>1. /\ past'[new] = x /\ DOMAIN past' = DOMAIN past \cup {new}
      /\ \A j \in DOMAIN past : past'[j] = past[j] /\ j < new
      /\ ~(new < new)
  BY Recorded
<1>2. /\ JudgedAt(m)' = IF m \in x.judged THEN JudgedAt(m) \cup {new} ELSE JudgedAt(m)
      /\ new \notin JudgedAt(m)
  BY JudgedExtends
<1>3. {j \in JudgedAt(m)' : j < new} = JudgedAt(m)
  BY <1>1, <1>2 DEF JudgedAt
<1>4. {j \in DOMAIN past' : j < new /\ past'[j].gated # None} = GatedAt
  BY <1>1 DEF GatedAt
<1>5. new \in JudgedAt(m)' <=> m \in x.judged
  BY <1>2
<1>6. QED
  BY <1>1, <1>3, <1>4, <1>5 DEF AnomalousAt

\* The row of anomalous samples grows, ends, or stays when the metric is not judged.
LEMMA RowExtends ==
    ASSUME past \in Seq(PastRec), NEW x \in PastRec, past' = Append(past, x), NEW m,
           NEW CONSTANT new, new = Len(past) + 1
    PROVE  /\ AnomalousRow(m)' = IF m \notin x.judged THEN AnomalousRow(m)
                                 ELSE IF AnomalousAt(new, m)' THEN AnomalousRow(m) \cup {new} ELSE {}
           /\ new \notin AnomalousRow(m)
<1>1. \A j \in DOMAIN past : j < new /\ ~(j >= new) /\ (AnomalousAt(j, m)' <=> AnomalousAt(j, m))
  BY Recorded, OldVerdicts
<1>2. \A j \in DOMAIN past \cup {new} : new >= j
  BY Recorded
<1>3. /\ JudgedAt(m)' = IF m \in x.judged THEN JudgedAt(m) \cup {new} ELSE JudgedAt(m)
      /\ new \notin JudgedAt(m) /\ JudgedAt(m) \subseteq DOMAIN past
  BY JudgedExtends DEF JudgedAt
<1>4. AnomalousRow(m)' = {i \in JudgedAt(m)' : \A j \in JudgedAt(m)' : j >= i => AnomalousAt(j, m)'}
  BY DEF AnomalousRow
<1>5. CASE m \notin x.judged
  BY <1>1, <1>3, <1>4, <1>5 DEF AnomalousRow
<1>6. CASE m \in x.judged
  <2>1. JudgedAt(m)' = JudgedAt(m) \cup {new}
    BY <1>3, <1>6
  <2>2. CASE AnomalousAt(new, m)'
    BY <1>1, <1>2, <1>3, <1>4, <1>6, <2>1, <2>2 DEF AnomalousRow
  <2>3. CASE ~AnomalousAt(new, m)'
    <3>1. AnomalousRow(m)' = {}
      BY <1>2, <1>3, <1>4, <2>1, <2>3
    <3>2. QED
      BY <1>3, <1>6, <2>3, <3>1 DEF AnomalousRow
  <2>4. QED
    BY <2>2, <2>3
<1>7. QED
  BY <1>5, <1>6

\* Samples that only grow older keep their verdicts.
LEMMA SameHistory ==
    ASSUME DOMAIN past' = DOMAIN past, NEW m,
           \A i \in DOMAIN past : /\ past'[i].judged = past[i].judged /\ past'[i].gated = past[i].gated
                                  /\ past'[i].sample = past[i].sample
    PROVE  JudgedAt(m)' = JudgedAt(m) /\ GatedAt' = GatedAt /\ AnomalousRow(m)' = AnomalousRow(m)
<1>1. JudgedAt(m)' = JudgedAt(m) /\ GatedAt' = GatedAt /\ JudgedAt(m) \subseteq DOMAIN past
  BY DEF JudgedAt, GatedAt
<1>2. ASSUME NEW i \in JudgedAt(m) PROVE AnomalousAt(i, m)' <=> AnomalousAt(i, m)
  <2>1. {j \in JudgedAt(m)' : j < i} = {j \in JudgedAt(m) : j < i}
    BY <1>1
  <2>2. {j \in DOMAIN past' : j < i /\ past'[j].gated # None} = {j \in DOMAIN past : j < i /\ past[j].gated # None}
    OBVIOUS
  <2>3. past'[i].gated = past[i].gated /\ past'[i].sample = past[i].sample
    BY <1>1
  <2>4. QED
    BY <1>1, <2>1, <2>2, <2>3 DEF AnomalousAt
<1>3. AnomalousRow(m)' = {i \in JudgedAt(m)' : \A j \in JudgedAt(m)' : j >= i => AnomalousAt(j, m)'}
  BY DEF AnomalousRow
<1>4. QED
  BY <1>1, <1>2, <1>3 DEF AnomalousRow

-----------------------------------------------------------------------------
(* Steps.                                                                  *)

LEMMA MinOfIs ==
    ASSUME NEW a \in Nat, NEW b \in Nat
    PROVE  /\ MinOf(a, b) \in Nat /\ MinOf(a, b) <= b
           /\ MinOf(a, b) >= b <=> a >= b
           /\ MinOf(MinOf(a, b) + 1, b) = MinOf(a + 1, b)
           /\ MinOf(0, b) = 0
BY DEF MinOf

LEMMA RuleStart == Init => RuleInv
<1> SUFFICES ASSUME Init PROVE RuleInv
  OBVIOUS
<1>1. past = <<>> /\ DOMAIN past = {} /\ past \in Seq(PastRec)
  BY EmptySeq DEF Init
<1>2. NoEwma \in EwmaRec /\ NoEwma.n = 0 /\ NoEwma.streak = 0 /\ NoEwma.since = None
  BY DEF NoEwma, EwmaRec
<1>3. ewma \in [Metrics -> EwmaRec] /\ \A m \in Metrics : ewma[m] = NoEwma
  BY <1>2 DEF Init
<1>4. TypeOK
  <2>1. configs \in Seq(Configs)
    BY EmptySeq DEF Init
  <2>2. hwFresh \in BOOLEAN
    BY DEF Init
  <2>3. pushes \in Nat /\ gateN \in Nat
    BY DEF Init
  <2>4. /\ rules.rate \in SUBSET Metrics /\ rules.anomaly.metrics \in SUBSET Metrics
        /\ rules.anomaly.gated \in SUBSET Metrics
    BY RulesAssumption DEF Init
  <2>5. QED
    BY <1>1, <1>3, <2>1, <2>2, <2>3, <2>4, Zenon DEF TypeOK
<1>5. CachesFollow
  BY DEF Init, CachesFollow
<1>6. GateKnown /\ AgesCapped
  BY <1>1 DEF GateKnown, AgesCapped
<1>7. Verdict
  BY <1>1 DEF Verdict, Evaluated
<1>8. GatedAt = {} /\ \A m : JudgedAt(m) = {} /\ AnomalousRow(m) = {}
  BY <1>1 DEF GatedAt, JudgedAt, AnomalousRow
<1>9. MinOf(0, Warmup) = 0 /\ MinOf(0, Sustain) = 0
  BY RulesAssumption, MinOfIs
<1>10. Cardinality({}) = 0
  BY FS_EmptySet
<1>11. WarmUp
  BY <1>2, <1>3, <1>8, <1>9, <1>10 DEF WarmUp, Init
<1>12. Streaks
  BY <1>2, <1>3, <1>8, <1>9, <1>10 DEF Streaks, StreakTells
<1>13. QED
  BY <1>4, <1>5, <1>6, <1>7, <1>11, <1>12 DEF RuleInv

\* What the requests leave alone: the history, the averages and the alerts.
LEMMA RequestStep ==
    ASSUME RuleInv, UNCHANGED <<ewma, gateN, fired, past>>, TypeOK', CachesFollow'
    PROVE  RuleInv'
<1>1. GateKnown' /\ AgesCapped'
  BY DEF RuleInv, GateKnown, AgesCapped
<1>2. \A m : JudgedAt(m)' = JudgedAt(m) /\ GatedAt' = GatedAt /\ AnomalousRow(m)' = AnomalousRow(m)
  BY SameHistory
<1>3. WarmUp'
  BY <1>2 DEF RuleInv, WarmUp
<1>4. Streaks'
  BY <1>2 DEF RuleInv, Streaks, StreakTells, Waited
<1>5. Verdict'
  BY DEF RuleInv, Verdict, Evaluated, LastSample, Sustained
<1>6. QED
  BY <1>1, <1>3, <1>4, <1>5 DEF RuleInv

LEMMA SetRulesStep == ASSUME RuleInv, NEW body \in Bodies, SetRules(body) PROVE RuleInv'
<1>1. /\ rules' = [g \in DOMAIN DefaultRules |->
                     IF g \notin DOMAIN body THEN DefaultRules[g]
                     ELSE IF g \in {"thresholds", "rate"} THEN body[g]
                     ELSE Updated(DefaultRules[g], body[g])]
      /\ UNCHANGED <<configs, cfgCache, hwCache, hw, pushes, ewma, gateN, fired, past, hwFresh>>
  BY DEF SetRules, cacheVars
<1>2. /\ rules'.rate = IF "rate" \notin DOMAIN body THEN DefaultRules.rate ELSE body.rate
      /\ rules'.anomaly = IF "anomaly" \notin DOMAIN body THEN DefaultRules.anomaly
                          ELSE Updated(DefaultRules.anomaly, body.anomaly)
  BY <1>1, RulesAssumption
<1>3. ASSUME NEW group \in {"metrics", "gated"}, "anomaly" \in DOMAIN body
      PROVE  Updated(DefaultRules.anomaly, body.anomaly)[group] \in SUBSET Metrics
  <2>1. Updated(DefaultRules.anomaly, body.anomaly)[group] =
           IF group \in DOMAIN body.anomaly THEN body.anomaly[group] ELSE DefaultRules.anomaly[group]
    BY RulesAssumption DEF Updated
  <2>2. QED
    BY <1>3, <2>1, RulesAssumption
<1>4. /\ rules'.rate \in SUBSET Metrics
      /\ rules'.anomaly.metrics \in SUBSET Metrics /\ rules'.anomaly.gated \in SUBSET Metrics
  BY <1>2, <1>3, RulesAssumption
<1>5. TypeOK'
  BY <1>1, <1>4 DEF RuleInv, TypeOK
<1>6. CachesFollow'
  BY <1>1 DEF RuleInv, CachesFollow, StoredConfig
<1>7. QED
  BY <1>1, <1>5, <1>6, RequestStep

LEMMA PutConfigStep == ASSUME RuleInv, NEW cfg \in Configs, PutConfig(cfg) PROVE RuleInv'
<1>1. /\ configs' = Append(configs, cfg) /\ pushes' = pushes + 1
      /\ UNCHANGED <<rules, cfgCache, hwCache, hw, ewma, gateN, fired, past, hwFresh>>
  BY DEF PutConfig, cacheVars
<1>2. configs' \in Seq(Configs) /\ pushes' \in Nat /\ pushes' # 0
  BY <1>1 DEF RuleInv, TypeOK
<1>3. TypeOK'
  BY <1>1, <1>2 DEF RuleInv, TypeOK
<1>4. CachesFollow'
  BY <1>1, <1>2 DEF RuleInv, CachesFollow
<1>5. QED
  BY <1>1, <1>3, <1>4, RequestStep

LEMMA InvalidateStep ==
    ASSUME RuleInv, InvalidateConfig, pushes' \in Nat,
           UNCHANGED <<rules, configs, hw, hist, ewma, gateN, fired, past>>
    PROVE  RuleInv'
<1>1. cfgCache' = None /\ hwCache' = "unset" /\ hwFresh' = TRUE
  BY DEF InvalidateConfig
<1>2. hwFresh' \in BOOLEAN
  BY <1>1
<1>3. TypeOK'
  BY <1>2 DEF RuleInv, TypeOK
<1>4. CachesFollow'
  BY <1>1 DEF CachesFollow
<1>5. QED
  BY <1>3, <1>4, RequestStep

LEMMA HelloStep ==
    ASSUME RuleInv, NEW model \in Models, NEW behind \in BOOLEAN, Hello(model, behind)
    PROVE  RuleInv'
<1>1. /\ hw' = model /\ pushes' = (IF behind THEN pushes + 1 ELSE pushes)
      /\ hwFresh' = (hwCache = "unset" \/ (hwFresh /\ model = hw))
      /\ UNCHANGED <<rules, configs, cfgCache, hwCache, ewma, gateN, fired, past>>
  BY DEF Hello, cacheVars
<1>2. pushes' \in Nat /\ (pushes' = 0 => pushes = 0)
  BY <1>1 DEF RuleInv, TypeOK
<1>3. hwFresh' \in BOOLEAN
  BY <1>1
<1>4. TypeOK'
  BY <1>1, <1>2, <1>3 DEF RuleInv, TypeOK
<1>5. CachesFollow'
  BY <1>1, <1>2 DEF RuleInv, CachesFollow, StoredConfig
<1>6. QED
  BY <1>1, <1>4, <1>5, RequestStep

\* A capped age grows like the age it caps.
LEMMA OlderCapped ==
    ASSUME NEW a \in Nat, a <= AgeCap
    PROVE  /\ Older(a, AgeCap) \in Nat /\ Older(a, AgeCap) <= AgeCap /\ Older(a, AgeCap) # 0
           /\ MinOf(Older(a, AgeCap), SustainS) = Older(MinOf(a, SustainS), SustainS)
<1>1. AgeCap \in Nat /\ AgeCap >= SustainS /\ AgeCap > 0 /\ SustainS \in Nat
  BY RulesAssumption DEF AgeCap
<1>2. a # None /\ MinOf(a, SustainS) # None
  BY <1>1, RulesAssumption, MinOfIs
<1>3. Older(a, AgeCap) = (IF a = AgeCap THEN a ELSE a + 1)
  BY <1>2 DEF Older
<1>4. Older(MinOf(a, SustainS), SustainS) =
        (IF MinOf(a, SustainS) = SustainS THEN MinOf(a, SustainS) ELSE MinOf(a, SustainS) + 1)
  BY <1>2 DEF Older
<1>5. QED
  BY <1>1, <1>3, <1>4 DEF MinOf

LEMMA PassTimeStep == ASSUME RuleInv, PassTime PROVE RuleInv'
<1>1. /\ ewma' = [m \in Metrics |-> [ewma[m] EXCEPT !.since = Older(@, SustainS)]]
      /\ past' = [i \in DOMAIN past |-> [past[i] EXCEPT !.age = Older(@, AgeCap)]]
      /\ UNCHANGED <<rules, configs, cfgCache, hwCache, hw, pushes, gateN, fired, hwFresh>>
  BY DEF PassTime, cacheVars
<1>2. /\ past \in Seq(PastRec) /\ ewma \in [Metrics -> EwmaRec] /\ AgesCapped
      /\ Len(past) \in Nat /\ DOMAIN past = 1 .. Len(past)
  BY DEF RuleInv, TypeOK
<1>3. \A i \in DOMAIN past : past[i] \in PastRec /\ past[i].age \in Nat /\ past[i].age <= AgeCap
  <2>1. \A i \in DOMAIN past : past[i] \in PastRec
    BY <1>2, ElementOfSeq
  <2>2. QED
    BY <1>2, <2>1 DEF PastRec, AgesCapped
<1>4. \A i \in DOMAIN past :
        /\ past'[i] \in PastRec /\ past'[i].age = Older(past[i].age, AgeCap)
        /\ past'[i].judged = past[i].judged /\ past'[i].gated = past[i].gated
        /\ past'[i].sample = past[i].sample
  <2> SUFFICES ASSUME NEW i \in DOMAIN past
               PROVE  /\ past'[i] \in PastRec /\ past'[i].age = Older(past[i].age, AgeCap)
                      /\ past'[i].judged = past[i].judged /\ past'[i].gated = past[i].gated
                      /\ past'[i].sample = past[i].sample
    OBVIOUS
  <2>1. past'[i] = [past[i] EXCEPT !.age = Older(past[i].age, AgeCap)]
    BY <1>1
  <2>2. Older(past[i].age, AgeCap) \in Nat
    BY <1>3, OlderCapped
  <2>3. QED
    BY <1>3, <2>1, <2>2 DEF PastRec
<1>5. DOMAIN past' = DOMAIN past /\ past' \in Seq(PastRec)
  <2>1. DOMAIN past' = 1 .. Len(past) /\ past' = [i \in 1 .. Len(past) |-> past'[i]]
    BY <1>1, <1>2
  <2>2. past' \in Seq(PastRec)
    BY <1>2, <1>4, <2>1, IsASeq
  <2>3. QED
    BY <1>2, <2>1, <2>2
<1>6. ASSUME NEW m \in Metrics
      PROVE  /\ ewma'[m] \in EwmaRec /\ ewma'[m].n = ewma[m].n /\ ewma'[m].streak = ewma[m].streak
             /\ ewma'[m].since = Older(ewma[m].since, SustainS)
  <2>1. ewma[m] \in EwmaRec /\ ewma'[m] = [ewma[m] EXCEPT !.since = Older(ewma[m].since, SustainS)]
    BY <1>1, <1>2
  <2>2. ewma[m].since \in Nat \cup {None}
    BY <2>1 DEF EwmaRec
  <2>3. Older(ewma[m].since, SustainS) \in Nat \cup {None}
    BY <2>2, RulesAssumption DEF Older
  <2>4. QED
    BY <2>1, <2>3 DEF EwmaRec
<1>7. TypeOK'
  <2>1. ewma' \in [Metrics -> EwmaRec]
    BY <1>1, <1>6
  <2>2. QED
    BY <1>1, <1>5, <2>1 DEF RuleInv, TypeOK
<1>8. CachesFollow'
  BY <1>1 DEF RuleInv, CachesFollow, StoredConfig
<1>9. GateKnown' /\ AgesCapped'
  BY <1>3, <1>4, <1>5, OlderCapped DEF RuleInv, GateKnown, AgesCapped
<1>10. \A m : JudgedAt(m)' = JudgedAt(m) /\ GatedAt' = GatedAt /\ AnomalousRow(m)' = AnomalousRow(m)
  BY <1>4, <1>5, SameHistory
<1>11. WarmUp'
  BY <1>1, <1>6, <1>10 DEF RuleInv, WarmUp
<1>12. Streaks'
  <2> SUFFICES ASSUME NEW m \in Metrics PROVE StreakTells(m)'
    BY DEF Streaks
  <2> DEFINE row == AnomalousRow(m)
             since == ewma[m].since
  <2>1. AnomalousRow(m)' = row /\ row \subseteq DOMAIN past
    BY <1>10 DEF AnomalousRow, JudgedAt
  <2>2. StreakTells(m)
    BY DEF RuleInv, Streaks
  <2>3. ASSUME NEW i \in row
        PROVE  /\ Waited(i) \in Nat /\ Waited(i) <= SustainS /\ Waited(i) # None
               /\ Waited(i)' = Older(Waited(i), SustainS)
    <3>1. past[i].age \in Nat /\ past[i].age <= AgeCap /\ past'[i].age = Older(past[i].age, AgeCap)
      BY <1>3, <1>4, <2>1
    <3>2. SustainS \in Nat
      BY RulesAssumption
    <3> DEFINE a == past[i].age
    <3>3. a \in Nat /\ a <= AgeCap
      BY <3>1
    <3>4. Waited(i) = MinOf(a, SustainS)
      BY DEF Waited
    <3>5. Waited(i)' = MinOf(Older(a, AgeCap), SustainS)
      BY <3>1 DEF Waited
    <3> HIDE DEF a
    <3>6. MinOf(a, SustainS) \in Nat /\ MinOf(a, SustainS) <= SustainS
      BY <3>2, <3>3, MinOfIs
    <3>7. MinOf(Older(a, AgeCap), SustainS) = Older(MinOf(a, SustainS), SustainS)
      BY <3>3, OlderCapped
    <3>8. QED
      BY <3>4, <3>5, <3>6, <3>7, RulesAssumption
  <2>4. ewma'[m].streak = MinOf(Cardinality(row), Sustain) /\ ewma'[m].since = Older(since, SustainS)
    BY <1>6, <2>2 DEF StreakTells
  <2>5. CASE since = None
    BY <2>1, <2>2, <2>4, <2>5 DEF StreakTells, Older
  <2>6. CASE since # None
    <3>1. PICK i \in row : Waited(i) = since
      BY <2>2, <2>6 DEF StreakTells
    <3>2. since \in Nat /\ since <= SustainS /\ SustainS \in Nat
      BY <2>3, <3>1, RulesAssumption
    <3>3. Waited(i)' = ewma'[m].since
      BY <2>3, <2>4, <3>1
    <3>4. ASSUME NEW j \in row PROVE Waited(j)' <= ewma'[m].since
      <4>1. Waited(j) <= since /\ Waited(j) \in Nat /\ Waited(j) # None
        BY <2>2, <2>3, <2>6 DEF StreakTells
      <4> DEFINE w == Waited(j)
      <4>2. Waited(j)' = Older(w, SustainS)
        BY <2>3
      <4> HIDE DEF w, since
      <4>3. Older(w, SustainS) <= Older(since, SustainS)
        BY <2>6, <3>2, <4>1 DEF Older, w
      <4>4. QED
        BY <2>4, <4>2, <4>3
    <3>5. ewma'[m].since # None
      BY <2>4, <2>6, <3>2, RulesAssumption DEF Older
    <3>6. QED
      BY <2>1, <2>4, <3>3, <3>4, <3>5 DEF StreakTells
  <2>7. QED
    BY <2>5, <2>6
<1>13. Verdict'
  <2> SUFFICES ASSUME Evaluated' PROVE FALSE
    BY DEF Verdict
  <2>1. past' # <<>> /\ LastSample'.age = 0
    BY DEF Evaluated
  <2>2. Len(past') \in DOMAIN past'
    BY <1>5, <2>1, EmptySeq
  <2>3. past'[Len(past')].age # 0
    BY <1>3, <1>4, <1>5, <2>2, OlderCapped
  <2>4. QED
    BY <2>1, <2>3 DEF LastSample
<1>14. QED
  BY <1>7, <1>8, <1>9, <1>11, <1>12, <1>13 DEF RuleInv

\* What a sample leaves in the history.
Recording(s) ==
    [age |-> 0, sample |-> s, rated |-> rules.rate,
     gated |-> IF rules.anomaly.enabled THEN rules.anomaly.gated ELSE None,
     judged |-> JudgedMetrics]

LEMMA RecordingType ==
    ASSUME TypeOK, NEW s \in Samples
    PROVE  /\ Recording(s) \in PastRec /\ Recording(s).age = 0 /\ Recording(s).sample = s
           /\ Recording(s).judged = JudgedMetrics /\ JudgedMetrics \in SUBSET Metrics
           /\ Recording(s).gated # None <=> rules.anomaly.enabled
           /\ JudgedMetrics # {} => rules.anomaly.enabled
           /\ rules.anomaly.enabled => Recording(s).gated = rules.anomaly.gated
<1>1. JudgedMetrics \in SUBSET Metrics /\ (JudgedMetrics # {} => rules.anomaly.enabled)
  BY DEF TypeOK, JudgedMetrics
<1>2. rules.anomaly.gated \in SUBSET Metrics /\ rules.anomaly.gated # None /\ rules.rate \in SUBSET Metrics
  BY RulesAssumption DEF TypeOK
<1> DEFINE gated == IF rules.anomaly.enabled THEN rules.anomaly.gated ELSE None
<1>3. /\ gated \in (SUBSET Metrics) \cup {None} /\ (gated # None <=> rules.anomaly.enabled)
      /\ (rules.anomaly.enabled => gated = rules.anomaly.gated)
  BY <1>2
<1>4. Recording(s) = [age |-> 0, sample |-> s, rated |-> rules.rate, gated |-> gated, judged |-> JudgedMetrics]
  BY DEF Recording
<1> HIDE DEF gated
<1>5. QED
  BY <1>1, <1>2, <1>3, <1>4 DEF PastRec

\* The averages after a sample.
LEMMA JudgedIs ==
    ASSUME TypeOK, NEW s \in Samples, NEW m \in Metrics
    PROVE  /\ Judged(m, s) \in EwmaRec
           /\ Judged(m, s).n = MinOf(ewma[m].n + 1, Warmup)
           /\ Judged(m, s).streak = (IF Hot(m, s) THEN MinOf(ewma[m].streak + 1, Sustain) ELSE 0)
           /\ Judged(m, s).since =
                (IF ~Hot(m, s) THEN None ELSE IF ewma[m].since = None THEN 0 ELSE ewma[m].since)
<1>1. ewma[m] \in EwmaRec /\ Warmup \in Nat /\ Sustain \in Nat
  BY RulesAssumption DEF TypeOK
<1>2. ewma[m].n + 1 \in Nat /\ ewma[m].streak + 1 \in Nat /\ ewma[m].since \in Nat \cup {None}
  BY <1>1 DEF EwmaRec
<1>3. MinOf(ewma[m].n + 1, Warmup) \in Nat /\ MinOf(ewma[m].streak + 1, Sustain) \in Nat
  BY <1>1, <1>2, MinOfIs
<1>4. QED
  BY <1>2, <1>3 DEF Judged, EwmaRec

\* on_telemetry: what it does to the state the invariant is about.
LEMMA TelemetryIs ==
    ASSUME NEW s, OnTelemetry(s)
    PROVE  /\ cfgCache' = ConfigFor /\ (hwCache' = HwFor \/ hwCache' = hwCache)
           /\ ewma' = [m \in Metrics |-> IF m \in JudgedMetrics THEN Judged(m, s) ELSE ewma[m]]
           /\ gateN' = (IF rules.anomaly.enabled THEN MinOf(gateN + 1, Warmup) ELSE gateN)
           /\ past' = Append(past, Recording(s))
           /\ fired' = ThresholdsTrue(s.value, ConfigFor, HwFor) \cup FlagsTrue(s.flags)
                         \cup RatesTrue(hist') \cup AnomaliesTrue(ewma') \cup CommTrue(s.loss)
           /\ UNCHANGED <<rules, configs, hw, pushes, hwFresh>>
BY DEF OnTelemetry, Recording

\* The counters of the warm-up stop at Warmup and tell whether it is over.
LEMMA HotIsAnomalous ==
    ASSUME RuleInv, NEW s \in Samples, OnTelemetry(s), NEW m \in JudgedMetrics,
           NEW CONSTANT new, new = Len(past) + 1
    PROVE  AnomalousAt(new, m)' <=> Hot(m, s)
<1> DEFINE x == Recording(s)
<1>1. /\ past \in Seq(PastRec) /\ TypeOK /\ Warmup \in Nat
  BY RulesAssumption DEF RuleInv, TypeOK
<1>2. /\ x \in PastRec /\ m \in x.judged /\ x.sample = s /\ m \in Metrics /\ x.gated = rules.anomaly.gated
      /\ past' = Append(past, x)
  BY <1>1, RecordingType, TelemetryIs
<1> HIDE DEF x
<1>3. AnomalousAt(new, m)' <=>
             /\ m \in s.far
             /\ Cardinality(JudgedAt(m)) >= Warmup
             /\ ~(s.moving /\ m \in rules.anomaly.gated /\ Cardinality(GatedAt) >= Warmup)
  BY <1>1, <1>2, NewVerdict
<1>4. /\ ewma[m].n = MinOf(Cardinality(JudgedAt(m)), Warmup) /\ gateN = MinOf(Cardinality(GatedAt), Warmup)
      /\ Cardinality(JudgedAt(m)) \in Nat /\ Cardinality(GatedAt) \in Nat
  BY <1>1, <1>2, HistoryFinite DEF RuleInv, WarmUp
<1>5. (ewma[m].n >= Warmup <=> Cardinality(JudgedAt(m)) >= Warmup)
      /\ (gateN >= Warmup <=> Cardinality(GatedAt) >= Warmup)
  <2> DEFINE judged == Cardinality(JudgedAt(m))
             gated == Cardinality(GatedAt)
  <2>1. /\ ewma[m].n = MinOf(judged, Warmup) /\ gateN = MinOf(gated, Warmup)
        /\ judged \in Nat /\ gated \in Nat
    BY <1>4
  <2> HIDE DEF judged, gated
  <2>2. (MinOf(judged, Warmup) >= Warmup <=> judged >= Warmup) /\ (MinOf(gated, Warmup) >= Warmup <=> gated >= Warmup)
    BY <1>1, <2>1, MinOfIs
  <2>3. QED
    BY <2>1, <2>2, Zenon DEF judged, gated
<1>6. QED
  BY <1>3, <1>5, Zenon DEF Hot

LEMMA OnTelemetryStep == ASSUME RuleInv, NEW s \in Samples, OnTelemetry(s) PROVE RuleInv'
<1> DEFINE x == Recording(s)
<1>1. TypeOK /\ past \in Seq(PastRec) /\ Warmup \in Nat /\ Sustain \in Nat /\ SustainS \in Nat
  BY RulesAssumption DEF RuleInv, TypeOK
<1>2. /\ cfgCache' = ConfigFor /\ (hwCache' = HwFor \/ hwCache' = hwCache)
      /\ ewma' = [m \in Metrics |-> IF m \in JudgedMetrics THEN Judged(m, s) ELSE ewma[m]]
      /\ gateN' = (IF rules.anomaly.enabled THEN MinOf(gateN + 1, Warmup) ELSE gateN)
      /\ past' = Append(past, x)
      /\ UNCHANGED <<rules, configs, hw, pushes, hwFresh>>
  BY TelemetryIs
<1>3. /\ x \in PastRec /\ x.age = 0 /\ x.judged = JudgedMetrics /\ JudgedMetrics \in SUBSET Metrics
      /\ (x.gated # None <=> rules.anomaly.enabled) /\ (JudgedMetrics # {} => rules.anomaly.enabled)
  BY <1>1, RecordingType
<1> HIDE DEF x
<1>4. PICK new : new = Len(past) + 1
  OBVIOUS
<1>5. /\ Len(past) \in Nat /\ DOMAIN past = 1 .. Len(past) /\ past' \in Seq(PastRec) /\ Len(past') = new
      /\ DOMAIN past' = DOMAIN past \cup {new} /\ new \notin DOMAIN past
      /\ past'[new] = x /\ \A i \in DOMAIN past : past'[i] = past[i]
  BY <1>1, <1>2, <1>3, <1>4, Recorded
<1>6. gateN' \in Nat
  <2>1. gateN \in Nat /\ gateN + 1 \in Nat
    BY <1>1 DEF TypeOK
  <2>2. QED
    BY <1>1, <1>2, <2>1, MinOfIs
<1>7. ewma' \in [Metrics -> EwmaRec]
  <2>1. \A m \in Metrics : Judged(m, s) \in EwmaRec /\ ewma[m] \in EwmaRec
    BY <1>1, JudgedIs DEF TypeOK
  <2>2. QED
    BY <1>2, <2>1
<1>8. TypeOK'
  BY <1>1, <1>2, <1>5, <1>6, <1>7 DEF TypeOK
<1>9. CachesFollow'
  BY <1>2 DEF RuleInv, CachesFollow, ConfigFor, HwFor, StoredConfig
<1>10. GateKnown'
  BY <1>3, <1>5 DEF RuleInv, GateKnown
<1>11. AgesCapped'
  <2>1. 0 <= AgeCap
    BY RulesAssumption DEF AgeCap
  <2>2. QED
    BY <1>3, <1>5, <2>1 DEF RuleInv, AgesCapped
<1>12. WarmUp'
  <2>1. gateN' = MinOf(Cardinality(GatedAt'), Warmup)
    <3>1. /\ IsFiniteSet(GatedAt) /\ Cardinality(GatedAt) \in Nat /\ gateN = MinOf(Cardinality(GatedAt), Warmup)
      BY <1>1, HistoryFinite DEF RuleInv, WarmUp
    <3>2. /\ GatedAt' = (IF x.gated # None THEN GatedAt \cup {new} ELSE GatedAt)
          /\ new \notin GatedAt
      BY <1>1, <1>2, <1>3, <1>4, JudgedExtends
    <3>3. CASE rules.anomaly.enabled
      <4>1. GatedAt' = GatedAt \cup {new} /\ gateN' = MinOf(gateN + 1, Warmup)
        BY <1>2, <1>3, <3>2, <3>3
      <4>2. Cardinality(GatedAt \cup {new}) = Cardinality(GatedAt) + 1
        BY <3>1, <3>2, FS_AddElement
      <4>3. QED
        BY <1>1, <3>1, <4>1, <4>2, MinOfIs
    <3>4. CASE ~rules.anomaly.enabled
      BY <1>2, <1>3, <3>1, <3>2, <3>4
    <3>5. QED
      BY <3>3, <3>4
  <2>2. ASSUME NEW m \in Metrics PROVE ewma'[m].n = MinOf(Cardinality(JudgedAt(m)'), Warmup)
    <3>1. /\ IsFiniteSet(JudgedAt(m)) /\ Cardinality(JudgedAt(m)) \in Nat
          /\ ewma[m].n = MinOf(Cardinality(JudgedAt(m)), Warmup)
      BY <1>1, HistoryFinite DEF RuleInv, WarmUp
    <3>2. /\ JudgedAt(m)' = (IF m \in x.judged THEN JudgedAt(m) \cup {new} ELSE JudgedAt(m))
          /\ new \notin JudgedAt(m)
      BY <1>1, <1>2, <1>3, <1>4, JudgedExtends
    <3>3. CASE m \in JudgedMetrics
      <4>1. JudgedAt(m)' = JudgedAt(m) \cup {new} /\ ewma'[m].n = MinOf(ewma[m].n + 1, Warmup)
        BY <1>1, <1>2, <1>3, <3>2, <3>3, JudgedIs
      <4>2. Cardinality(JudgedAt(m) \cup {new}) = Cardinality(JudgedAt(m)) + 1
        BY <3>1, <3>2, FS_AddElement
      <4>3. QED
        BY <1>1, <3>1, <4>1, <4>2, MinOfIs
    <3>4. CASE m \notin JudgedMetrics
      BY <1>2, <1>3, <3>1, <3>2, <3>4
    <3>5. QED
      BY <3>3, <3>4
  <2>3. QED
    BY <2>1, <2>2 DEF WarmUp
<1>13. Streaks'
  <2> SUFFICES ASSUME NEW m \in Metrics PROVE StreakTells(m)'
    BY DEF Streaks
  <2> DEFINE row == AnomalousRow(m)
             since == ewma[m].since
  <2>1. StreakTells(m) /\ row \subseteq DOMAIN past /\ since \in Nat \cup {None}
    BY <1>1 DEF RuleInv, Streaks, TypeOK, EwmaRec, AnomalousRow, JudgedAt
  <2>2. /\ AnomalousRow(m)' = (IF m \notin x.judged THEN row
                               ELSE IF AnomalousAt(new, m)' THEN row \cup {new} ELSE {})
        /\ new \notin row
    BY <1>1, <1>2, <1>3, <1>4, RowExtends
  <2>3. /\ \A i \in row : Waited(i)' = Waited(i)
        /\ Waited(new)' = 0
    BY <1>1, <1>3, <1>5, <2>1, MinOfIs DEF Waited
  <2>4. CASE m \notin JudgedMetrics
    <3>1. AnomalousRow(m)' = row /\ ewma'[m] = ewma[m]
      BY <1>2, <1>3, <2>2, <2>4
    <3>2. QED
      BY <2>1, <2>3, <3>1 DEF StreakTells
  <2>5. CASE m \in JudgedMetrics /\ ~Hot(m, s)
    <3>1. AnomalousRow(m)' = {}
      BY <1>3, <1>4, <2>2, <2>5, HotIsAnomalous
    <3>2. ewma'[m].streak = 0 /\ ewma'[m].since = None
      BY <1>1, <1>2, <2>5, JudgedIs
    <3>3. MinOf(Cardinality({}), Sustain) = 0
      BY <1>1, FS_EmptySet, MinOfIs
    <3>4. QED
      BY <3>1, <3>2, <3>3 DEF StreakTells
  <2>6. CASE m \in JudgedMetrics /\ Hot(m, s)
    <3>1. AnomalousRow(m)' = row \cup {new}
      BY <1>3, <1>4, <2>2, <2>6, HotIsAnomalous
    <3>2. /\ ewma'[m].streak = MinOf(ewma[m].streak + 1, Sustain)
          /\ ewma'[m].since = (IF since = None THEN 0 ELSE since)
      BY <1>1, <1>2, <2>6, JudgedIs
    <3>3. ewma'[m].streak = MinOf(Cardinality(row \cup {new}), Sustain)
      <4>1. /\ IsFiniteSet(row) /\ Cardinality(row) \in Nat /\ ewma[m].streak = MinOf(Cardinality(row), Sustain)
        BY <1>1, <2>1, HistoryFinite DEF StreakTells
      <4>2. Cardinality(row \cup {new}) = Cardinality(row) + 1
        BY <2>2, <4>1, FS_AddElement
      <4> HIDE DEF row
      <4>3. QED
        BY <1>1, <3>2, <4>1, <4>2, MinOfIs
    <3>4. ewma'[m].since # None
      BY <2>1, <3>2, RulesAssumption
    <3>5. \E i \in row \cup {new} : Waited(i)' = ewma'[m].since
      BY <2>1, <2>3, <3>2 DEF StreakTells
    <3>6. \A i \in row \cup {new} : Waited(i)' <= ewma'[m].since
      <4>1. CASE since = None
        BY <2>1, <2>3, <3>2, <4>1 DEF StreakTells
      <4>2. CASE since # None
        BY <2>1, <2>3, <3>2, <4>2 DEF StreakTells
      <4>3. QED
        BY <4>1, <4>2
    <3>7. QED
      BY <3>1, <3>3, <3>4, <3>5, <3>6 DEF StreakTells
  <2>7. QED
    BY <2>4, <2>5, <2>6
<1>14. Verdict'
  <2>1. LastSample' = x
    BY <1>5 DEF LastSample
  <2> SUFFICES ASSUME NEW m \in JudgedMetrics
               PROVE  <<"anomaly", m>> \in fired' <=> Sustained(ewma'[m])
    BY <1>3, <2>1 DEF Verdict, Sustained
  <2>2. fired' = ThresholdsTrue(s.value, ConfigFor, HwFor) \cup FlagsTrue(s.flags)
                   \cup RatesTrue(hist') \cup AnomaliesTrue(ewma') \cup CommTrue(s.loss)
    BY TelemetryIs
  <2>3. /\ <<"anomaly", m>> \notin ThresholdsTrue(s.value, ConfigFor, HwFor)
        /\ <<"anomaly", m>> \notin FlagsTrue(s.flags)
        /\ <<"anomaly", m>> \notin RatesTrue(hist')
        /\ <<"anomaly", m>> \notin CommTrue(s.loss)
    BY DEF ThresholdsTrue, FlagsTrue, RatesTrue, CommTrue
  <2>4. <<"anomaly", m>> \in AnomaliesTrue(ewma') <=> Sustained(ewma'[m])
    BY DEF AnomaliesTrue
  <2>5. QED
    BY <2>2, <2>3, <2>4
<1>15. QED
  BY <1>8, <1>9, <1>10, <1>11, <1>12, <1>13, <1>14 DEF RuleInv

LEMMA RuleKept == RuleInv /\ [Next]_vars => RuleInv'
<1> SUFFICES ASSUME RuleInv, [Next]_vars PROVE RuleInv'
  OBVIOUS
<1>1. ASSUME NEW s \in Samples, OnTelemetry(s) PROVE RuleInv'
  BY <1>1, OnTelemetryStep
<1>2. ASSUME NEW body \in Bodies, SetRules(body) PROVE RuleInv'
  BY <1>2, SetRulesStep
<1>3. ASSUME NEW cfg \in Configs, PutConfig(cfg) PROVE RuleInv'
  BY <1>3, PutConfigStep
<1>4. CASE PushDone
  <2>1. /\ pushes' \in Nat /\ InvalidateConfig
        /\ UNCHANGED <<rules, configs, hw, hist, ewma, gateN, fired, past>>
    BY <1>4 DEF PushDone, RuleInv, TypeOK
  <2>2. QED
    BY <2>1, InvalidateStep
<1>5. ASSUME NEW model \in Models, NEW behind \in BOOLEAN, Hello(model, behind) PROVE RuleInv'
  BY <1>5, HelloStep
<1>6. CASE ConfigAck
  <2>1. /\ pushes' \in Nat /\ InvalidateConfig
        /\ UNCHANGED <<rules, configs, hw, hist, ewma, gateN, fired, past>>
    BY <1>6 DEF ConfigAck, RuleInv, TypeOK
  <2>2. QED
    BY <2>1, InvalidateStep
<1>7. CASE PassTime
  BY <1>7, PassTimeStep
<1>8. CASE UNCHANGED vars
  <2>1. UNCHANGED <<rules, configs, cfgCache, hw, hwCache, pushes, ewma, gateN, fired, past, hwFresh>>
    BY <1>8 DEF vars
  <2>2. TypeOK' /\ CachesFollow'
    BY <2>1 DEF RuleInv, TypeOK, CachesFollow, StoredConfig
  <2>3. QED
    BY <2>1, <2>2, RequestStep
<1>9. QED
  BY <1>1, <1>2, <1>3, <1>4, <1>5, <1>6, <1>7, <1>8 DEF Next

\* The inductive invariant holds however telemetry, requests, acks and time interleave.
THEOREM RuleInvariant == Spec => []RuleInv
<1>1. QED
  BY RuleStart, RuleKept, PTL DEF Spec

-----------------------------------------------------------------------------
(* The properties.                                                         *)

\* Every variable keeps its type: PUT rules, whatever it leaves out, keeps the groups
\* that later samples are judged by well formed (_merge).
THEOREM TypeCorrect == Spec => []TypeOK
<1>1. RuleInv => TypeOK
  BY DEF RuleInv
<1>2. QED
  BY <1>1, RuleInvariant, PTL

\* An anomaly is raised exactly when the judged samples end in a row of anomalous ones
\* that is long and old enough, for every warm-up, gate, row length and age and
\* through every change of the rules (Ewma.update, on_telemetry).
THEOREM AnomaliesAreSustained == Spec => []SustainExact
<1>1. RuleInv => SustainExact
  <2> SUFFICES ASSUME RuleInv, Evaluated, NEW m \in LastSample.judged
               PROVE  (<<"anomaly", m>> \in fired) <=>
                         /\ Cardinality(AnomalousRow(m)) >= Sustain
                         /\ \E i \in AnomalousRow(m) : past[i].age >= SustainS
    BY DEF SustainExact
  <2> DEFINE row == AnomalousRow(m)
             since == ewma[m].since
  <2>1. past \in Seq(PastRec) /\ TypeOK /\ Sustain \in Nat /\ SustainS \in Nat
    BY RulesAssumption DEF RuleInv, TypeOK
  <2>2. m \in Metrics
    <3>1. Len(past) \in DOMAIN past
      BY <2>1, EmptySeq DEF Evaluated
    <3>2. past[Len(past)] \in PastRec
      BY <2>1, <3>1, ElementOfSeq
    <3>3. QED
      BY <3>2 DEF PastRec, LastSample
  <2>3. StreakTells(m) /\ since \in Nat \cup {None}
    BY <2>1, <2>2 DEF RuleInv, Streaks, TypeOK, EwmaRec
  <2>4. ASSUME NEW i \in row
        PROVE  past[i].age \in Nat /\ Waited(i) \in Nat /\ (Waited(i) >= SustainS <=> past[i].age >= SustainS)
    <3>1. i \in DOMAIN past
      BY DEF AnomalousRow, JudgedAt
    <3>2. past[i] \in PastRec
      BY <2>1, <3>1, ElementOfSeq
    <3>3. past[i].age \in Nat
      BY <3>2 DEF PastRec
    <3>4. QED
      BY <2>1, <3>3, MinOfIs DEF Waited
  <2>5. ewma[m].streak >= Sustain <=> Cardinality(row) >= Sustain
    <3>1. Cardinality(row) \in Nat /\ ewma[m].streak = MinOf(Cardinality(row), Sustain)
      BY <2>1, <2>3, HistoryFinite DEF StreakTells
    <3> DEFINE c == Cardinality(row)
    <3>2. c \in Nat /\ ewma[m].streak = MinOf(c, Sustain)
      BY <3>1
    <3> HIDE DEF c
    <3>3. MinOf(c, Sustain) >= Sustain <=> c >= Sustain
      BY <2>1, <3>2, MinOfIs
    <3>4. QED
      BY <3>2, <3>3, Zenon DEF c
  <2>6. since # None /\ since >= SustainS <=> \E i \in row : past[i].age >= SustainS
    <3>1. CASE since = None
      BY <2>3, <3>1 DEF StreakTells
    <3>2. CASE since # None
      <4>1. PICK i \in row : Waited(i) = since
        BY <2>3, <3>2 DEF StreakTells
      <4>2. \A j \in row : Waited(j) <= since
        BY <2>3, <3>2 DEF StreakTells
      <4>3. ASSUME NEW j \in row, past[j].age >= SustainS PROVE since >= SustainS
        <5>1. Waited(j) >= SustainS /\ Waited(j) \in Nat /\ since \in Nat
          BY <2>3, <2>4, <3>2, <4>3
        <5>2. QED
          BY <2>1, <4>2, <5>1
      <4>4. QED
        BY <2>4, <3>2, <4>1, <4>3
    <3>3. QED
      BY <3>1, <3>2
  <2>7. <<"anomaly", m>> \in fired <=> Sustained(ewma[m])
    BY DEF RuleInv, Verdict
  <2>8. QED
    BY <2>5, <2>6, <2>7, Zenon DEF Sustained
<1>2. QED
  BY <1>1, RuleInvariant, PTL

\* A rule without overrides asks for no model.
LEMMA ModelFreeSpec ==
    ASSUME NEW r, r.overrides = <<>>, NEW a, NEW b
    PROVE  ThresholdSpec(r, a) = ThresholdSpec(r, b)
BY DEF ThresholdSpec

\* A sample received while no push is under way is judged by the newest stored config,
\* and by the announced model unless hw_cache outlived its HELLO, however requests,
\* acks and telemetry interleaved (config_for, push_config, invalidate_config).
THEOREM NewestConfigJudges == Spec => JudgedByNewestConfig
<1> DEFINE ByNewest ==
             Len(past') > Len(past) /\ pushes = 0 =>
               \A r \in rules.thresholds : hwFresh \/ ModelFree(r.name) =>
                  (<<"threshold", r.name>> \in fired' <=>
                      <<"threshold", r.name>> \in
                          ThresholdsTrue(past'[Len(past')].sample.value, StoredConfig, hw))
<1>1. ASSUME RuleInv, NEW s \in Samples, OnTelemetry(s), pushes = 0, NEW r \in rules.thresholds,
             hwFresh \/ ModelFree(r.name)
      PROVE  <<"threshold", r.name>> \in fired' <=>
                <<"threshold", r.name>> \in ThresholdsTrue(past'[Len(past')].sample.value, StoredConfig, hw)
  <2>1. TypeOK /\ past \in Seq(PastRec)
    BY <1>1 DEF RuleInv, TypeOK
  <2>2. past'[Len(past')].sample = s
    <3>1. Recording(s) \in PastRec /\ Recording(s).sample = s /\ past' = Append(past, Recording(s))
      BY <1>1, <2>1, RecordingType, TelemetryIs
    <3>2. QED
      BY <2>1, <3>1, Recorded
  <2>3. ConfigFor = StoredConfig /\ (hwFresh => HwFor = hw)
    BY <1>1 DEF RuleInv, CachesFollow, ConfigFor, HwFor
  <2>4. <<"threshold", r.name>> \in fired' <=>
          <<"threshold", r.name>> \in ThresholdsTrue(s.value, ConfigFor, HwFor)
    <3>1. fired' = ThresholdsTrue(s.value, ConfigFor, HwFor) \cup FlagsTrue(s.flags)
                   \cup RatesTrue(hist') \cup AnomaliesTrue(ewma') \cup CommTrue(s.loss)
      BY <1>1, TelemetryIs
    <3>2. /\ <<"threshold", r.name>> \notin FlagsTrue(s.flags)
          /\ <<"threshold", r.name>> \notin RatesTrue(hist')
          /\ <<"threshold", r.name>> \notin AnomaliesTrue(ewma')
          /\ <<"threshold", r.name>> \notin CommTrue(s.loss)
      BY DEF FlagsTrue, RatesTrue, AnomaliesTrue, CommTrue
    <3>3. QED
      BY <3>1, <3>2
  <2>5. CASE hwFresh
    BY <2>2, <2>3, <2>4, <2>5
  <2>6. CASE ModelFree(r.name)
    <3> DEFINE True(q, model) ==
                 /\ q.metric \in DOMAIN s.value
                 /\ ResolveValue(ThresholdSpec(q, model), StoredConfig) # None
                 /\ Holds(s.value[q.metric], q.op, ResolveValue(ThresholdSpec(q, model), StoredConfig))
    <3>1. \A model : ThresholdsTrue(s.value, StoredConfig, model) =
             {<<"threshold", q.name>> : q \in {p \in rules.thresholds : True(p, model)}}
      BY DEF ThresholdsTrue
    <3>2. ASSUME NEW q \in rules.thresholds, q.name = r.name PROVE True(q, HwFor) <=> True(q, hw)
      <4>1. ThresholdSpec(q, HwFor) = ThresholdSpec(q, hw)
        BY <2>6, <3>2, ModelFreeSpec DEF ModelFree
      <4>2. QED
        BY <4>1
    <3> HIDE DEF True
    <3>3. \A model : <<"threshold", r.name>> \in ThresholdsTrue(s.value, StoredConfig, model) <=>
             \E q \in rules.thresholds : q.name = r.name /\ True(q, model)
      BY <3>1
    <3>4. QED
      BY <2>2, <2>3, <2>4, <3>2, <3>3
  <2>7. QED
    BY <1>1, <2>5, <2>6
<1>2. ASSUME RuleInv, [Next]_vars, Len(past') > Len(past) PROVE \E s \in Samples : OnTelemetry(s)
  <2>1. Len(past) \in Nat /\ DOMAIN past = 1 .. Len(past)
    BY <1>2 DEF RuleInv, TypeOK
  <2>2. past' # past
    BY <1>2, <2>1
  <2>3. ~PassTime
    <3> SUFFICES ASSUME PassTime PROVE FALSE
      OBVIOUS
    <3>1. RuleInv'
      BY <1>2, RuleKept
    <3>2. past' \in Seq(PastRec)
      BY <3>1 DEF RuleInv, TypeOK
    <3>3. DOMAIN past' = DOMAIN past
      BY DEF PassTime
    <3>4. Len(past') = Len(past)
      BY <2>1, <3>2, <3>3
    <3>5. QED
      BY <1>2, <2>1, <3>4
  <2>4. QED
    BY <1>2, <2>2, <2>3 DEF Next, vars, SetRules, PutConfig, PushDone, Hello, ConfigAck
<1>3. RuleInv /\ [Next]_vars => [ByNewest]_vars
  BY <1>1, <1>2
<1>4. QED
  BY <1>3, RuleInvariant, PTL DEF Spec, JudgedByNewestConfig

-----------------------------------------------------------------------------
(* Rate of change: what the pruned history still tells.                    *)

HistRec == [age : Nat, x : Int]

\* The entries of the history h are samples of p that a rate rule of m saw, in their
\* order (g tells which), and all of those that are at most two windows old.
Copies(h, p, m, g) ==
    LET rated == {i \in DOMAIN p : m \in p[i].rated}
    IN  /\ g \in [DOMAIN h -> rated]
        /\ \A a, b \in DOMAIN h : a < b => g[a] < g[b]
        /\ \A a \in DOMAIN h : h[a].age = p[g[a]].age /\ h[a].x = p[g[a]].sample.value[m]
        /\ \A i \in rated : p[i].age <= 2 * Window => \E a \in DOMAIN h : g[a] = i

\* Samples are kept in the order they came in.
Ordered(p) == \A i, j \in DOMAIN p : i <= j => p[j].age <= p[i].age

HistTyped == hist \in [Metrics -> Seq(HistRec)]

Remembered == \A m \in Metrics : \E g \in [DOMAIN hist[m] -> Rated(m)] : Copies(hist[m], past, m, g)

\* The inductive invariant of the rate rules.
RateInv == HistTyped /\ Ordered(past) /\ Remembered /\ RateExact

\* A set of naturals that is not empty has a least member.
LEMMA LeastExists ==
    ASSUME NEW T \in SUBSET Nat, T # {}
    PROVE  \E least \in T : \A y \in T : least <= y
<1> DEFINE R == OpToRel(<, Nat)
<1>1. IsWellFoundedOn(R, Nat)
  BY NatLessThanWellFounded
<1>2. \A x, y \in Nat : x < y => <<x, y>> \in R
  BY DEF OpToRel
<1> HIDE DEF R
<1>3. PICK least \in T : \A y \in T : ~(<<y, least>> \in R)
  BY <1>1, WFMin
<1>4. \A y \in T : ~(y < least)
  BY <1>2, <1>3
<1>5. QED
  BY <1>4

\* The while loop finds the sample it stops at.
LEMMA FirstKeptIs ==
    ASSUME NEW h \in Seq(HistRec), h # <<>>, NEW limit \in Nat, NEW f, f = FirstKept(h, limit)
    PROVE  /\ f \in 1 .. Len(h)
           /\ f = Len(h) \/ h[f].age <= limit
           /\ \A j \in 1 .. f - 1 : h[j].age > limit
<1> DEFINE T == {i \in DOMAIN h : i = Len(h) \/ h[i].age <= limit}
<1>1. Len(h) \in Nat /\ DOMAIN h = 1 .. Len(h) /\ Len(h) \in DOMAIN h
  BY EmptySeq
<1>2. \A i \in DOMAIN h : h[i].age \in Nat
  <2>1. \A i \in DOMAIN h : h[i] \in HistRec
    BY ElementOfSeq
  <2>2. QED
    BY <2>1 DEF HistRec
<1>3. T \in SUBSET Nat /\ T # {}
  BY <1>1
<1> HIDE DEF T
<1>4. PICK least \in T : \A y \in T : least <= y
  BY <1>3, LeastExists
<1>5. least \in DOMAIN h /\ (least = Len(h) \/ h[least].age <= limit)
  BY <1>4 DEF T
<1>6. ASSUME NEW j \in 1 .. least - 1 PROVE h[j].age > limit
  <2>1. j \in DOMAIN h /\ ~(least <= j)
    BY <1>1, <1>5
  <2>2. j \notin T
    BY <1>4, <2>1
  <2>3. ~(h[j].age <= limit)
    BY <2>1, <2>2 DEF T
  <2>4. QED
    BY <1>2, <2>1, <2>3
<1>7. \E i \in DOMAIN h : (i = Len(h) \/ h[i].age <= limit) /\ \A j \in 1 .. i - 1 : h[j].age > limit
  BY <1>5, <1>6
<1>8. f \in DOMAIN h /\ (f = Len(h) \/ h[f].age <= limit) /\ \A j \in 1 .. f - 1 : h[j].age > limit
  BY <1>7 DEF FirstKept
<1>9. QED
  BY <1>1, <1>8

\* A sample that no rate rule of m sees changes no history of m.
LEMMA CopiesUnrated ==
    ASSUME NEW h, NEW p \in Seq(PastRec), NEW m, NEW g, Copies(h, p, m, g),
           NEW x \in PastRec, m \notin x.rated
    PROVE  Copies(h, Append(p, x), m, g)
<1> DEFINE p2 == Append(p, x)
           rated == {i \in DOMAIN p : m \in p[i].rated}
           rated2 == {i \in DOMAIN p2 : m \in p2[i].rated}
<1>1. /\ DOMAIN p2 = DOMAIN p \cup {Len(p) + 1} /\ p2[Len(p) + 1] = x
      /\ \A i \in DOMAIN p : p2[i] = p[i]
  <2> HIDE DEF PastRec
  <2>1. QED
    BY AppendProperties, LenProperties
<1> HIDE DEF p2
<1>2. rated2 = rated
  BY <1>1
<1>3. /\ g \in [DOMAIN h -> rated]
      /\ \A a, b \in DOMAIN h : a < b => g[a] < g[b]
      /\ \A a \in DOMAIN h : h[a].age = p[g[a]].age /\ h[a].x = p[g[a]].sample.value[m]
      /\ \A i \in rated : p[i].age <= 2 * Window => \E a \in DOMAIN h : g[a] = i
  BY DEF Copies
<1>4. \A a \in DOMAIN h : g[a] \in DOMAIN p /\ p2[g[a]] = p[g[a]]
  BY <1>1, <1>3
<1>5. \A i \in rated : p2[i] = p[i]
  BY <1>1
<1>6. Copies(h, p2, m, g)
  <2> HIDE DEF rated
  <2>1. g \in [DOMAIN h -> rated2]
    BY <1>2, <1>3
  <2>2. \A a \in DOMAIN h : h[a].age = p2[g[a]].age /\ h[a].x = p2[g[a]].sample.value[m]
    BY <1>3, <1>4
  <2>3. \A i \in rated2 : p2[i].age <= 2 * Window => \E a \in DOMAIN h : g[a] = i
    BY <1>2, <1>3, <1>5
  <2> USE DEF rated
  <2>4. QED
    BY <1>3, <2>1, <2>2, <2>3, Zenon DEF Copies
<1>7. QED
  BY <1>6 DEF p2

\* A sample that the rate rule of m sees is added to both.
LEMMA CopiesRated ==
    ASSUME NEW h \in Seq(HistRec), NEW p \in Seq(PastRec), NEW m, NEW g, Copies(h, p, m, g),
           NEW x \in PastRec, m \in x.rated, NEW e \in HistRec, e.age = x.age, e.x = x.sample.value[m]
    PROVE  \E g2 : Copies(Append(h, e), Append(p, x), m, g2)
<1> DEFINE p2 == Append(p, x)
           h2 == Append(h, e)
           rated == {i \in DOMAIN p : m \in p[i].rated}
           rated2 == {i \in DOMAIN p2 : m \in p2[i].rated}
           g2 == [a \in DOMAIN h2 |-> IF a \in DOMAIN h THEN g[a] ELSE Len(p) + 1]
<1>1. /\ DOMAIN p2 = DOMAIN p \cup {Len(p) + 1} /\ p2[Len(p) + 1] = x
      /\ \A i \in DOMAIN p : p2[i] = p[i] /\ i < Len(p) + 1
  <2> HIDE DEF PastRec
  <2>1. QED
    BY AppendProperties, LenProperties
<1>2. /\ DOMAIN h2 = DOMAIN h \cup {Len(h) + 1} /\ h2[Len(h) + 1] = e
      /\ Len(h) + 1 \notin DOMAIN h
      /\ \A a \in DOMAIN h : h2[a] = h[a] /\ a < Len(h) + 1
      /\ Len(h) \in Nat /\ DOMAIN h = 1 .. Len(h)
  <2> HIDE DEF HistRec
  <2>1. QED
    BY AppendProperties, LenProperties
<1>3. /\ g \in [DOMAIN h -> rated]
      /\ \A a, b \in DOMAIN h : a < b => g[a] < g[b]
      /\ \A a \in DOMAIN h : h[a].age = p[g[a]].age /\ h[a].x = p[g[a]].sample.value[m]
      /\ \A i \in rated : p[i].age <= 2 * Window => \E a \in DOMAIN h : g[a] = i
  BY DEF Copies
<1> HIDE DEF p2, h2
<1>4. rated2 = rated \cup {Len(p) + 1}
  BY <1>1
<1>5. /\ \A a \in DOMAIN h : g2[a] = g[a] /\ g[a] \in rated /\ g[a] \in DOMAIN p /\ a # Len(h) + 1
      /\ g2[Len(h) + 1] = Len(p) + 1
  BY <1>2, <1>3
<1>6. g2 \in [DOMAIN h2 -> rated2]
  BY <1>2, <1>4, <1>5
<1>7. ASSUME NEW a \in DOMAIN h2, NEW b \in DOMAIN h2, a < b PROVE g2[a] < g2[b]
  <2>1. a \in DOMAIN h
    BY <1>2, <1>7
  <2>2. CASE b \in DOMAIN h
    BY <1>3, <1>5, <1>7, <2>1, <2>2
  <2>3. CASE b = Len(h) + 1
    BY <1>1, <1>5, <2>1, <2>3
  <2>4. QED
    BY <1>2, <2>2, <2>3
<1>8. ASSUME NEW a \in DOMAIN h2
      PROVE  h2[a].age = p2[g2[a]].age /\ h2[a].x = p2[g2[a]].sample.value[m]
  <2>1. CASE a \in DOMAIN h
    BY <1>1, <1>2, <1>3, <1>5, <2>1
  <2>2. CASE a = Len(h) + 1
    BY <1>1, <1>2, <1>5, <2>2
  <2>3. QED
    BY <1>2, <2>1, <2>2
<1>9. ASSUME NEW i \in rated2, p2[i].age <= 2 * Window PROVE \E a \in DOMAIN h2 : g2[a] = i
  <2>1. CASE i \in rated
    <3>1. p2[i] = p[i]
      BY <1>1, <2>1
    <3>2. PICK a \in DOMAIN h : g[a] = i
      BY <1>3, <1>9, <2>1, <3>1
    <3>3. QED
      BY <1>2, <1>5, <3>2
  <2>2. CASE i = Len(p) + 1
    BY <1>2, <1>5, <2>2
  <2>3. QED
    BY <1>4, <2>1, <2>2
<1>10. Copies(h2, p2, m, g2)
  <2>1. Copies(h2, p2, m, g2) <=>
          /\ g2 \in [DOMAIN h2 -> rated2]
          /\ \A a, b \in DOMAIN h2 : a < b => g2[a] < g2[b]
          /\ \A a \in DOMAIN h2 : h2[a].age = p2[g2[a]].age /\ h2[a].x = p2[g2[a]].sample.value[m]
          /\ \A i \in rated2 : p2[i].age <= 2 * Window => \E a \in DOMAIN h2 : g2[a] = i
    BY DEF Copies
  <2> HIDE DEF g2, rated2
  <2>2. QED
    BY <1>6, <1>7, <1>8, <1>9, <2>1, Zenon
<1>11. QED
  BY <1>10 DEF h2, p2

\* Dropping entries older than two windows from the front leaves the others.
LEMMA CopiesPruned ==
    ASSUME NEW h \in Seq(HistRec), NEW p, NEW m, NEW g, Copies(h, p, m, g),
           NEW f \in 1 .. Len(h), \A j \in 1 .. f - 1 : ~(h[j].age <= 2 * Window)
    PROVE  \E g2 : Copies(SubSeq(h, f, Len(h)), p, m, g2)
<1> DEFINE h2 == SubSeq(h, f, Len(h))
           rated == {i \in DOMAIN p : m \in p[i].rated}
           g2 == [a \in DOMAIN h2 |-> g[a + f - 1]]
<1>1. /\ Len(h) \in Nat /\ DOMAIN h = 1 .. Len(h) /\ DOMAIN h2 = 1 .. (Len(h) - f + 1)
      /\ \A a \in DOMAIN h2 : a + f - 1 \in DOMAIN h /\ h2[a] = h[a + f - 1]
  <2> HIDE DEF HistRec
  <2>1. QED
    BY SubSeqProperties, LenProperties
<1>2. /\ g \in [DOMAIN h -> rated]
      /\ \A a, b \in DOMAIN h : a < b => g[a] < g[b]
      /\ \A a \in DOMAIN h : h[a].age = p[g[a]].age /\ h[a].x = p[g[a]].sample.value[m]
      /\ \A i \in rated : p[i].age <= 2 * Window => \E a \in DOMAIN h : g[a] = i
  BY DEF Copies
<1> HIDE DEF h2
<1>3. g2 \in [DOMAIN h2 -> rated]
  BY <1>1, <1>2
<1>4. ASSUME NEW a \in DOMAIN h2, NEW b \in DOMAIN h2, a < b PROVE g2[a] < g2[b]
  <2>1. a + f - 1 < b + f - 1
    BY <1>1, <1>4
  <2>2. QED
    BY <1>1, <1>2, <2>1
<1>5. ASSUME NEW a \in DOMAIN h2
      PROVE  h2[a].age = p[g2[a]].age /\ h2[a].x = p[g2[a]].sample.value[m]
  BY <1>1, <1>2
<1>6. ASSUME NEW i \in rated, p[i].age <= 2 * Window PROVE \E a \in DOMAIN h2 : g2[a] = i
  <2>1. PICK a \in DOMAIN h : g[a] = i
    BY <1>2, <1>6
  <2>2. h[a].age <= 2 * Window
    BY <1>2, <1>6, <2>1
  <2>3. a \notin 1 .. f - 1
    BY <2>2
  <2>4. a - f + 1 \in DOMAIN h2 /\ (a - f + 1) + f - 1 = a
    BY <1>1, <2>1, <2>3
  <2>5. QED
    BY <2>1, <2>4
<1>7. Copies(h2, p, m, g2)
  <2>1. Copies(h2, p, m, g2) <=>
          /\ g2 \in [DOMAIN h2 -> rated]
          /\ \A a, b \in DOMAIN h2 : a < b => g2[a] < g2[b]
          /\ \A a \in DOMAIN h2 : h2[a].age = p[g2[a]].age /\ h2[a].x = p[g2[a]].sample.value[m]
          /\ \A i \in rated : p[i].age <= 2 * Window => \E a \in DOMAIN h2 : g2[a] = i
    BY DEF Copies
  <2> HIDE DEF g2, rated
  <2>2. QED
    BY <1>3, <1>4, <1>5, <1>6, <2>1, Zenon
<1>8. QED
  BY <1>7 DEF h2

\* Samples and entries grow older together.
LEMMA CopiesOlder ==
    ASSUME NEW h, NEW h2, NEW p, NEW p2, NEW m, NEW g, Copies(h, p, m, g),
           DOMAIN h2 = DOMAIN h, DOMAIN p2 = DOMAIN p,
           \A i \in DOMAIN p : /\ p[i].age \in Nat /\ p[i].age <= AgeCap
                               /\ p2[i].age = Older(p[i].age, AgeCap)
                               /\ p2[i].rated = p[i].rated /\ p2[i].sample = p[i].sample,
           \A a \in DOMAIN h : h2[a].age = Older(h[a].age, AgeCap) /\ h2[a].x = h[a].x
    PROVE  Copies(h2, p2, m, g)
<1> DEFINE rated == {i \in DOMAIN p : m \in p[i].rated}
           rated2 == {i \in DOMAIN p2 : m \in p2[i].rated}
<1>1. rated2 = rated
  OBVIOUS
<1>2. /\ g \in [DOMAIN h -> rated]
      /\ \A a, b \in DOMAIN h : a < b => g[a] < g[b]
      /\ \A a \in DOMAIN h : h[a].age = p[g[a]].age /\ h[a].x = p[g[a]].sample.value[m]
      /\ \A i \in rated : p[i].age <= 2 * Window => \E a \in DOMAIN h : g[a] = i
  BY DEF Copies
<1>3. ASSUME NEW i \in DOMAIN p, p2[i].age <= 2 * Window PROVE p[i].age <= 2 * Window
  <2>1. AgeCap \in Nat /\ AgeCap >= 2 * Window + 1 /\ Window \in Nat
    BY RulesAssumption DEF AgeCap
  <2>2. p[i].age # None
    BY RulesAssumption
  <2>3. p2[i].age = IF p[i].age = AgeCap THEN p[i].age ELSE p[i].age + 1
    BY <2>2 DEF Older
  <2>4. QED
    BY <1>3, <2>1, <2>3
<1>4. \A a \in DOMAIN h : g[a] \in DOMAIN p
  BY <1>2
<1>5. \A a \in DOMAIN h2 : h2[a].age = p2[g[a]].age /\ h2[a].x = p2[g[a]].sample.value[m]
  BY <1>2, <1>4
<1>6. \A i \in rated2 : p2[i].age <= 2 * Window => \E a \in DOMAIN h2 : g[a] = i
  BY <1>1, <1>2, <1>3
<1>7. g \in [DOMAIN h2 -> rated2]
  BY <1>1, <1>2
<1>8. QED
  BY <1>2, <1>5, <1>6, <1>7, Zenon DEF Copies

\* What the while loop leaves: nothing older than two windows, and all that is not.
LEMMA PrunedIs ==
    ASSUME NEW h \in Seq(HistRec), h # <<>>, NEW p \in Seq(PastRec), Ordered(p),
           NEW m, NEW g, Copies(h, p, m, g), h[Len(h)].age = 0, NEW k, k = Pruned(h)
    PROVE  /\ k \in Seq(HistRec) /\ k # <<>>
           /\ k[Len(k)] = h[Len(h)]
           /\ \A a \in DOMAIN k : k[a].age <= 2 * Window
           /\ \E g2 : Copies(k, p, m, g2)
<1> DEFINE limit == 2 * Window
<1>0. limit \in Nat
  BY RulesAssumption
<1> HIDE DEF limit
<1>1. PICK f : f = FirstKept(h, limit)
  OBVIOUS
<1>2. /\ f \in 1 .. Len(h)
      /\ f = Len(h) \/ h[f].age <= limit
      /\ \A j \in 1 .. f - 1 : h[j].age > limit
  BY <1>0, <1>1, FirstKeptIs
<1>3. k = SubSeq(h, f, Len(h))
  BY <1>1 DEF Pruned, limit
<1>4. /\ k \in Seq(HistRec) /\ Len(h) \in Nat /\ DOMAIN h = 1 .. Len(h)
      /\ Len(k) = Len(h) - f + 1 /\ DOMAIN k = 1 .. Len(k)
      /\ \A a \in DOMAIN k : a + f - 1 \in DOMAIN h /\ k[a] = h[a + f - 1]
  <2> HIDE DEF HistRec
  <2>1. QED
    BY <1>2, <1>3, SubSeqProperties, LenProperties
<1>5. k # <<>> /\ k[Len(k)] = h[Len(h)]
  <2>1. f \in Int /\ f <= Len(h) /\ f >= 1 /\ Len(k) \in Nat /\ Len(k) >= 1
    <3>1. f \in 1 .. Len(h) /\ Len(h) \in Nat /\ Len(k) = Len(h) - f + 1
      BY <1>2, <1>4, Zenon
    <3>2. QED
      BY <3>1
  <2>2. Len(k) \in DOMAIN k /\ Len(k) + f - 1 = Len(h)
    BY <1>4, <2>1
  <2>3. QED
    BY <1>4, <2>1, <2>2
<1>6. \A a \in DOMAIN h : h[a].age \in Nat
  <2>1. \A a \in DOMAIN h : h[a] \in HistRec
    BY ElementOfSeq
  <2>2. QED
    BY <2>1 DEF HistRec
<1>7. ASSUME NEW a \in DOMAIN k PROVE k[a].age <= limit
  <2>1. PICK b : b = a + f - 1
    OBVIOUS
  <2>2. b \in DOMAIN h /\ f \in DOMAIN h /\ k[a] = h[b] /\ f <= b
    <3>1. b \in DOMAIN h /\ k[a] = h[b] /\ f \in DOMAIN h
      BY <1>2, <1>4, <2>1
    <3>2. a \in Int /\ a >= 1 /\ f \in Int
      <4>1. a \in 1 .. Len(k) /\ f \in 1 .. Len(h)
        BY <1>2, <1>4, Zenon
      <4>2. QED
        BY <4>1
    <3>3. QED
      BY <2>1, <3>1, <3>2
  <2>3. h[b].age <= h[f].age
    <3>1. /\ h[b].age = p[g[b]].age /\ h[f].age = p[g[f]].age
          /\ g[b] \in DOMAIN p /\ g[f] \in DOMAIN p
          /\ f < b => g[f] < g[b]
      BY <2>2 DEF Copies
    <3>2. g[f] <= g[b]
      <4>1. DOMAIN p \subseteq Nat
        <5> HIDE DEF PastRec
        <5>1. QED
          BY LenProperties
      <4>2. CASE f = b
        BY <3>1, <4>1, <4>2
      <4>3. CASE f < b
        BY <3>1, <4>1, <4>3
      <4>4. QED
        BY <1>4, <2>2, <4>2, <4>3
    <3>3. QED
      BY <3>1, <3>2 DEF Ordered
  <2>4. h[f].age <= limit
    BY <1>0, <1>2
  <2>5. QED
    BY <1>0, <1>6, <2>2, <2>3, <2>4
<1>8. \E g2 : Copies(k, p, m, g2)
  <2>1. \A j \in 1 .. f - 1 : ~(h[j].age <= 2 * Window)
    <3>1. \A j \in 1 .. f - 1 : j \in DOMAIN h
      BY <1>2, <1>4
    <3>2. \A j \in 1 .. f - 1 : ~(h[j].age <= limit)
      BY <1>0, <1>2, <1>6, <3>1
    <3>3. QED
      BY <3>2 DEF limit
  <2>2. QED
    BY <1>2, <1>3, <2>1, CopiesPruned
<1>9. QED
  BY <1>4, <1>5, <1>7, <1>8 DEF limit

\* Over such a history the rule decides as over all samples.
LEMMA RateVerdict ==
    ASSUME NEW h \in Seq(HistRec), NEW p \in Seq(PastRec), NEW m, NEW g, Copies(h, p, m, g),
           \A a \in DOMAIN h : h[a].age <= 2 * Window
    PROVE  LET back == {i \in {j \in DOMAIN p : m \in p[j].rated} : p[i].age \in Window .. 2 * Window}
           IN  RateTrue(h) <=>
                 \E i \in back : /\ \A j \in back : i <= j
                                 /\ h[Len(h)].x - p[i].sample.value[m] > MaxRate * p[i].age
<1> DEFINE rated == {j \in DOMAIN p : m \in p[j].rated}
           back == {i \in rated : p[i].age \in Window .. 2 * Window}
<1>1. /\ g \in [DOMAIN h -> rated]
      /\ \A a, b \in DOMAIN h : a < b => g[a] < g[b]
      /\ \A a \in DOMAIN h : h[a].age = p[g[a]].age /\ h[a].x = p[g[a]].sample.value[m]
      /\ \A i \in rated : p[i].age <= 2 * Window => \E a \in DOMAIN h : g[a] = i
  BY DEF Copies
<1>2. DOMAIN p \subseteq Nat /\ DOMAIN h = 1 .. Len(h) /\ Len(h) \in Nat
  <2> HIDE DEF PastRec, HistRec
  <2>1. QED
    BY LenProperties
<1>3. \A a \in DOMAIN h : h[a].age \in Nat
  <2>1. \A a \in DOMAIN h : h[a] \in HistRec
    BY ElementOfSeq
  <2>2. QED
    BY <2>1 DEF HistRec
<1>4. Window \in Nat
  BY RulesAssumption
<1>5. \A a \in DOMAIN h : g[a] \in rated /\ g[a] \in Nat
  BY <1>1, <1>2
<1>6. \A a \in DOMAIN h : g[a] \in back <=> h[a].age >= Window
  BY <1>1, <1>3, <1>4, <1>5
<1>7. \A i \in back : \E a \in DOMAIN h : g[a] = i
  <2>1. \A i \in back : i \in rated /\ p[i].age <= 2 * Window
    BY <1>4
  <2> HIDE DEF rated, back
  <2>2. QED
    BY <1>1, <2>1
<1> DEFINE Steep(i) == h[Len(h)].x - p[i].sample.value[m] > MaxRate * p[i].age
           SteepAt(a) == h[Len(h)].x - h[a].x > MaxRate * h[a].age
<1>8. \A a \in DOMAIN h : Steep(g[a]) <=> SteepAt(a)
  BY <1>1
<1> HIDE DEF rated, back, Steep, SteepAt
<1>9. ASSUME NEW a \in DOMAIN h
      PROVE  (h[a].age >= Window /\ \A j \in 1 .. a - 1 : h[j].age < Window) <=>
                (g[a] \in back /\ \A j \in back : g[a] <= j)
  <2>1. ASSUME h[a].age >= Window, \A j \in 1 .. a - 1 : h[j].age < Window, NEW j \in back
        PROVE  g[a] <= j
    <3>1. PICK b \in DOMAIN h : g[b] = j
      BY <1>7
    <3>2. h[b].age >= Window
      BY <1>6, <3>1
    <3>3. ~(b < a)
      <4>1. SUFFICES ASSUME b < a PROVE FALSE
        OBVIOUS
      <4>2. b \in 1 .. a - 1
        BY <1>2, <4>1
      <4>3. h[b].age < Window
        BY <2>1, <4>2
      <4>4. QED
        BY <1>3, <1>4, <3>2, <4>3
    <3>4. CASE a = b
      BY <1>5, <3>1, <3>4
    <3>5. CASE a < b
      BY <1>1, <1>5, <3>1, <3>5
    <3>6. QED
      BY <1>2, <3>3, <3>4, <3>5
  <2>2. ASSUME g[a] \in back, \A j \in back : g[a] <= j, NEW j \in 1 .. a - 1
        PROVE  h[j].age < Window
    <3>1. j \in DOMAIN h /\ j < a
      BY <1>2
    <3>2. g[j] < g[a] /\ g[j] \in Nat /\ g[a] \in Nat
      BY <1>1, <1>5, <3>1
    <3>3. g[j] \notin back
      BY <2>2, <3>2
    <3>4. ~(h[j].age >= Window)
      BY <1>6, <3>1, <3>3
    <3>5. QED
      BY <1>3, <1>4, <3>1, <3>4
  <2>3. QED
    BY <1>6, <2>1, <2>2
<1>10. RateTrue(h) <=>
         \E a \in DOMAIN h : (h[a].age >= Window /\ \A j \in 1 .. a - 1 : h[j].age < Window) /\ SteepAt(a)
  BY DEF RateTrue, SteepAt
<1>11. RateTrue(h) <=> \E i \in back : (\A j \in back : i <= j) /\ Steep(i)
  <2>1. RateTrue(h) <=> \E a \in DOMAIN h : (g[a] \in back /\ \A j \in back : g[a] <= j) /\ Steep(g[a])
    BY <1>8, <1>9, <1>10, Zenon
  <2>2. QED
    BY <1>7, <2>1, Zenon
<1>12. QED
  BY <1>11, Zenon DEF back, rated, Steep

LEMMA CopiesBy ==
    ASSUME NEW m, NEW g, Copies(hist[m], past, m, g)
    PROVE  g \in [DOMAIN hist[m] -> Rated(m)]
BY DEF Copies, Rated

LEMMA RateStart == Init => RateInv
<1> SUFFICES ASSUME Init PROVE RateInv
  OBVIOUS
<1>1. past = <<>> /\ DOMAIN past = {} /\ hist = [m \in Metrics |-> <<>>]
  BY DEF Init
<1>2. HistTyped
  BY <1>1, EmptySeq DEF HistTyped
<1>3. Ordered(past)
  BY <1>1 DEF Ordered
<1>4. Remembered
  <2> SUFFICES ASSUME NEW m \in Metrics
               PROVE  \E g \in [DOMAIN hist[m] -> Rated(m)] : Copies(hist[m], past, m, g)
    BY DEF Remembered
  <2>1. DOMAIN hist[m] = {} /\ {i \in DOMAIN past : m \in past[i].rated} = {}
    BY <1>1
  <2> DEFINE none == [a \in DOMAIN hist[m] |-> a]
  <2>2. none \in [DOMAIN hist[m] -> {i \in DOMAIN past : m \in past[i].rated}]
    BY <2>1
  <2>3. Copies(hist[m], past, m, none)
    BY <2>1, <2>2 DEF Copies
  <2>4. QED
    BY <2>3, CopiesBy
<1>5. RateExact
  BY <1>1 DEF RateExact, Evaluated
<1>6. QED
  BY <1>2, <1>3, <1>4, <1>5 DEF RateInv

\* Requests leave the history alone.
LEMMA RateQuiet == ASSUME RateInv, UNCHANGED <<hist, fired, past>> PROVE RateInv'
<1>1. HistTyped' /\ Ordered(past)'
  BY DEF RateInv, HistTyped, Ordered
<1>2. Remembered'
  BY DEF RateInv, Remembered, Rated
<1>3. RateExact'
  BY DEF RateInv, RateExact, Evaluated, LastSample, Rated
<1>4. QED
  BY <1>1, <1>2, <1>3 DEF RateInv

LEMMA RatePassTime == ASSUME RuleInv, RateInv, PassTime PROVE RateInv'
<1>1. /\ hist' = [m \in Metrics |-> [a \in DOMAIN hist[m] |-> [hist[m][a] EXCEPT !.age = Older(@, AgeCap)]]]
      /\ past' = [i \in DOMAIN past |-> [past[i] EXCEPT !.age = Older(@, AgeCap)]]
  BY DEF PassTime
<1>2. /\ past \in Seq(PastRec) /\ AgesCapped /\ hist \in [Metrics -> Seq(HistRec)]
      /\ Len(past) \in Nat /\ DOMAIN past = 1 .. Len(past) /\ Ordered(past)
  BY DEF RuleInv, TypeOK, RateInv, HistTyped
<1>3. DOMAIN past' = DOMAIN past
  BY <1>1
<1>4. \A i \in DOMAIN past : past[i] \in PastRec
  BY <1>2, ElementOfSeq
<1>5. ASSUME NEW i \in DOMAIN past
      PROVE  /\ past[i].age \in Nat /\ past[i].age <= AgeCap
             /\ past'[i].age = Older(past[i].age, AgeCap)
             /\ past'[i].rated = past[i].rated /\ past'[i].sample = past[i].sample
  <2>1. past[i].age \in Nat /\ past[i].age <= AgeCap
    BY <1>2, <1>4 DEF PastRec, AgesCapped
  <2>2. past'[i] = [past[i] EXCEPT !.age = Older(past[i].age, AgeCap)]
    BY <1>1
  <2>3. QED
    BY <1>4, <2>1, <2>2 DEF PastRec
<1>6. Ordered(past)'
  <2> SUFFICES ASSUME NEW i \in DOMAIN past, NEW j \in DOMAIN past, i <= j
               PROVE  Older(past[j].age, AgeCap) <= Older(past[i].age, AgeCap)
    BY <1>3, <1>5 DEF Ordered
  <2>1. past[j].age <= past[i].age
    BY <1>2 DEF Ordered
  <2>2. past[i].age # None /\ past[j].age # None
    BY <1>5, RulesAssumption
  <2>3. AgeCap \in Nat
    BY RulesAssumption DEF AgeCap
  <2>4. QED
    BY <1>5, <2>1, <2>2, <2>3 DEF Older
<1>7. ASSUME NEW m \in Metrics
      PROVE  /\ hist'[m] \in Seq(HistRec)
             /\ \E g : Copies(hist'[m], past', m, g)
  <2>1. PICK g : Copies(hist[m], past, m, g)
    BY DEF RateInv, Remembered
  <2>2. /\ hist[m] \in Seq(HistRec) /\ Len(hist[m]) \in Nat /\ DOMAIN hist[m] = 1 .. Len(hist[m])
    BY <1>2
  <2>3. DOMAIN hist'[m] = DOMAIN hist[m]
    BY <1>1
  <2>4. \A a \in DOMAIN hist[m] : hist[m][a] \in HistRec
    BY <2>2, ElementOfSeq
  <2>5. ASSUME NEW a \in DOMAIN hist[m]
        PROVE  /\ hist'[m][a] \in HistRec
               /\ hist'[m][a].age = Older(hist[m][a].age, AgeCap) /\ hist'[m][a].x = hist[m][a].x
    <3>1. hist'[m][a] = [hist[m][a] EXCEPT !.age = Older(hist[m][a].age, AgeCap)]
      BY <1>1
    <3>2. hist[m][a].age \in Nat
      BY <2>4 DEF HistRec
    <3>3. hist[m][a].age = past[g[a]].age /\ g[a] \in DOMAIN past
      BY <2>1 DEF Copies
    <3>4. Older(hist[m][a].age, AgeCap) \in Nat
      BY <1>5, <3>2, <3>3, OlderCapped
    <3>5. QED
      BY <2>4, <3>1, <3>4 DEF HistRec
  <2>6. hist'[m] \in Seq(HistRec)
    <3>1. PICK h2, n : h2 = hist'[m] /\ n = Len(hist[m])
      OBVIOUS
    <3>2. h2 = [a \in 1 .. n |-> h2[a]] /\ n \in Nat
      BY <1>1, <2>2, <3>1
    <3>3. \A a \in 1 .. n : h2[a] \in HistRec
      BY <2>2, <2>5, <3>1
    <3>4. h2 \in Seq(HistRec)
      BY <3>2, <3>3, IsASeq
    <3>5. QED
      BY <3>1, <3>4
  <2>7. PICK h2, p2 : h2 = hist'[m] /\ p2 = past'
    OBVIOUS
  <2>8. Copies(h2, p2, m, g)
    BY <1>3, <1>5, <2>1, <2>3, <2>5, <2>7, CopiesOlder
  <2>9. QED
    BY <2>6, <2>7, <2>8
<1>8. HistTyped'
  BY <1>1, <1>7 DEF HistTyped
<1>9. Remembered'
  <2>1. ASSUME NEW m \in Metrics PROVE (\E g \in [DOMAIN hist[m] -> Rated(m)] : Copies(hist[m], past, m, g))'
    BY <1>7 DEF Copies, Rated
  <2>2. QED
    BY <2>1 DEF Remembered
<1>10. RateExact'
  <2> SUFFICES ASSUME Evaluated' PROVE FALSE
    BY DEF RateExact
  <2>1. past' # <<>> /\ past'[Len(past')].age = 0
    BY DEF Evaluated, LastSample
  <2>2. RuleInv'
    BY PassTimeStep
  <2>3. past' \in Seq(PastRec)
    BY <2>2 DEF RuleInv, TypeOK
  <2>4. Len(past') \in DOMAIN past'
    BY <2>1, <2>3, EmptySeq
  <2>5. past'[Len(past')].age # 0
    BY <1>3, <1>5, <2>4, OlderCapped
  <2>6. QED
    BY <2>1, <2>5
<1>11. QED
  BY <1>6, <1>8, <1>9, <1>10 DEF RateInv

LEMMA RateTelemetry == ASSUME RuleInv, RateInv, NEW s \in Samples, OnTelemetry(s) PROVE RateInv'
<1> DEFINE x == Recording(s)
<1>1. TypeOK /\ past \in Seq(PastRec) /\ Ordered(past) /\ hist \in [Metrics -> Seq(HistRec)]
  BY DEF RuleInv, TypeOK, RateInv, HistTyped
<1>2. /\ hist' = [m \in Metrics |-> RateHist(m, s.value)] /\ past' = Append(past, x)
      /\ fired' = ThresholdsTrue(s.value, ConfigFor, HwFor) \cup FlagsTrue(s.flags)
                    \cup RatesTrue(hist') \cup AnomaliesTrue(ewma') \cup CommTrue(s.loss)
  BY TelemetryIs DEF OnTelemetry
<1>3. x \in PastRec /\ x.age = 0 /\ x.sample = s /\ x.rated = rules.rate /\ rules.rate \subseteq Metrics
  BY <1>1, RecordingType DEF Recording, TypeOK
<1> HIDE DEF x
<1>4. PICK new : new = Len(past) + 1
  OBVIOUS
<1>5. /\ DOMAIN past = 1 .. Len(past) /\ past' \in Seq(PastRec) /\ Len(past') = new /\ Len(past) \in Nat
      /\ DOMAIN past' = DOMAIN past \cup {new} /\ new \notin DOMAIN past
      /\ past'[new] = x /\ \A i \in DOMAIN past : past'[i] = past[i]
  BY <1>1, <1>2, <1>3, <1>4, Recorded
<1>6. \A i \in DOMAIN past : past[i].age \in Nat
  <2>1. \A i \in DOMAIN past : past[i] \in PastRec
    BY <1>1, ElementOfSeq
  <2>2. QED
    BY <2>1 DEF PastRec
<1>7. Ordered(past')
  <2> SUFFICES ASSUME NEW i \in DOMAIN past', NEW j \in DOMAIN past', i <= j
               PROVE  past'[j].age <= past'[i].age
    BY DEF Ordered
  <2>1. CASE j = new
    BY <1>3, <1>5, <1>6, <2>1
  <2>2. CASE j # new
    <3>1. i # new /\ i \in DOMAIN past /\ j \in DOMAIN past
      BY <1>4, <1>5, <2>2
    <3>2. QED
      BY <1>1, <1>5, <3>1 DEF Ordered
  <2>3. QED
    BY <2>1, <2>2
<1>8. ASSUME NEW m \in Metrics, m \notin rules.rate
      PROVE  hist'[m] \in Seq(HistRec) /\ \E g : Copies(hist'[m], past', m, g)
  <2>1. hist'[m] = hist[m]
    BY <1>2, <1>8 DEF RateHist
  <2>2. PICK g : Copies(hist[m], past, m, g)
    BY DEF RateInv, Remembered
  <2>3. PICK h, p : h = hist[m] /\ p = past
    OBVIOUS
  <2>4. Copies(h, Append(p, x), m, g)
    BY <1>1, <1>3, <1>8, <2>2, <2>3, CopiesUnrated
  <2>5. QED
    BY <1>1, <1>2, <2>1, <2>3, <2>4
<1>9. ASSUME NEW m \in rules.rate
      PROVE  /\ hist'[m] \in Seq(HistRec)
             /\ \E g : Copies(hist'[m], past', m, g)
             /\ \A a \in DOMAIN hist'[m] : hist'[m][a].age <= 2 * Window
             /\ hist'[m][Len(hist'[m])].x = s.value[m]
  <2> DEFINE e == [age |-> 0, x |-> s.value[m]]
  <2>1. e \in HistRec /\ e.age = 0 /\ e.x = s.value[m] /\ m \in Metrics
    <3>1. s.value[m] \in Int /\ m \in Metrics
      BY <1>3, RulesAssumption
    <3>2. QED
      BY <3>1 DEF HistRec
  <2>2. hist'[m] = Pruned(Append(hist[m], e))
    BY <1>2, <2>1 DEF RateHist
  <2> HIDE DEF e
  <2>3. PICK g : Copies(hist[m], past, m, g)
    BY <2>1 DEF RateInv, Remembered
  <2>4. PICK h, p, p2, h2, k : h = hist[m] /\ p = past /\ p2 = past' /\ h2 = Append(hist[m], e) /\ k = hist'[m]
    OBVIOUS
  <2>5. \E g2 : Copies(Append(h, e), Append(p, x), m, g2)
    BY <1>1, <1>3, <2>1, <2>3, <2>4, CopiesRated
  <2>6. PICK g2 : Copies(h2, p2, m, g2)
    BY <1>2, <2>4, <2>5
  <2>7. h2 \in Seq(HistRec) /\ h2 # <<>> /\ h2[Len(h2)] = e
    <3> HIDE DEF HistRec
    <3>1. h \in Seq(HistRec) /\ h2 = Append(h, e)
      BY <1>1, <2>1, <2>4
    <3>2. QED
      BY <2>1, <3>1, AppendProperties
  <2>8. /\ k \in Seq(HistRec) /\ k # <<>> /\ k[Len(k)] = h2[Len(h2)]
        /\ \A a \in DOMAIN k : k[a].age <= 2 * Window
        /\ \E g3 : Copies(k, p2, m, g3)
    <3>1. p2 \in Seq(PastRec) /\ Ordered(p2) /\ k = Pruned(h2)
      BY <1>5, <1>7, <2>2, <2>4
    <3>2. QED
      BY <2>1, <2>6, <2>7, <3>1, PrunedIs
  <2>9. QED
    BY <2>1, <2>4, <2>7, <2>8
<1>10. HistTyped'
  <2>1. \A m \in Metrics : hist'[m] \in Seq(HistRec)
    BY <1>8, <1>9
  <2>2. QED
    BY <1>2, <2>1 DEF HistTyped
<1>11. Remembered'
  <2>1. \A m \in Metrics : \E g : Copies(hist'[m], past', m, g)
    BY <1>8, <1>9
  <2>2. ASSUME NEW m \in Metrics PROVE (\E g \in [DOMAIN hist[m] -> Rated(m)] : Copies(hist[m], past, m, g))'
    BY <2>1 DEF Copies, Rated
  <2>3. QED
    BY <2>2 DEF Remembered
<1>12. RateExact'
  <2>1. LastSample' = x
    BY <1>5 DEF LastSample
  <2> SUFFICES ASSUME NEW m \in rules.rate
               PROVE  LET back == {i \in Rated(m)' : past'[i].age \in Window .. 2 * Window}
                      IN  (<<"rate", m>> \in fired') <=>
                            \E i \in back : /\ \A j \in back : i <= j
                                            /\ s.value[m] - past'[i].sample.value[m] > MaxRate * past'[i].age
    BY <1>3, <2>1 DEF RateExact
  <2>2. <<"rate", m>> \in fired' <=> RateTrue(hist'[m])
    <3>1. /\ <<"rate", m>> \notin ThresholdsTrue(s.value, ConfigFor, HwFor)
          /\ <<"rate", m>> \notin FlagsTrue(s.flags)
          /\ <<"rate", m>> \notin AnomaliesTrue(ewma')
          /\ <<"rate", m>> \notin CommTrue(s.loss)
      BY DEF ThresholdsTrue, FlagsTrue, AnomaliesTrue, CommTrue
    <3>2. <<"rate", m>> \in RatesTrue(hist') <=> RateTrue(hist'[m])
      BY DEF RatesTrue
    <3>3. QED
      BY <1>2, <3>1, <3>2
  <2>3. PICK g : Copies(hist'[m], past', m, g)
    BY <1>9
  <2>4. PICK h, p : h = hist'[m] /\ p = past'
    OBVIOUS
  <2> DEFINE rated == {j \in DOMAIN p : m \in p[j].rated}
             back == {i \in rated : p[i].age \in Window .. 2 * Window}
  <2>5. RateTrue(h) <=>
           \E i \in back : /\ \A j \in back : i <= j
                           /\ h[Len(h)].x - p[i].sample.value[m] > MaxRate * p[i].age
    BY <1>5, <1>9, <2>3, <2>4, RateVerdict
  <2>6. rated = Rated(m)' /\ h[Len(h)].x = s.value[m]
    BY <1>9, <2>4 DEF Rated
  <2> HIDE DEF rated
  <2>7. QED
    BY <2>2, <2>4, <2>5, <2>6
<1>13. QED
  BY <1>7, <1>10, <1>11, <1>12 DEF RateInv

LEMMA RateKept == RuleInv /\ RateInv /\ [Next]_vars => RateInv'
<1> SUFFICES ASSUME RuleInv, RateInv, [Next]_vars PROVE RateInv'
  OBVIOUS
<1>1. ASSUME NEW s \in Samples, OnTelemetry(s) PROVE RateInv'
  BY <1>1, RateTelemetry
<1>2. ASSUME NEW body \in Bodies, SetRules(body) PROVE RateInv'
  BY <1>2, RateQuiet DEF SetRules
<1>3. ASSUME NEW cfg \in Configs, PutConfig(cfg) PROVE RateInv'
  BY <1>3, RateQuiet DEF PutConfig
<1>4. CASE PushDone
  BY <1>4, RateQuiet DEF PushDone
<1>5. ASSUME NEW model \in Models, NEW behind \in BOOLEAN, Hello(model, behind) PROVE RateInv'
  BY <1>5, RateQuiet DEF Hello
<1>6. CASE ConfigAck
  BY <1>6, RateQuiet DEF ConfigAck
<1>7. CASE PassTime
  BY <1>7, RatePassTime
<1>8. CASE UNCHANGED vars
  BY <1>8, RateQuiet DEF vars
<1>9. QED
  BY <1>1, <1>2, <1>3, <1>4, <1>5, <1>6, <1>7, <1>8 DEF Next

\* A rate alert is raised exactly when the slope from the oldest sample between one and
\* two windows back is above the limit, for every window, limit and history of samples
\* and through every change of the rules: the pruned history decides as the whole one
\* would (rate_hist, on_telemetry).
THEOREM RatesAreExact == Spec => []RateExact
<1>1. RateInv => RateExact
  BY DEF RateInv
<1>2. QED
  BY <1>1, RateStart, RateKept, RuleInvariant, PTL DEF Spec
=============================================================================
