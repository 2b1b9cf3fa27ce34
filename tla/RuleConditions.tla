--------------------------- MODULE RuleConditions ----------------------------
(***************************************************************************)
(* How backend/app/anomaly.py decides that a rule holds for a sample of    *)
(* one device: the limits it looks up (config_for, _hw_for and their       *)
(* caches, per-device overrides), the rate of change over a window, and    *)
(* the sustained z-score anomaly with its warm-up and its gate.  Telemetry *)
(* interleaves with the requests that change what the limits come from:    *)
(* PUT config (whose push awaits the socket before the cache is dropped),  *)
(* HELLO, CONFIG_ACK and PUT rules.                                        *)
(*                                                                         *)
(* A sample says which metrics are further than z from their mean and      *)
(* whether the gate metric is away from its own: the arithmetic of the     *)
(* averages is left out, how the verdicts are combined over time is not.   *)
(* Time is kept as ages, which stop where no comparison tells them apart.  *)
(***************************************************************************)
EXTENDS Integers, Sequences, FiniteSets

CONSTANTS
    DefaultRules,   \* DEFAULT_RULES
    Bodies,         \* bodies of PUT /api/rules
    DefaultConfig,  \* DEFAULT_CONFIG: key -> value
    Configs,        \* bodies of PUT config
    Models,         \* hw_model of HELLO
    Samples,        \* [value: metric -> Int, flags, loss, far: set of metrics, moving]
    Window,         \* window_s of a rate rule
    MaxRate,        \* max_per_s
    Warmup, Sustain, SustainS,
    MaxSamples, MaxConfigs, MaxPushes,  \* bounds: samples, stored configs, pushes under way
    None

Metrics == UNION {DOMAIN s.value : s \in Samples}

\* A frame carries every metric; rules name metrics of the frames; a body may leave out
\* any group and any entry of one.
ASSUME RulesAssumption ==
    /\ {Window, Sustain, Warmup, MaxSamples} \subseteq Nat \ {0}
    /\ {MaxRate, SustainS, MaxConfigs, MaxPushes} \subseteq Nat
    /\ \A s \in Samples : s.value \in [Metrics -> Int]
    /\ None \notin Nat /\ \A ms \in SUBSET Metrics : None # ms
    /\ DOMAIN DefaultRules = {"thresholds", "comm", "fault_flags", "rate", "anomaly"}
    /\ DOMAIN DefaultRules.anomaly = {"enabled", "metrics", "gated"}
    /\ {DefaultRules.rate, DefaultRules.anomaly.metrics, DefaultRules.anomaly.gated} \subseteq SUBSET Metrics
    /\ \A body \in Bodies :
         /\ "rate" \in DOMAIN body => body.rate \in SUBSET Metrics
         /\ "anomaly" \in DOMAIN body =>
              \A group \in {"metrics", "gated"} \intersect DOMAIN body.anomaly :
                 body.anomaly[group] \in SUBSET Metrics

VARIABLES
    rules,      \* self.rules
    configs,    \* device_config rows, oldest first
    cfgCache,   \* config_cache entry of the device, or None
    hw,         \* hw_model of the devices row, None before HELLO
    hwCache,    \* hw_cache entry ("" is the model None), or "unset"
    pushes,     \* push_config calls waiting in drain
    hist,       \* rate_hist: metric -> samples [age, x], oldest first
    ewma,       \* metric -> [n, streak, since]
    gateN,      \* n of the gate's Ewma
    fired,      \* rules the last sample made true
    past,       \* ghost: every sample, with its age and what judged it
    hwFresh     \* ghost: no model is cached from before the HELLO that changed it

cacheVars == <<cfgCache, hwCache>>

vars == <<rules, configs, cfgCache, hw, hwCache, pushes, hist, ewma, gateN, fired, past, hwFresh>>

MinOf(a, b) == IF a < b THEN a ELSE b

\* The largest age that is told from a larger one.
AgeCap == IF 2 * Window + 1 > SustainS THEN 2 * Window + 1 ELSE SustainS

NoEwma == [n |-> 0, streak |-> 0, since |-> None]

Init ==
    /\ rules = DefaultRules
    /\ configs = <<>>
    /\ cfgCache = None
    /\ hw = None
    /\ hwCache = "unset"
    /\ pushes = 0
    /\ hist = [m \in Metrics |-> <<>>]
    /\ ewma = [m \in Metrics |-> NoEwma]
    /\ gateN = 0
    /\ fired = {}
    /\ past = <<>>
    /\ hwFresh = TRUE

-----------------------------------------------------------------------------
(* Limits.                                                                 *)

\* current_config, or the defaults of a device that never had one.
StoredConfig == IF configs = <<>> THEN DefaultConfig ELSE configs[Len(configs)]

\* config_for: the cache entry, filled from the database on a miss.
ConfigFor == IF cfgCache = None THEN StoredConfig ELSE cfgCache

\* _hw_for
HwFor == IF hwCache = "unset" THEN hw ELSE hwCache

\* A rule asks for the model unless an earlier override names the device.
AsksHw(rule) ==
    \E i \in DOMAIN rule.overrides :
       rule.overrides[i].hw # None /\ \A j \in 1 .. i : ~rule.overrides[j].device

\* _threshold_spec: the rule's own value, unless an override matches: then the first.
ThresholdSpec(rule, model) ==
    LET Matches(o) == o.device \/ (o.hw # None /\ o.hw = model)
        found == {i \in DOMAIN rule.overrides : Matches(rule.overrides[i])}
    IN  IF found = {} THEN rule.value
        ELSE rule.overrides[CHOOSE i \in found : \A j \in found : i <= j].value

\* _resolve_value: a number, or a config key with an offset; None if unknown.
ResolveValue(spec, cfg) ==
    IF spec.key = None THEN spec.off
    ELSE IF spec.key \in DOMAIN cfg THEN cfg[spec.key] + spec.off ELSE None

Holds(x, op, thr) ==
    CASE op = ">" -> x > thr [] op = "<" -> x < thr [] op = ">=" -> x >= thr [] OTHER -> x <= thr

\* The rules of thresholds that value satisfies under a config and a model.
ThresholdsTrue(value, cfg, model) ==
    {<<"threshold", rule.name>> : rule \in
        {r \in rules.thresholds :
            /\ r.metric \in DOMAIN value
            /\ ResolveValue(ThresholdSpec(r, model), cfg) # None
            /\ Holds(value[r.metric], r.op, ResolveValue(ThresholdSpec(r, model), cfg))}}

\* on_comm
CommTrue(loss) ==
    IF rules.comm.loss_pct # None /\ loss > rules.comm.loss_pct
    THEN {<<"comm", "packet_loss">>} ELSE {}

FlagsTrue(flags) == IF rules.fault_flags.enabled THEN {<<"flag", f>> : f \in flags} ELSE {}

-----------------------------------------------------------------------------
(* Rate of change.                                                         *)

\* The place of the oldest sample that is at most `limit` old, or of the newest one.
FirstKept(h, limit) ==
    CHOOSE i \in DOMAIN h :
        /\ i = Len(h) \/ h[i].age <= limit
        /\ \A j \in 1 .. i - 1 : h[j].age > limit

\* Mutant of Pruned: samples are kept for one window only.
PrunedEarly(h) == SubSeq(h, FirstKept(h, Window), Len(h))

\* The while loop: samples older than two windows go, the newest stays.
Pruned(h) == SubSeq(h, FirstKept(h, 2 * Window), Len(h))

RateHist(m, value) ==
    IF m \in rules.rate THEN Pruned(Append(hist[m], [age |-> 0, x |-> value[m]])) ELSE hist[m]

\* The oldest sample at least a window back, if there is one, is left too steeply.
RateTrue(h) ==
    \E i \in DOMAIN h :
        /\ h[i].age >= Window
        /\ \A j \in 1 .. i - 1 : h[j].age < Window
        /\ h[Len(h)].x - h[i].x > MaxRate * h[i].age

RatesTrue(newHist) == {<<"rate", m>> : m \in {k \in rules.rate : RateTrue(newHist[k])}}

-----------------------------------------------------------------------------
(* z-score anomaly.                                                        *)

JudgedMetrics == IF rules.anomaly.enabled THEN rules.anomaly.metrics ELSE {}

\* Mutant of Hot: the gate is not asked.
HotUngated(m, s) == ewma[m].n >= Warmup /\ m \in s.far

\* The sample is anomalous: not in the warm-up, and not while a gated metric's
\* operating point moves.
Hot(m, s) ==
    /\ ewma[m].n >= Warmup
    /\ m \in s.far
    /\ ~(gateN >= Warmup /\ s.moving /\ m \in rules.anomaly.gated)

\* Ewma.update, streak and since.
Judged(m, s) ==
    [n |-> MinOf(ewma[m].n + 1, Warmup),
     streak |-> IF Hot(m, s) THEN MinOf(ewma[m].streak + 1, Sustain) ELSE 0,
     since |-> IF ~Hot(m, s) THEN None ELSE IF ewma[m].since = None THEN 0 ELSE ewma[m].since]

Sustained(e) == e.streak >= Sustain /\ e.since # None /\ e.since >= SustainS

AnomaliesTrue(newEwma) == {<<"anomaly", m>> : m \in {k \in JudgedMetrics : Sustained(newEwma[k])}}

-----------------------------------------------------------------------------
(* Steps.                                                                  *)

\* Bound: nothing is left to judge once MaxSamples samples have come.
MoreSamples == Len(past) < MaxSamples

\* on_telemetry
OnTelemetry(s) ==
    /\ MoreSamples
    /\ cfgCache' = ConfigFor
    /\ hwCache' = IF \E r \in rules.thresholds : r.metric \in DOMAIN s.value /\ AsksHw(r)
                  THEN HwFor ELSE hwCache
    /\ hist' = [m \in Metrics |-> RateHist(m, s.value)]
    /\ ewma' = [m \in Metrics |-> IF m \in JudgedMetrics THEN Judged(m, s) ELSE ewma[m]]
    /\ gateN' = IF rules.anomaly.enabled THEN MinOf(gateN + 1, Warmup) ELSE gateN
    /\ fired' = ThresholdsTrue(s.value, ConfigFor, HwFor) \cup FlagsTrue(s.flags)
                  \cup RatesTrue(hist') \cup AnomaliesTrue(ewma') \cup CommTrue(s.loss)
    /\ past' = Append(past, [age |-> 0, sample |-> s, rated |-> rules.rate,
                             gated |-> IF rules.anomaly.enabled THEN rules.anomaly.gated ELSE None,
                             judged |-> JudgedMetrics])
    /\ UNCHANGED <<rules, configs, hw, pushes, hwFresh>>

\* dict.update
Updated(group, new) ==
    [e \in DOMAIN group \cup DOMAIN new |-> IF e \in DOMAIN new THEN new[e] ELSE group[e]]

\* set_rules: _merge puts the body over the defaults, not over what is in force;
\* a list, a number and "rate" are replaced, any other group is updated.
SetRules(body) ==
    /\ MoreSamples
    /\ rules' = [k \in DOMAIN DefaultRules |->
                   IF k \notin DOMAIN body THEN DefaultRules[k]
                   ELSE IF k \in {"thresholds", "rate"} THEN body[k]
                   ELSE Updated(DefaultRules[k], body[k])]
    /\ UNCHANGED <<configs, cacheVars, hw, pushes, hist, ewma, gateN, fired, past, hwFresh>>

\* put_config up to the await in push_config: the row is stored, the frame sent.
PutConfig(cfg) ==
    /\ Len(configs) < MaxConfigs
    /\ pushes < MaxPushes
    /\ configs' = Append(configs, cfg)
    /\ pushes' = pushes + 1
    /\ UNCHANGED <<rules, cacheVars, hw, hist, ewma, gateN, fired, past, hwFresh>>

\* Mutant of InvalidateConfig: a cached config is kept.
InvalidateConfigNever == UNCHANGED cfgCache /\ hwCache' = "unset" /\ hwFresh' = TRUE

InvalidateConfig == cfgCache' = None /\ hwCache' = "unset" /\ hwFresh' = TRUE

\* push_config after the await.
PushDone ==
    /\ pushes > 0
    /\ pushes' = pushes - 1
    /\ InvalidateConfig
    /\ UNCHANGED <<rules, configs, hw, hist, ewma, gateN, fired, past>>

\* HELLO: upsert_device stores the model; a device with an older config gets a push.
Hello(model, behind) ==
    /\ behind => configs # <<>> /\ pushes < MaxPushes
    /\ hw' = model
    /\ pushes' = IF behind THEN pushes + 1 ELSE pushes
    /\ hwFresh' = (hwCache = "unset" \/ (hwFresh /\ model = hw))
    /\ UNCHANGED <<rules, configs, cacheVars, hist, ewma, gateN, fired, past>>

\* CONFIG_ACK, applied or rejected.
ConfigAck ==
    /\ configs # <<>>
    /\ InvalidateConfig
    /\ UNCHANGED <<rules, configs, hw, pushes, hist, ewma, gateN, fired, past>>

Older(age, limit) == IF age = None \/ age = limit THEN age ELSE age + 1

PassTime ==
    /\ MoreSamples
    /\ hist' = [m \in Metrics |->
                  [i \in DOMAIN hist[m] |-> [hist[m][i] EXCEPT !.age = Older(@, AgeCap)]]]
    /\ ewma' = [m \in Metrics |-> [ewma[m] EXCEPT !.since = Older(@, SustainS)]]
    /\ past' = [i \in DOMAIN past |-> [past[i] EXCEPT !.age = Older(@, AgeCap)]]
    /\ UNCHANGED <<rules, configs, cacheVars, hw, pushes, gateN, fired, hwFresh>>

Next ==
    \/ \E s \in Samples : OnTelemetry(s)
    \/ \E body \in Bodies : SetRules(body)
    \/ \E cfg \in Configs : PutConfig(cfg)
    \/ PushDone
    \/ \E model \in Models, behind \in BOOLEAN : Hello(model, behind)
    \/ ConfigAck
    \/ PassTime

Spec == Init /\ [][Next]_vars

-----------------------------------------------------------------------------
LastSample == past[Len(past)]

\* The last sample was evaluated just now.
Evaluated == past # <<>> /\ LastSample.age = 0

\* The samples a rate or a z-score rule of metric m was evaluated on.
Rated(m) == {i \in DOMAIN past : m \in past[i].rated}
JudgedAt(m) == {i \in DOMAIN past : m \in past[i].judged}

\* A rate alert compares the sample with the oldest one between one and two
\* windows back among all that were ever received, and is raised exactly when
\* that slope is above the limit: pruning the history changes no verdict
\* (rate_hist, window * 2).
RateExact ==
    Evaluated => \A m \in LastSample.rated :
        LET back == {i \in Rated(m) : past[i].age \in Window .. 2 * Window}
        IN  (<<"rate", m>> \in fired) <=>
              \E i \in back : /\ \A j \in back : i <= j
                              /\ LastSample.sample.value[m] - past[i].sample.value[m]
                                   > MaxRate * past[i].age

\* Sample i is anomalous for m, told from the whole history.
AnomalousAt(i, m) ==
    /\ i \in JudgedAt(m)
    /\ m \in past[i].sample.far
    /\ Cardinality({j \in JudgedAt(m) : j < i}) >= Warmup
    /\ ~(/\ past[i].sample.moving /\ m \in past[i].gated
         /\ Cardinality({j \in DOMAIN past : j < i /\ past[j].gated # None}) >= Warmup)

\* The anomalous samples in which the judged ones end.
AnomalousRow(m) ==
    {i \in JudgedAt(m) : \A j \in JudgedAt(m) : j >= i => AnomalousAt(j, m)}

\* An anomaly alert is raised exactly when the judged samples up to this one end
\* in at least Sustain anomalous ones in a row and the first of that row is at
\* least SustainS old, whatever warm-up, gate and rule changes came before.
SustainExact ==
    Evaluated => \A m \in LastSample.judged :
        (<<"anomaly", m>> \in fired) <=>
            /\ Cardinality(AnomalousRow(m)) >= Sustain
            /\ \E i \in AnomalousRow(m) : past[i].age >= SustainS

\* No rule of this name (names may repeat) has an override.
ModelFree(name) == \A r \in rules.thresholds : r.name = name => r.overrides = <<>>

\* A sample received while no push is under way is judged by the newest stored
\* config, however requests, acks and telemetry interleaved (config_cache,
\* push_config): a rule fires exactly when its comparison with that config holds,
\* and a rule with overrides exactly when the one of the announced model does.
\* The exception is the code's: hw_cache outlives a HELLO that announces another
\* model, until the next push or ack drops it.
JudgedByNewestConfig ==
    [][Len(past') > Len(past) /\ pushes = 0 =>
         \A r \in rules.thresholds : hwFresh \/ ModelFree(r.name) =>
            (<<"threshold", r.name>> \in fired' <=>
                <<"threshold", r.name>> \in
                    ThresholdsTrue(past'[Len(past')].sample.value, StoredConfig, hw))]_vars
==============================================================================
