------------------------ MODULE FaultDiagnosis_proofs ------------------------
(***************************************************************************)
(* Proofs about FaultDiagnosis for every set of flags, requests, schedules *)
(* and readings, any number of rows and upsets: what is injected is what   *)
(* is due, the newest row's ack tells it, and the diagnosis names it.      *)
(***************************************************************************)
EXTENDS FaultDiagnosis, SequenceTheorems, TLAPS

InjectionRec == [flags : SUBSET Flags, left : Nat \cup {None}, row : Nat]

InjectFrame ==
    [kind : {"inject"}, set : SUBSET Flags, clear : SUBSET Flags, dur : Nat, row : Nat]

ClearFrame == [kind : {"clear_faults"}]

FaultRow == [set : SUBSET Flags, ack : (SUBSET Flags) \cup {None}]

ScheduledFlags == UNION {f.flags : f \in Scheduled}

TypeOK ==
    /\ sensors \in BOOLEAN
    /\ cli \in Seq(Scheduled)
    /\ injections \in SUBSET InjectionRec
    /\ injected = MaskOf(injections)
    /\ {detected, board, live} \subseteq SUBSET Flags
    /\ detected \subseteq UNION Detections
    /\ up \in BOOLEAN
    /\ toDev \in Seq(InjectFrame \cup ClearFrame)
    /\ toBack \in Seq(SUBSET Flags)
    /\ rows \in Seq(FaultRow)
    /\ cuts \in Nat /\ clears \in Nat
    /\ due \in [Flags -> Nat \cup {None}]

\* left says how long each flag is held by the injections injs: no shorter than
\* any of them, and as long as one of them unless it is over.
Covers(injs, left) ==
    \A f \in Flags :
        /\ \A inj \in injs : f \in inj.flags =>
              left[f] = None \/ (inj.left # None /\ inj.left <= left[f])
        /\ left[f] # 0 => \E inj \in injs : f \in inj.flags /\ inj.left = left[f]

\* Requests on the way and injections of requests belong to rows of the table.
RowsKnown ==
    /\ \A i \in DOMAIN toDev : toDev[i].kind = "inject" =>
          toDev[i].row \in DOMAIN rows /\ toDev[i].set \subseteq rows[toDev[i].row].set
    /\ \A inj \in injections : inj.row # 0 =>
          inj.row \in DOMAIN rows /\ inj.flags \subseteq rows[inj.row].set

\* The rows the latest sample owes its OVERTEMP to did set it.
LatestKnown ==
    latest # None =>
        /\ latest.flags \in SUBSET Flags
        /\ \A i \in latest.rows : i \in DOMAIN rows /\ "OVERTEMP" \in rows[i].set

\* Flags only requests raise: what an ack tells and what the device runs.
Same(flags) == OnlyRequested \intersect flags = OnlyRequested \intersect injected

\* Acks in flight, and the newest row once none is.
InSync ==
    /\ toBack # <<>> => Same(toBack[Len(toBack)])
    /\ rows # <<>> /\ toBack = <<>> =>
          IF rows[Len(rows)].ack = None THEN toDev # <<>> ELSE Same(rows[Len(rows)].ack)

AckPath == ~sensors /\ cuts = 0 => up /\ InSync

\* The inductive invariant.
FaultInv == TypeOK /\ Covers(injections, due) /\ RowsKnown /\ LatestKnown /\ AckPath

-----------------------------------------------------------------------------
(* Operators of the device.                                                *)

LEMMA ScheduledType == Scheduled \subseteq [flags : SUBSET Flags, dur : Nat]
<1> SUFFICES ASSUME NEW c \in CommandLines, NEW i \in DOMAIN c.faults
             PROVE  c.faults[i] \in [flags : SUBSET Flags, dur : Nat]
  BY DEF Scheduled
<1> DEFINE Fault == [flags : SUBSET Flags, dur : Nat]
<1>1. c.faults \in Seq(Fault)
  BY FaultAssumption
<1>2. i \in 1 .. Len(c.faults)
  BY <1>1
<1> HIDE DEF Fault
<1>3. c.faults[i] \in Fault
  BY <1>1, <1>2
<1>4. QED
  BY <1>3 DEF Fault

LEMMA InjectionType ==
    ASSUME NEW flags \in SUBSET Flags, NEW dur \in Nat, NEW row \in Nat
    PROVE  /\ NewInjection(flags, dur, row) \in InjectionRec
           /\ NewInjection(flags, dur, row).flags = flags
           /\ NewInjection(flags, dur, row).row = row
           /\ NewInjection(flags, dur, row).left = IF dur = 0 THEN None ELSE dur
           /\ NewInjection(flags, dur, row).left # 0
BY FaultAssumption DEF NewInjection, InjectionRec

LEMMA LongerIs ==
    ASSUME NEW a \in Nat \cup {None}, NEW b \in Nat \cup {None}
    PROVE  /\ Longer(a, b) \in Nat \cup {None}
           /\ Longer(a, b) \in {a, b}
           /\ Longer(a, b) = None \/ (a # None /\ b # None /\ a <= Longer(a, b) /\ b <= Longer(a, b))
BY FaultAssumption DEF Longer

LEMMA DueWithType ==
    ASSUME NEW left \in [Flags -> Nat \cup {None}], NEW flags, NEW dur \in Nat
    PROVE  DueWith(left, flags, dur) \in [Flags -> Nat \cup {None}]
<1> DEFINE d == IF dur = 0 THEN None ELSE dur
<1>1. d \in Nat \cup {None}
  OBVIOUS
<1>2. \A f \in Flags : Longer(left[f], d) \in Nat \cup {None}
  BY <1>1, LongerIs
<1>3. QED
  BY <1>2 DEF DueWith

\* A new injection, and the times that are due with it.
LEMMA CoversAdd ==
    ASSUME NEW injs \in SUBSET InjectionRec, NEW left \in [Flags -> Nat \cup {None}], Covers(injs, left),
           NEW flags \in SUBSET Flags, NEW dur \in Nat, NEW row \in Nat
    PROVE  Covers(injs \cup {NewInjection(flags, dur, row)}, DueWith(left, flags, dur))
<1> DEFINE d == IF dur = 0 THEN None ELSE dur
           new == NewInjection(flags, dur, row)
           left2 == DueWith(left, flags, dur)
<1>1. /\ new \in InjectionRec /\ new.flags = flags /\ new.left = d /\ d # 0 /\ d \in Nat \cup {None}
  BY InjectionType, FaultAssumption
<1> SUFFICES ASSUME NEW f \in Flags
             PROVE  /\ \A inj \in injs \cup {new} : f \in inj.flags =>
                          left2[f] = None \/ (inj.left # None /\ inj.left <= left2[f])
                    /\ left2[f] # 0 => \E inj \in injs \cup {new} : f \in inj.flags /\ inj.left = left2[f]
  BY DEF Covers
<1>2. /\ \A inj \in injs : f \in inj.flags =>
            left[f] = None \/ (inj.left # None /\ inj.left <= left[f])
      /\ left[f] # 0 => \E inj \in injs : f \in inj.flags /\ inj.left = left[f]
  BY DEF Covers
<1>3. \A inj \in injs : inj.left \in Nat \cup {None}
  BY DEF InjectionRec
<1> HIDE DEF new, d
<1>4. CASE f \notin flags
  <2>1. left2[f] = left[f]
    BY <1>4 DEF DueWith
  <2>2. QED
    BY <1>1, <1>2, <1>4, <2>1
<1>5. CASE f \in flags
  <2>1. left2[f] = Longer(left[f], d)
    BY <1>5 DEF DueWith, d
  <2>2. /\ left2[f] \in Nat \cup {None} /\ left2[f] \in {left[f], d}
        /\ left2[f] = None \/ (left[f] # None /\ d # None /\ left[f] <= left2[f] /\ d <= left2[f])
    <3> HIDE DEF left2
    <3>1. left[f] \in Nat \cup {None}
      OBVIOUS
    <3>2. QED
      BY <1>1, <2>1, <3>1, LongerIs
  <2>3. ASSUME NEW inj \in injs, f \in inj.flags
        PROVE  left2[f] = None \/ (inj.left # None /\ inj.left <= left2[f])
    <3>1. left[f] = None \/ (inj.left # None /\ inj.left <= left[f])
      BY <1>2, <2>3
    <3>2. inj.left \in Nat \cup {None} /\ left[f] \in Nat \cup {None}
      BY <1>3
    <3>3. QED
      BY <2>2, <3>1, <3>2, FaultAssumption
  <2>4. left2[f] = None \/ (new.left # None /\ new.left <= left2[f])
    BY <1>1, <2>2, Zenon
  <2>5. left2[f] # 0 => \E inj \in injs \cup {new} : f \in inj.flags /\ inj.left = left2[f]
    BY <1>1, <1>2, <1>5, <2>2
  <2>6. QED
    BY <2>3, <2>4, <2>5
<1>6. QED
  BY <1>4, <1>5

\* Expired injections are not due to anyone.
LEMMA CoversUnexpired ==
    ASSUME NEW injs, NEW left, Covers(injs, left)
    PROVE  Covers(Unexpired(injs), left)
BY DEF Covers, Unexpired

\* clear_flags end every injection of these flags, and no other.
LEMMA ClearedIs ==
    ASSUME NEW flags \in SUBSET Flags, injections \in SUBSET InjectionRec
    PROVE  /\ Cleared(flags) \in SUBSET InjectionRec
           /\ \A inj \in Cleared(flags) : \E x \in injections :
                 inj.flags = x.flags \ flags /\ inj.left = x.left /\ inj.row = x.row
           /\ \A x \in injections : x.flags \ flags # {} => \E inj \in Cleared(flags) :
                 inj.flags = x.flags \ flags /\ inj.left = x.left
<1> DEFINE Less(x) == [x EXCEPT !.flags = @ \ flags]
<1>1. \A x \in injections : /\ Less(x) \in InjectionRec /\ Less(x).flags = x.flags \ flags
                            /\ Less(x).left = x.left /\ Less(x).row = x.row
  BY DEF InjectionRec
<1>2. Cleared(flags) = {inj \in {Less(x) : x \in injections} : inj.flags # {}}
  BY DEF Cleared
<1> HIDE DEF Less
<1>3. QED
  BY <1>1, <1>2

LEMMA CoversCleared ==
    ASSUME NEW flags \in SUBSET Flags, injections \in SUBSET InjectionRec, Covers(injections, due)
    PROVE  Covers(Cleared(flags), [f \in Flags |-> IF f \in flags THEN 0 ELSE due[f]])
<1> DEFINE left == [f \in Flags |-> IF f \in flags THEN 0 ELSE due[f]]
<1> SUFFICES ASSUME NEW f \in Flags
             PROVE  /\ \A inj \in Cleared(flags) : f \in inj.flags =>
                          left[f] = None \/ (inj.left # None /\ inj.left <= left[f])
                    /\ left[f] # 0 => \E inj \in Cleared(flags) : f \in inj.flags /\ inj.left = left[f]
  BY DEF Covers
<1>1. /\ \A inj \in injections : f \in inj.flags =>
            due[f] = None \/ (inj.left # None /\ inj.left <= due[f])
      /\ due[f] # 0 => \E inj \in injections : f \in inj.flags /\ inj.left = due[f]
  BY DEF Covers
<1>2. CASE f \in flags
  BY <1>2, ClearedIs
<1>3. CASE f \notin flags
  <2>1. left[f] = due[f]
    BY <1>3
  <2>2. \A inj \in Cleared(flags) : f \in inj.flags =>
          due[f] = None \/ (inj.left # None /\ inj.left <= due[f])
    BY <1>1, ClearedIs
  <2>3. ASSUME due[f] # 0 PROVE \E inj \in Cleared(flags) : f \in inj.flags /\ inj.left = due[f]
    <3>1. PICK x \in injections : f \in x.flags /\ x.left = due[f]
      BY <1>1, <2>3
    <3>2. f \in x.flags \ flags
      BY <1>3, <3>1
    <3>3. PICK inj \in Cleared(flags) : inj.flags = x.flags \ flags /\ inj.left = x.left
      BY <3>2, ClearedIs
    <3>4. QED
      BY <3>1, <3>2, <3>3
  <2>4. QED
    BY <2>1, <2>2, <2>3
<1>4. QED
  BY <1>2, <1>3

LEMMA MaskType ==
    ASSUME NEW injs \in SUBSET InjectionRec
    PROVE  MaskOf(injs) \in SUBSET Flags
BY DEF MaskOf, InjectionRec

\* One time unit later.
LEMMA SoonerIs ==
    ASSUME NEW a \in Nat \cup {None}
    PROVE  /\ Sooner(a) \in Nat \cup {None}
           /\ Sooner(a) = None <=> a = None
           /\ Sooner(a) # 0 => a # 0
           /\ a # None /\ a # 0 => Sooner(a) = a - 1
BY FaultAssumption DEF Sooner

LEMMA PassTimeIs ==
    ASSUME injections \in SUBSET InjectionRec, PassTime
    PROVE  /\ injections' \in SUBSET InjectionRec
           /\ \A inj \in injections' : \E x \in injections :
                 inj.flags = x.flags /\ inj.left = Sooner(x.left) /\ inj.row = x.row
           /\ \A x \in injections : \E inj \in injections' :
                 inj.flags = x.flags /\ inj.left = Sooner(x.left)
<1> DEFINE Later(x) == [x EXCEPT !.left = Sooner(@)]
<1>1. ASSUME NEW x \in injections
      PROVE  /\ Later(x) \in InjectionRec /\ Later(x).flags = x.flags
             /\ Later(x).left = Sooner(x.left) /\ Later(x).row = x.row
  <2>1. x \in InjectionRec /\ x.left \in Nat \cup {None}
    BY DEF InjectionRec
  <2>2. Sooner(x.left) \in Nat \cup {None}
    BY <2>1, SoonerIs
  <2>3. QED
    BY <2>1, <2>2 DEF InjectionRec
<1>2. injections' = {Later(x) : x \in injections}
  BY DEF PassTime
<1> HIDE DEF Later
<1>3. QED
  BY <1>1, <1>2

LEMMA CoversPass ==
    ASSUME injections \in SUBSET InjectionRec, due \in [Flags -> Nat \cup {None}],
           Covers(injections, due), PassTime
    PROVE  Covers(injections', due') /\ due' \in [Flags -> Nat \cup {None}]
<1>1. \A f \in Flags : due[f] \in Nat \cup {None}
  OBVIOUS
<1>2. due' \in [Flags -> Nat \cup {None}] /\ \A f \in Flags : due'[f] = Sooner(due[f])
  BY <1>1, SoonerIs DEF PassTime
<1>3. ASSUME NEW f \in Flags, NEW inj \in injections', f \in inj.flags
      PROVE  due'[f] = None \/ (inj.left # None /\ inj.left <= due'[f])
  <2>1. PICK x \in injections : inj.flags = x.flags /\ inj.left = Sooner(x.left)
    BY PassTimeIs
  <2>2. due[f] = None \/ (x.left # None /\ x.left <= due[f])
    BY <1>3, <2>1 DEF Covers
  <2>3. x.left \in Nat \cup {None} /\ due[f] \in Nat \cup {None} /\ due'[f] = Sooner(due[f])
    BY <1>1, <1>2 DEF InjectionRec
  <2>4. QED
    BY <2>1, <2>2, <2>3, FaultAssumption DEF Sooner
<1>4. ASSUME NEW f \in Flags, due'[f] # 0
      PROVE  \E inj \in injections' : f \in inj.flags /\ inj.left = due'[f]
  <2>1. due[f] # 0
    BY <1>1, <1>2, <1>4, SoonerIs
  <2>2. PICK x \in injections : f \in x.flags /\ x.left = due[f]
    BY <2>1 DEF Covers
  <2>3. PICK inj \in injections' : inj.flags = x.flags /\ inj.left = Sooner(x.left)
    BY PassTimeIs
  <2>4. QED
    BY <1>2, <2>2, <2>3
<1>5. QED
  BY <1>2, <1>3, <1>4 DEF Covers

-----------------------------------------------------------------------------
(* The invariant.                                                          *)

LEMMA FaultStart == Init => FaultInv
<1> SUFFICES ASSUME Init PROVE FaultInv
  OBVIOUS
<1>1. PICK c \in CommandLines : sensors = c.sensors /\ cli = c.faults
  BY DEF Init, FaultInit
<1>2. sensors \in BOOLEAN
  BY <1>1, FaultAssumption
<1>3. cli \in Seq(Scheduled)
  <2>1. cli \in Seq([flags : SUBSET Flags, dur : Nat])
    BY <1>1, FaultAssumption
  <2>2. Len(cli) \in Nat /\ DOMAIN cli = 1 .. Len(cli) /\ cli = [i \in 1 .. Len(cli) |-> cli[i]]
    BY <2>1, LenProperties
  <2>3. \A i \in 1 .. Len(cli) : cli[i] \in Scheduled
    BY <1>1, <2>2 DEF Scheduled
  <2>4. QED
    BY <2>2, <2>3, IsASeq
<1>4. MaskOf({}) = {}
  BY DEF MaskOf
<1>5. TypeOK
  BY <1>2, <1>3, <1>4 DEF TypeOK, Init, FaultInit
<1>6. Covers(injections, due)
  BY DEF Covers, Init, FaultInit
<1>7. RowsKnown /\ LatestKnown
  BY DEF RowsKnown, LatestKnown, Init, FaultInit
<1>8. AckPath
  BY DEF AckPath, InSync, Init, FaultInit
<1>9. QED
  BY <1>5, <1>6, <1>7, <1>8 DEF FaultInv

\* The acks on the way are sets of flags.
LEMMA AckedType ==
    ASSUME toBack \in Seq(SUBSET Flags), NEW flags \in SUBSET Flags
    PROVE  Acked(flags) \in Seq(SUBSET Flags)
<1> DEFINE FlagSets == SUBSET Flags
<1>1. toBack \in Seq(FlagSets) /\ flags \in FlagSets
  OBVIOUS
<1> HIDE DEF FlagSets
<1>2. Acked(flags) \in Seq(FlagSets)
  BY <1>1 DEF Acked
<1>3. QED
  BY <1>2 DEF FlagSets

\* An ack tells the flags of the mask it was sent with, but for those the plant's
\* readings may trip as well.
LEMMA AckTells ==
    ASSUME TypeOK, ~sensors, up, NEW mask \in SUBSET Flags, injected' = mask,
           toBack' = Acked(ReportedFlags(mask, detected, live))
    PROVE  InSync'
<1> DEFINE FlagSets == SUBSET Flags
<1>1. toBack' = Append(toBack, mask \cup detected)
  BY DEF Acked, ReportedFlags
<1>2. toBack \in Seq(FlagSets) /\ mask \cup detected \in FlagSets
  BY DEF TypeOK
<1> HIDE DEF FlagSets
<1>3. toBack' # <<>> /\ toBack'[Len(toBack')] = mask \cup detected
  BY <1>1, <1>2
<1>4. OnlyRequested \intersect (mask \cup detected) = OnlyRequested \intersect mask
  BY DEF TypeOK, OnlyRequested
<1>5. (OnlyRequested \intersect toBack'[Len(toBack')]) = (OnlyRequested \intersect injected')
  BY <1>3, <1>4
<1>6. QED
  BY <1>3, <1>5 DEF InSync, Same

\* Tick, and the sample the backend may receive.
LEMMA TickStep ==
    ASSUME FaultInv, NEW start \in BOOLEAN, NEW det \in SUBSET Flags, sensors \/ det \subseteq UNION Detections,
           NEW reading \in [high : SUBSET Flags, band : SUBSET Flags], NEW readOk \in BOOLEAN,
           NEW arrives \in BOOLEAN, TickAndReport(start, det, reading, readOk, arrives)
    PROVE  FaultInv'
<1> DEFINE sched == Head(cli)
           new == NewInjection(sched.flags, sched.dur, 0)
           all == IF start THEN injections \cup {new} ELSE injections
           kept == Unexpired(all)
           mask == MaskOf(kept)
<1>1. TypeOK
  BY DEF FaultInv
<1>2. Tick(start, det, reading, readOk)
  BY DEF TickAndReport
<1>3. start => /\ sched \in Scheduled /\ sched.flags \in SUBSET Flags /\ sched.dur \in Nat
               /\ sched.flags \subseteq ScheduledFlags /\ Tail(cli) \in Seq(Scheduled)
  <2> SUFFICES ASSUME start PROVE cli # <<>> /\ sched \in Scheduled /\ Tail(cli) \in Seq(Scheduled)
    BY ScheduledType DEF ScheduledFlags
  <2>1. cli # <<>> /\ cli \in Seq(Scheduled)
    BY <1>1, <1>2 DEF Tick, TypeOK
  <2>2. QED
    BY <2>1, HeadTailProperties
<1>4. start => /\ new \in InjectionRec /\ new.flags = sched.flags /\ new.row = 0 /\ new.left # 0
  BY <1>3, InjectionType
<1>5. all \in SUBSET InjectionRec /\ kept \in SUBSET InjectionRec /\ kept \subseteq all
  BY <1>1, <1>4 DEF TypeOK, Unexpired
<1>6. /\ cli' = (IF start THEN Tail(cli) ELSE cli)
      /\ injections' = kept /\ injected' = mask
      /\ UNCHANGED <<sensors, up, toDev, rows, clears, cuts>>
      /\ detected' = (IF sensors THEN detected ELSE det)
      /\ board' = (IF sensors /\ readOk THEN BoardFlags(reading) ELSE board)
      /\ live' = (IF sensors THEN LiveFlags(mask, det, reading, readOk) ELSE live)
      /\ toBack' = (IF mask # injected /\ kept # all THEN Acked(ReportedFlags(mask, detected, live)) ELSE toBack)
      /\ due' = (IF start THEN DueWith(due, sched.flags, sched.dur) ELSE due)
  BY <1>2 DEF Tick
<1>7. mask \in SUBSET Flags
  BY <1>5, MaskType
<1>8. ReportedFlags(mask, detected, live) \in SUBSET Flags
  BY <1>1, <1>7 DEF TypeOK, ReportedFlags
<1>9. TypeOK'
  <2>1. BoardFlags(reading) \in SUBSET Flags
    BY <1>1 DEF TypeOK, BoardFlags
  <2>2. LiveFlags(mask, det, reading, readOk) \in SUBSET Flags
    BY <1>7, <2>1 DEF LiveFlags
  <2>3. {detected', board', live'} \subseteq SUBSET Flags /\ detected' \subseteq UNION Detections
    BY <1>1, <1>6, <2>1, <2>2 DEF TypeOK
  <2>4. toBack' \in Seq(SUBSET Flags)
    <3>1. toBack \in Seq(SUBSET Flags)
      BY <1>1 DEF TypeOK
    <3>2. Acked(ReportedFlags(mask, detected, live)) \in Seq(SUBSET Flags)
      BY <1>8, <3>1, AckedType
    <3>3. toBack' = toBack \/ toBack' = Acked(ReportedFlags(mask, detected, live))
      BY <1>6
    <3>4. QED
      BY <3>1, <3>2, <3>3
  <2>5. cli' \in Seq(Scheduled)
    BY <1>1, <1>3, <1>6 DEF TypeOK
  <2>6. due' \in [Flags -> Nat \cup {None}]
    BY <1>1, <1>3, <1>6, DueWithType DEF TypeOK
  <2>7. injected' = MaskOf(injections')
    BY <1>6
  <2>8. QED
    BY <1>1, <1>5, <1>6, <2>3, <2>4, <2>5, <2>6, <2>7 DEF TypeOK
<1>10. Covers(injections', due')
  <2>1. Covers(injections, due) /\ injections \in SUBSET InjectionRec /\ due \in [Flags -> Nat \cup {None}]
    BY DEF FaultInv, TypeOK
  <2>2. Covers(all, due')
    <3>1. CASE start
      BY <1>3, <1>6, <2>1, <3>1, CoversAdd
    <3>2. CASE ~start
      BY <1>6, <2>1, <3>2
    <3>3. QED
      BY <3>1, <3>2
  <2>3. QED
    BY <1>6, <2>2, CoversUnexpired
<1>11. RowsKnown'
  <2>1. \A inj \in kept : inj \in injections \/ inj.row = 0
    BY <1>4, <1>5
  <2>2. QED
    BY <1>6, <2>1 DEF FaultInv, RowsKnown
<1>12. LatestKnown'
  <2>1. CASE ~arrives
    BY <1>6, <2>1 DEF TickAndReport, FaultInv, LatestKnown
  <2>2. CASE arrives
    <3>1. latest' = [flags |-> Reported', rows |-> OvertempRows(injections')]
      BY <2>2 DEF TickAndReport
    <3>2. Reported' \in SUBSET Flags
      <4>1. injected' \in SUBSET Flags /\ detected' \in SUBSET Flags /\ live' \in SUBSET Flags
        BY <1>6, <1>7, <1>9 DEF TypeOK
      <4>2. Reported' = live' \/ Reported' = injected' \cup detected'
        BY DEF Reported, ReportedFlags
      <4>3. QED
        BY <4>1, <4>2
    <3>3. \A i \in OvertempRows(injections') : i \in DOMAIN rows' /\ "OVERTEMP" \in rows'[i].set
      BY <1>11 DEF RowsKnown, OvertempRows
    <3>4. QED
      BY <3>1, <3>2, <3>3 DEF LatestKnown
  <2>3. QED
    BY <2>1, <2>2
<1>13. AckPath'
  <2> SUFFICES ASSUME ~sensors, cuts = 0 PROVE up' /\ InSync'
    BY <1>6 DEF AckPath
  <2>1. up /\ InSync
    BY DEF FaultInv, AckPath
  <2>2. CASE mask # injected /\ kept # all
    BY <1>1, <1>6, <1>7, <2>1, <2>2, AckTells
  <2>3. CASE ~(mask # injected /\ kept # all)
    <3>1. OnlyRequested \intersect mask = OnlyRequested \intersect injected
      <4>1. CASE mask = injected
        BY <4>1
      <4>2. CASE kept = all
        <5>1. injected = MaskOf(injections)
          BY <1>1 DEF TypeOK
        <5>2. CASE ~start
          BY <4>2, <5>1, <5>2
        <5>3. CASE start
          <6>1. mask = injected \cup sched.flags
            <7>1. kept = injections \cup {new} /\ new.flags = sched.flags
              BY <1>4, <4>2, <5>3
            <7> HIDE DEF new, kept
            <7>2. MaskOf(kept) = MaskOf(injections) \cup sched.flags
              BY <7>1 DEF MaskOf
            <7>3. QED
              BY <5>1, <7>2
          <6>2. sched.flags \intersect OnlyRequested = {}
            BY <1>3, <5>3 DEF OnlyRequested, ScheduledFlags
          <6>3. QED
            BY <6>1, <6>2
        <5>4. QED
          BY <5>2, <5>3
      <4>3. QED
        BY <2>3, <4>1, <4>2
    <3>2. toBack' = toBack
      BY <1>6, <2>3
    <3>3. OnlyRequested \intersect injected' = OnlyRequested \intersect injected
      BY <1>6, <3>1
    <3>4. QED
      BY <1>6, <2>1, <3>2, <3>3 DEF InSync, Same
  <2>4. QED
    BY <2>2, <2>3
<1>14. QED
  BY <1>9, <1>10, <1>11, <1>12, <1>13 DEF FaultInv

\* injections_ is replaced while a frame is handled, and an ack is sent.
LEMMA InjectionsStep ==
    ASSUME FaultInv, toDev # <<>>, NEW injs \in SUBSET InjectionRec, Injections(injs), UNCHANGED latest,
           due' \in [Flags -> Nat \cup {None}], Covers(injs, due'),
           \A inj \in injs : inj.row # 0 => inj.row \in DOMAIN rows /\ inj.flags \subseteq rows[inj.row].set
    PROVE  FaultInv'
<1> DEFINE mask == MaskOf(injs)
           frames == InjectFrame \cup ClearFrame
<1>1. TypeOK
  BY DEF FaultInv
<1>2. mask \in SUBSET Flags
  BY MaskType
<1>3. /\ injections' = injs /\ injected' = mask /\ toDev' = Tail(toDev)
      /\ toBack' = Acked(ReportedFlags(mask, detected, live))
      /\ UNCHANGED <<sensors, cli, detected, board, live, up, rows, clears, cuts>>
  BY DEF Injections
<1>4. toDev \in Seq(frames)
  BY <1>1 DEF TypeOK
<1> HIDE DEF frames, mask
<1>5. /\ Tail(toDev) \in Seq(frames) /\ DOMAIN Tail(toDev) = 1 .. (Len(toDev) - 1)
      /\ Len(toDev) \in Nat
      /\ \A i \in 1 .. (Len(toDev) - 1) : Tail(toDev)[i] = toDev[i + 1]
  BY <1>4, HeadTailProperties
<1>6. ReportedFlags(mask, detected, live) \in SUBSET Flags
  BY <1>1, <1>2 DEF TypeOK, ReportedFlags
<1>7. TypeOK'
  <2>1. toBack' \in Seq(SUBSET Flags)
    BY <1>1, <1>3, <1>6, AckedType DEF TypeOK
  <2>2. injected' = MaskOf(injections')
    BY <1>3 DEF mask
  <2>3. toDev' \in Seq(InjectFrame \cup ClearFrame)
    BY <1>3, <1>5 DEF frames
  <2>4. QED
    BY <1>1, <1>3, <2>1, <2>2, <2>3 DEF TypeOK
<1>8. RowsKnown'
  <2>1. ASSUME NEW i \in DOMAIN toDev', toDev'[i].kind = "inject"
        PROVE  toDev'[i].row \in DOMAIN rows' /\ toDev'[i].set \subseteq rows'[toDev'[i].row].set
    <3>1. i + 1 \in DOMAIN toDev /\ toDev'[i] = toDev[i + 1]
      BY <1>3, <1>4, <1>5
    <3>2. QED
      BY <1>3, <2>1, <3>1 DEF FaultInv, RowsKnown
  <2>2. QED
    BY <1>3, <2>1 DEF RowsKnown
<1>9. LatestKnown'
  BY <1>3 DEF FaultInv, LatestKnown
<1>10. AckPath'
  <2> SUFFICES ASSUME ~sensors, cuts = 0 PROVE up' /\ InSync'
    BY <1>3 DEF AckPath
  <2>1. up
    BY DEF FaultInv, AckPath
  <2>2. QED
    BY <1>1, <1>2, <1>3, <2>1, AckTells
<1>11. QED
  BY <1>3, <1>7, <1>8, <1>9, <1>10 DEF FaultInv

LEMMA HandleFaultInjectStep == ASSUME FaultInv, HandleFaultInject, UNCHANGED latest PROVE FaultInv'
<1> DEFINE m == Head(toDev)
           cleared == Cleared(m.clear)
           left == [f \in Flags |-> IF f \in m.clear THEN 0 ELSE due[f]]
           new == NewInjection(m.set, m.dur, m.row)
           injs == IF m.set = {} THEN cleared ELSE cleared \cup {new}
           frames == InjectFrame \cup ClearFrame
<1>1. toDev # <<>> /\ m.kind = "inject" /\ Injections(injs) /\ due' = DueWith(left, m.set, m.dur)
  BY DEF HandleFaultInject
<1>2. /\ TypeOK /\ injections \in SUBSET InjectionRec /\ due \in [Flags -> Nat \cup {None}]
      /\ Covers(injections, due) /\ RowsKnown
  BY DEF FaultInv, TypeOK
<1>3. 1 \in DOMAIN toDev /\ m = toDev[1] /\ m \in frames
  <2>1. toDev \in Seq(frames)
    BY <1>2 DEF TypeOK
  <2> HIDE DEF frames
  <2>2. Len(toDev) \in Nat \ {0} /\ Head(toDev) = toDev[1] /\ Head(toDev) \in frames
    BY <1>1, <2>1, EmptySeq, HeadTailProperties
  <2>3. QED
    BY <2>1, <2>2
<1>4. m.set \in SUBSET Flags /\ m.clear \in SUBSET Flags /\ m.dur \in Nat /\ m.row \in Nat
  <2>1. m \in InjectFrame
    BY <1>1, <1>3 DEF ClearFrame
  <2>2. QED
    BY <2>1 DEF InjectFrame
<1>5. m.row \in DOMAIN rows /\ m.set \subseteq rows[m.row].set
  BY <1>1, <1>2, <1>3 DEF RowsKnown
<1> HIDE DEF m
<1>6. cleared \in SUBSET InjectionRec /\ new \in InjectionRec /\ new.row = m.row /\ new.flags = m.set
  BY <1>2, <1>4, ClearedIs, InjectionType
<1>7. left \in [Flags -> Nat \cup {None}] /\ Covers(cleared, left)
  BY <1>2, <1>4, CoversCleared
<1>8. Covers(injs, due')
  <2>1. CASE m.set = {}
    <3>1. \A f \in Flags : due'[f] = left[f]
      BY <1>1, <1>7, <2>1 DEF DueWith
    <3> HIDE DEF left, cleared
    <3>2. Covers(cleared, due')
      BY <1>7, <3>1 DEF Covers
    <3>3. QED
      BY <2>1, <3>2
  <2>2. CASE m.set # {}
    <3> HIDE DEF left, cleared
    <3>1. Covers(cleared \cup {new}, DueWith(left, m.set, m.dur))
      BY <1>4, <1>6, <1>7, CoversAdd
    <3>2. QED
      BY <1>1, <2>2, <3>1
  <2>3. QED
    BY <2>1, <2>2
<1>9. due' \in [Flags -> Nat \cup {None}]
  <2> HIDE DEF left
  <2>1. QED
    BY <1>1, <1>4, <1>7, DueWithType
<1>10. ASSUME NEW inj \in injs, inj.row # 0
       PROVE  inj.row \in DOMAIN rows /\ inj.flags \subseteq rows[inj.row].set
  <2>1. CASE inj \in cleared
    <3>1. PICK x \in injections : inj.flags = x.flags \ m.clear /\ inj.row = x.row
      BY <1>2, <1>4, <2>1, ClearedIs
    <3>2. QED
      BY <1>2, <1>10, <3>1 DEF RowsKnown
  <2>2. CASE inj = new
    BY <1>5, <1>6, <2>2
  <2>3. QED
    BY <1>10, <2>1, <2>2
<1>11. injs \in SUBSET InjectionRec
  BY <1>6
<1> HIDE DEF injs
<1>12. QED
  BY <1>1, <1>8, <1>9, <1>10, <1>11, InjectionsStep

\* Nothing injected, nothing due.
LEMMA CoversNothing ==
    /\ Covers({}, [f \in Flags |-> 0])
    /\ [f \in Flags |-> 0] \in [Flags -> Nat \cup {None}]
    /\ MaskOf({}) = {}
BY DEF Covers, MaskOf

LEMMA HandleClearFaultsStep == ASSUME FaultInv, HandleClearFaults, UNCHANGED latest PROVE FaultInv'
<1>1. toDev # <<>> /\ Injections({}) /\ due' = [f \in Flags |-> 0]
  BY DEF HandleClearFaults
<1>2. {} \in SUBSET InjectionRec
  OBVIOUS
<1>3. due' \in [Flags -> Nat \cup {None}] /\ Covers({}, due')
  BY <1>1, CoversNothing
<1>4. QED
  BY <1>1, <1>2, <1>3, InjectionsStep

\* Whoever empties the channel leaves sequences of frames.
LEMMA EmptyChannel == <<>> \in Seq(SUBSET Flags) /\ <<>> \in Seq(InjectFrame \cup ClearFrame)
BY EmptySeq

LEMMA RebootStep == ASSUME FaultInv, Reboot, UNCHANGED latest PROVE FaultInv'
<1>1. /\ cuts' = cuts + 1 /\ up' = FALSE /\ toDev' = <<>> /\ (toBack' = toBack \/ toBack' = <<>>)
      /\ injections' = {} /\ injected' = {} /\ due' = [f \in Flags |-> 0]
      /\ UNCHANGED <<sensors, cli, detected, board, live, rows, clears>>
  BY DEF Reboot
<1>2. TypeOK /\ LatestKnown
  BY DEF FaultInv
<1>3. TypeOK'
  <2>1. toBack' \in Seq(SUBSET Flags)
    BY <1>1, <1>2, EmptyChannel, Zenon DEF TypeOK
  <2>2. due' \in [Flags -> Nat \cup {None}] /\ injected' = MaskOf(injections')
    BY <1>1, CoversNothing
  <2>3. toDev' \in Seq(InjectFrame \cup ClearFrame)
    BY <1>1
  <2>4. injections' \in SUBSET InjectionRec /\ cuts' \in Nat
    BY <1>1, <1>2 DEF TypeOK
  <2>5. up' \in BOOLEAN
    BY <1>1
  <2>6. QED
    BY <1>1, <1>2, <2>1, <2>2, <2>3, <2>4, <2>5, Zenon DEF TypeOK
<1>4. Covers(injections', due')
  BY <1>1, CoversNothing
<1>5. RowsKnown' /\ LatestKnown'
  BY <1>1, <1>2 DEF RowsKnown, LatestKnown
<1>6. AckPath'
  BY <1>1, <1>2 DEF TypeOK, AckPath
<1>7. QED
  BY <1>3, <1>4, <1>5, <1>6 DEF FaultInv

LEMMA CutStep == ASSUME FaultInv, Cut, UNCHANGED latest PROVE FaultInv'
<1>1. /\ cuts' = cuts + 1 /\ up' = FALSE /\ toDev' = <<>> /\ toBack' = <<>>
      /\ UNCHANGED <<deviceVars, rows, clears, due>>
  BY DEF Cut
<1>2. TypeOK /\ Covers(injections, due) /\ RowsKnown /\ LatestKnown
  BY DEF FaultInv
<1>3. TypeOK'
  <2>1. cuts' \in Nat
    BY <1>1, <1>2 DEF TypeOK
  <2>2. up' \in BOOLEAN
    BY <1>1
  <2>3. toBack' \in Seq(SUBSET Flags) /\ toDev' \in Seq(InjectFrame \cup ClearFrame)
    BY <1>1, EmptyChannel, Zenon
  <2>4. UNCHANGED <<sensors, cli, injections, injected, detected, board, live, rows, clears, due>>
    BY <1>1 DEF deviceVars
  <2>5. QED
    BY <1>2, <2>1, <2>2, <2>3, <2>4, Zenon DEF TypeOK
<1>4. Covers(injections', due')
  BY <1>1, <1>2 DEF deviceVars
<1>5. RowsKnown' /\ LatestKnown'
  BY <1>1, <1>2 DEF RowsKnown, LatestKnown, deviceVars
<1>6. AckPath'
  BY <1>1, <1>2 DEF TypeOK, AckPath
<1>7. QED
  BY <1>3, <1>4, <1>5, <1>6 DEF FaultInv

LEMMA ReconnectStep == ASSUME FaultInv, Reconnect, UNCHANGED latest PROVE FaultInv'
<1>1. ~up /\ up' = TRUE /\ UNCHANGED <<deviceVars, toDev, toBack, rows, clears, cuts, due>>
  BY DEF Reconnect
<1>2. TypeOK /\ Covers(injections, due) /\ RowsKnown /\ LatestKnown /\ AckPath
  BY DEF FaultInv
<1>3. TypeOK'
  BY <1>1, <1>2 DEF TypeOK, deviceVars
<1>4. Covers(injections', due')
  BY <1>1, <1>2 DEF deviceVars
<1>5. RowsKnown' /\ LatestKnown'
  BY <1>1, <1>2 DEF RowsKnown, LatestKnown, deviceVars
<1>6. AckPath'
  BY <1>1, <1>2 DEF AckPath, deviceVars
<1>7. QED
  BY <1>3, <1>4, <1>5, <1>6 DEF FaultInv

\* A row is stored for a request.
LEMMA RowAppended ==
    ASSUME rows \in Seq(FaultRow), NEW row \in FaultRow, rows' = Append(rows, row)
    PROVE  /\ rows' \in Seq(FaultRow) /\ rows' # <<>>
           /\ Len(rows) + 1 \in DOMAIN rows' /\ Len(rows') = Len(rows) + 1
           /\ rows'[Len(rows) + 1] = row
           /\ \A i \in DOMAIN rows : i \in DOMAIN rows' /\ rows'[i] = rows[i]
<1> HIDE DEF FaultRow
<1>1. QED
  OBVIOUS

LEMMA PostFaultStep == ASSUME FaultInv, NEW r \in Requests, PostFault(r), UNCHANGED latest PROVE FaultInv'
<1> DEFINE row == [set |-> r.set, ack |-> None]
           m == [kind |-> "inject", set |-> r.set, clear |-> r.clear, dur |-> r.dur, row |-> Len(rows) + 1]
           frames == InjectFrame \cup ClearFrame
<1>1. /\ rows' = Append(rows, row)
      /\ toDev' = (IF up THEN Append(toDev, m) ELSE toDev)
      /\ UNCHANGED <<deviceVars, up, toBack, clears, cuts, due>>
  BY DEF PostFault
<1>2. TypeOK /\ Covers(injections, due) /\ RowsKnown /\ LatestKnown /\ AckPath
  BY DEF FaultInv
<1>3. rows \in Seq(FaultRow) /\ toDev \in Seq(frames) /\ Len(rows) \in Nat
  BY <1>2 DEF TypeOK
<1>4. row \in FaultRow /\ m \in frames /\ row.set = r.set
  BY <1>3, FaultAssumption DEF FaultRow, InjectFrame
<1>5. m.row = Len(rows) + 1 /\ m.set = r.set /\ row.ack = None
  OBVIOUS
<1> HIDE DEF row, m, frames
<1>6. /\ rows' \in Seq(FaultRow) /\ rows' # <<>>
      /\ Len(rows) + 1 \in DOMAIN rows' /\ Len(rows') = Len(rows) + 1
      /\ rows'[Len(rows) + 1] = row
      /\ \A i \in DOMAIN rows : i \in DOMAIN rows' /\ rows'[i] = rows[i]
  BY <1>1, <1>3, <1>4, RowAppended
<1>7. /\ toDev' \in Seq(frames)
      /\ \A i \in DOMAIN toDev' : (i \in DOMAIN toDev /\ toDev'[i] = toDev[i]) \/ toDev'[i] = m
      /\ up => toDev' # <<>>
  <2>1. CASE up
    <3>1. toDev' = Append(toDev, m)
      BY <1>1, <2>1
    <3>2. QED
      BY <1>3, <1>4, <3>1
  <2>2. CASE ~up
    BY <1>1, <1>3, <2>2
  <2>3. QED
    BY <2>1, <2>2
<1>8. UNCHANGED <<sensors, cli, injections, injected, detected, board, live>>
  BY <1>1 DEF deviceVars
<1>9. TypeOK'
  <2>1. toDev' \in Seq(InjectFrame \cup ClearFrame)
    BY <1>7 DEF frames
  <2>2. QED
    BY <1>1, <1>2, <1>6, <1>8, <2>1, Zenon DEF TypeOK
<1>10. Covers(injections', due')
  BY <1>1, <1>2, <1>8
<1>11. RowsKnown'
  <2>1. ASSUME NEW i \in DOMAIN toDev', toDev'[i].kind = "inject"
        PROVE  toDev'[i].row \in DOMAIN rows' /\ toDev'[i].set \subseteq rows'[toDev'[i].row].set
    <3>1. CASE i \in DOMAIN toDev /\ toDev'[i] = toDev[i]
      BY <1>2, <1>6, <2>1, <3>1 DEF RowsKnown
    <3>2. CASE toDev'[i] = m
      BY <1>4, <1>5, <1>6, <3>2
    <3>3. QED
      BY <1>7, <3>1, <3>2
  <2>2. QED
    BY <1>2, <1>6, <1>8, <2>1 DEF RowsKnown
<1>12. LatestKnown'
  BY <1>2, <1>6 DEF LatestKnown
<1>13. AckPath'
  <2> SUFFICES ASSUME ~sensors, cuts = 0 PROVE up' /\ InSync'
    BY <1>1, <1>8 DEF AckPath
  <2>1. up /\ InSync
    BY <1>2 DEF AckPath
  <2>2. toBack' = toBack /\ up' = up /\ injected' = injected
    BY <1>1, <1>8
  <2>3. rows'[Len(rows')].ack = None /\ toDev' # <<>>
    BY <1>5, <1>6, <1>7, <2>1
  <2>4. QED
    BY <2>1, <2>2, <2>3 DEF InSync, Same
<1>14. QED
  BY <1>9, <1>10, <1>11, <1>12, <1>13 DEF FaultInv

LEMMA PostClearStep == ASSUME FaultInv, PostClear, UNCHANGED latest PROVE FaultInv'
<1> DEFINE m == [kind |-> "clear_faults"]
           frames == InjectFrame \cup ClearFrame
<1>1. /\ up /\ clears' = clears + 1 /\ toDev' = Append(toDev, m)
      /\ UNCHANGED <<deviceVars, up, toBack, rows, cuts, due>>
  BY DEF PostClear
<1>2. TypeOK /\ Covers(injections, due) /\ RowsKnown /\ LatestKnown /\ AckPath
  BY DEF FaultInv
<1>3. toDev \in Seq(frames) /\ m \in frames /\ m.kind # "inject"
  BY <1>2 DEF TypeOK, ClearFrame
<1> HIDE DEF m, frames
<1>4. /\ toDev' \in Seq(frames)
      /\ \A i \in DOMAIN toDev' : (i \in DOMAIN toDev /\ toDev'[i] = toDev[i]) \/ toDev'[i] = m
      /\ toDev' # <<>>
  BY <1>1, <1>3
<1>5. UNCHANGED <<sensors, cli, injections, injected, detected, board, live>>
  BY <1>1 DEF deviceVars
<1>6. TypeOK'
  <2>1. toDev' \in Seq(InjectFrame \cup ClearFrame)
    BY <1>4 DEF frames
  <2>2. clears' \in Nat
    BY <1>1, <1>2 DEF TypeOK
  <2>3. QED
    BY <1>1, <1>2, <1>5, <2>1, <2>2, Zenon DEF TypeOK
<1>7. Covers(injections', due')
  BY <1>1, <1>2, <1>5
<1>8. RowsKnown'
  BY <1>1, <1>2, <1>3, <1>4, <1>5 DEF RowsKnown
<1>9. LatestKnown'
  BY <1>1, <1>2 DEF LatestKnown
<1>10. AckPath'
  BY <1>1, <1>2, <1>4, <1>5 DEF AckPath, InSync, Same
<1>11. QED
  BY <1>6, <1>7, <1>8, <1>9, <1>10 DEF FaultInv

\* An ack changes no row but the newest, and of it only the ack.
LEMMA AckedRowsAre ==
    ASSUME rows \in Seq(FaultRow), NEW flags \in SUBSET Flags
    PROVE  /\ AckedRows(flags) \in Seq(FaultRow)
           /\ DOMAIN AckedRows(flags) = DOMAIN rows /\ Len(AckedRows(flags)) = Len(rows)
           /\ \A i \in DOMAIN rows : AckedRows(flags)[i].set = rows[i].set
           /\ rows # <<>> => AckedRows(flags)[Len(rows)].ack = flags
<1> DEFINE acked == AckedRows(flags)
           n == Len(rows)
<1>1. n \in Nat /\ DOMAIN rows = 1 .. n
  BY LenProperties
<1>2. ASSUME NEW i \in 1 .. n
      PROVE  /\ rows[i] \in FaultRow /\ [rows[i] EXCEPT !.ack = flags] \in FaultRow
             /\ [rows[i] EXCEPT !.ack = flags].set = rows[i].set
             /\ [rows[i] EXCEPT !.ack = flags].ack = flags
  <2>1. rows[i] \in FaultRow
    BY <1>1, ElementOfSeq
  <2>2. QED
    BY <2>1 DEF FaultRow
<1>3. /\ DOMAIN acked = 1 .. n
      /\ \A i \in 1 .. n : acked[i] = IF i = n THEN [rows[i] EXCEPT !.ack = flags] ELSE rows[i]
      /\ acked = [i \in 1 .. n |-> acked[i]]
  BY <1>1 DEF AckedRows
<1> HIDE DEF acked, n
<1>4. \A i \in 1 .. n : acked[i] \in FaultRow /\ acked[i].set = rows[i].set
  BY <1>2, <1>3
<1>5. acked \in Seq(FaultRow)
  BY <1>1, <1>3, <1>4, IsASeq
<1>6. Len(acked) = n
  BY <1>1, <1>3, <1>5
<1>7. ASSUME rows # <<>> PROVE acked[n].ack = flags
  <2>1. n \in 1 .. n
    BY <1>1, <1>7, EmptySeq DEF n
  <2>2. QED
    BY <1>2, <1>3, <2>1
<1>8. QED
  BY <1>1, <1>3, <1>4, <1>5, <1>6, <1>7 DEF acked, n

LEMMA FaultAckStep == ASSUME FaultInv, FaultAck, UNCHANGED latest PROVE FaultInv'
<1> DEFINE flags == Head(toBack)
           n == Len(rows)
           FlagSets == SUBSET Flags
<1>1. /\ toBack # <<>> /\ rows' = AckedRows(flags) /\ toBack' = Tail(toBack)
      /\ UNCHANGED <<deviceVars, up, toDev, clears, cuts, due>>
  BY DEF FaultAck
<1>2. TypeOK /\ Covers(injections, due) /\ RowsKnown /\ LatestKnown /\ AckPath
  BY DEF FaultInv
<1>3. rows \in Seq(FaultRow) /\ toBack \in Seq(FlagSets)
  BY <1>2 DEF TypeOK
<1>4. /\ flags \in FlagSets /\ toBack' \in Seq(FlagSets)
      /\ toBack' = <<>> => toBack[Len(toBack)] = flags
      /\ toBack' # <<>> => toBack'[Len(toBack')] = toBack[Len(toBack)]
  <2> HIDE DEF FlagSets
  <2>1. Len(toBack) \in Nat \ {0} /\ flags \in FlagSets /\ Tail(toBack) \in Seq(FlagSets) /\ flags = toBack[1]
    BY <1>1, <1>3, EmptySeq, HeadTailProperties
  <2>2. /\ Len(Tail(toBack)) = Len(toBack) - 1
        /\ \A i \in 1 .. (Len(toBack) - 1) : Tail(toBack)[i] = toBack[i + 1]
    BY <1>1, <1>3, HeadTailProperties
  <2>3. ASSUME Tail(toBack) = <<>> PROVE Len(toBack) = 1
    <3> DEFINE before == Len(toBack)
               after == Len(Tail(toBack))
    <3>1. before \in Nat /\ after = before - 1
      BY <2>1, <2>2, Zenon
    <3>2. after = 0
      BY <2>3, EmptySeq, Zenon
    <3> HIDE DEF before, after
    <3>3. before = 1
      BY <3>1, <3>2
    <3>4. QED
      BY <3>3 DEF before
  <2>4. ASSUME Tail(toBack) # <<>> PROVE Tail(toBack)[Len(Tail(toBack))] = toBack[Len(toBack)]
    <3>1. Len(Tail(toBack)) \in Nat \ {0}
      BY <2>1, <2>4, EmptySeq
    <3>2. Len(toBack) - 1 \in 1 .. (Len(toBack) - 1) /\ (Len(toBack) - 1) + 1 = Len(toBack)
      BY <2>1, <2>2, <3>1
    <3>3. QED
      BY <2>2, <3>2
  <2>5. toBack' = <<>> => toBack[Len(toBack)] = flags
    BY <1>1, <2>1, <2>3
  <2>6. QED
    BY <1>1, <2>1, <2>4, <2>5
<1> HIDE DEF flags
<1>5. /\ rows' \in Seq(FaultRow) /\ DOMAIN rows' = DOMAIN rows /\ Len(rows') = n
      /\ \A i \in DOMAIN rows : rows'[i].set = rows[i].set
      /\ rows # <<>> => rows'[n].ack = flags
  BY <1>1, <1>3, <1>4, AckedRowsAre
<1>6. UNCHANGED <<sensors, cli, injections, injected, detected, board, live>>
  BY <1>1 DEF deviceVars
<1>7. TypeOK'
  <2>1. toBack' \in Seq(SUBSET Flags)
    BY <1>4
  <2>2. QED
    BY <1>1, <1>2, <1>5, <1>6, <2>1, Zenon DEF TypeOK
<1>8. Covers(injections', due')
  BY <1>1, <1>2, <1>6
<1>9. RowsKnown'
  BY <1>1, <1>2, <1>5, <1>6 DEF RowsKnown
<1>10. LatestKnown'
  BY <1>2, <1>5 DEF LatestKnown
<1>11. AckPath'
  <2> SUFFICES ASSUME ~sensors, cuts = 0 PROVE up' /\ InSync'
    BY <1>1, <1>6 DEF AckPath
  <2>1. up /\ InSync
    BY <1>2 DEF AckPath
  <2>2. OnlyRequested \intersect toBack[Len(toBack)] = OnlyRequested \intersect injected
    BY <1>1, <2>1 DEF InSync, Same
  <2>3. flags # None
    BY <1>4, FaultAssumption
  <2>4. rows' # <<>> => rows # <<>>
    BY <1>3, <1>5
  <2>5. QED
    BY <1>1, <1>4, <1>5, <1>6, <2>1, <2>2, <2>3, <2>4 DEF InSync, Same
<1>12. QED
  BY <1>7, <1>8, <1>9, <1>10, <1>11 DEF FaultInv

LEMMA PassTimeStep == ASSUME FaultInv, PassTime, UNCHANGED latest PROVE FaultInv'
<1>1. TypeOK /\ Covers(injections, due) /\ RowsKnown /\ LatestKnown /\ AckPath
  BY DEF FaultInv
<1>2. UNCHANGED <<sensors, cli, injected, detected, board, live, up, toDev, toBack, rows, clears, cuts>>
  BY DEF PassTime, linkVars
<1>3. injections \in SUBSET InjectionRec /\ due \in [Flags -> Nat \cup {None}]
  BY <1>1 DEF TypeOK
<1>4. Covers(injections', due') /\ due' \in [Flags -> Nat \cup {None}]
  BY <1>1, <1>3, CoversPass
<1>5. injections' \in SUBSET InjectionRec /\ MaskOf(injections') = MaskOf(injections)
  <2>1. /\ injections' \in SUBSET InjectionRec
        /\ \A inj \in injections' : \E x \in injections : inj.flags = x.flags
        /\ \A x \in injections : \E inj \in injections' : inj.flags = x.flags
    BY <1>3, PassTimeIs
  <2>2. QED
    BY <2>1 DEF MaskOf
<1>6. TypeOK'
  BY <1>1, <1>2, <1>4, <1>5, Zenon DEF TypeOK
<1>7. RowsKnown'
  <2>1. \A inj \in injections' : \E x \in injections : inj.flags = x.flags /\ inj.row = x.row
    BY <1>3, PassTimeIs
  <2>2. QED
    BY <1>1, <1>2, <2>1 DEF RowsKnown
<1>8. LatestKnown'
  BY <1>1, <1>2 DEF LatestKnown
<1>9. AckPath'
  BY <1>1, <1>2 DEF AckPath, InSync, Same
<1>10. QED
  BY <1>4, <1>6, <1>7, <1>8, <1>9 DEF FaultInv

LEMMA FaultKept == FaultInv /\ [Next]_vars => FaultInv'
<1> SUFFICES ASSUME FaultInv, [Next]_vars PROVE FaultInv'
  OBVIOUS
<1>1. ASSUME NEW arrives \in BOOLEAN, Ticking(arrives) PROVE FaultInv'
  <2>1. PICK start \in BOOLEAN, in \in TickInputs : TickAndReport(start, in[1], in[2], in[3], arrives)
    BY <1>1 DEF Ticking
  <2>2. /\ in[1] \in SUBSET Flags /\ (sensors \/ in[1] \subseteq UNION Detections)
        /\ in[2] \in [high : SUBSET Flags, band : SUBSET Flags] /\ in[3] \in BOOLEAN
    <3> DEFINE none == [high |-> {}, band |-> {}]
    <3>1. \/ sensors /\ \E reading \in BoardReadings : in = <<{}, reading, TRUE>>
          \/ \E det \in Detections : in = <<det, none, FALSE>>
      BY Zenon DEF TickInputs
    <3>2. none \in [high : SUBSET Flags, band : SUBSET Flags]
      OBVIOUS
    <3> HIDE DEF none
    <3>3. CASE sensors /\ \E reading \in BoardReadings : in = <<{}, reading, TRUE>>
      <4>1. PICK reading \in BoardReadings : in = <<{}, reading, TRUE>>
        BY <3>3
      <4>2. in[1] = {} /\ in[2] = reading /\ in[3] = TRUE
        BY <4>1
      <4>3. reading \in [high : SUBSET Flags, band : SUBSET Flags]
        BY FaultAssumption
      <4>4. QED
        BY <3>3, <4>2, <4>3, Zenon
    <3>4. CASE \E det \in Detections : in = <<det, none, FALSE>>
      <4>1. PICK det \in Detections : in = <<det, none, FALSE>>
        BY <3>4
      <4>2. in[1] = det /\ in[2] = none /\ in[3] = FALSE
        BY <4>1
      <4>3. det \in SUBSET Flags /\ det \subseteq UNION Detections
        BY FaultAssumption
      <4>4. QED
        BY <3>2, <4>2, <4>3, Zenon
    <3>5. QED
      BY <3>1, <3>3, <3>4
  <2>3. QED
    <3> DEFINE det == in[1]
               reading == in[2]
               readOk == in[3]
    <3>1. TickAndReport(start, det, reading, readOk, arrives)
      BY <2>1
    <3>2. /\ det \in SUBSET Flags /\ (sensors \/ det \subseteq UNION Detections)
          /\ reading \in [high : SUBSET Flags, band : SUBSET Flags] /\ readOk \in BOOLEAN
      BY <2>2
    <3> HIDE DEF det, reading, readOk
    <3>3. QED
      BY <3>1, <3>2, TickStep
<1>2. CASE FaultStep
  <2>1. UNCHANGED latest
    BY <1>2 DEF FaultStep
  <2>2. CASE HandleFaultInject
    BY <2>1, <2>2, HandleFaultInjectStep
  <2>3. CASE HandleClearFaults
    BY <2>1, <2>3, HandleClearFaultsStep
  <2>4. CASE Reboot
    BY <2>1, <2>4, RebootStep
  <2>5. CASE Cut
    BY <2>1, <2>5, CutStep
  <2>6. CASE Reconnect
    BY <2>1, <2>6, ReconnectStep
  <2>7. ASSUME NEW r \in Requests, PostFault(r) PROVE FaultInv'
    BY <2>1, <2>7, PostFaultStep
  <2>8. CASE PostClear
    BY <2>1, <2>8, PostClearStep
  <2>9. CASE FaultAck
    BY <2>1, <2>9, FaultAckStep
  <2>10. CASE PassTime
    BY <2>1, <2>10, PassTimeStep
  <2>11. QED
    BY <1>2, <2>2, <2>3, <2>4, <2>5, <2>6, <2>7, <2>8, <2>9, <2>10 DEF FaultStep
<1>3. CASE UNCHANGED vars
  <2>1. UNCHANGED <<sensors, cli, injections, injected, detected, board, live, up, toDev, toBack, rows,
                    clears, cuts, due, latest>>
    BY <1>3 DEF vars, faultVars, deviceVars, linkVars
  <2>2. TypeOK' /\ Covers(injections', due')
    BY <2>1 DEF FaultInv, TypeOK
  <2>3. RowsKnown' /\ LatestKnown'
    BY <2>1 DEF FaultInv, RowsKnown, LatestKnown
  <2>4. AckPath'
    BY <2>1 DEF FaultInv, AckPath, InSync, Same
  <2>5. QED
    BY <2>2, <2>3, <2>4 DEF FaultInv
<1>4. QED
  BY <1>1, <1>2, <1>3 DEF Next

\* The inductive invariant holds in every state the device, the channel and the
\* backend's handlers reach.
THEOREM FaultInvariant == Spec => []FaultInv
<1>1. QED
  BY FaultStart, FaultKept, PTL DEF Spec

-----------------------------------------------------------------------------
(* The properties.                                                         *)

\* Every variable keeps its type: injections_ and the mask always agree, frames and
\* rows are well formed.
THEOREM TypeCorrect == Spec => []TypeOK
<1>1. FaultInv => TypeOK
  BY DEF FaultInv
<1>2. QED
  BY <1>1, FaultInvariant, PTL

\* However injections overlap, expire, are cleared or are lost with a reboot, a flag
\* is injected exactly while something still asks for it, or until the tick that
\* notices its end (updateInjections, handleFaultInject).
THEOREM FlagsLastAsAsked == Spec => []InjectedWhileDue
<1>1. FaultInv => InjectedWhileDue
  <2> SUFFICES ASSUME FaultInv, NEW f \in Flags
               PROVE  f \in injected <=>
                        \/ due[f] # 0
                        \/ \E inj \in injections : inj.left = 0 /\ f \in inj.flags
    BY DEF InjectedWhileDue
  <2>1. /\ f \in injected <=> \E inj \in injections : f \in inj.flags
        /\ \A inj \in injections : inj.left \in Nat \cup {None}
    BY DEF FaultInv, TypeOK, MaskOf, InjectionRec
  <2>2. /\ \A inj \in injections : f \in inj.flags =>
              due[f] = None \/ (inj.left # None /\ inj.left <= due[f])
        /\ due[f] # 0 => \E inj \in injections : f \in inj.flags /\ inj.left = due[f]
    BY DEF FaultInv, Covers
  <2>3. ASSUME due[f] = 0, NEW inj \in injections, f \in inj.flags PROVE inj.left = 0
    <3>1. inj.left # None /\ inj.left <= 0
      BY <2>2, <2>3, FaultAssumption
    <3>2. QED
      BY <2>1, <3>1
  <2>4. QED
    BY <2>1, <2>2, <2>3
<1>2. QED
  BY <1>1, FaultInvariant, PTL

\* As long as the channel was never cut, an idle channel means that the newest row's
\* ack tells which requested flags the device runs, although fault_injection_ack
\* credits every ack, those of expiries and of earlier requests too, to that row.
THEOREM NewestAckTells == Spec => []AckInSync
<1>1. FaultInv => AckInSync
  BY DEF FaultInv, AckPath, InSync, Same, AckInSync
<1>2. QED
  BY <1>1, FaultInvariant, PTL

\* A test that is met is among the causes.
LEMMA CauseOf ==
    ASSUME NEW ctx
    PROVE  /\ CauseTest(ctx).injected => "injected" \in Causes(ctx)
           /\ "nominal" \in Causes(ctx) => \A c \in DOMAIN CauseTest(ctx) : ~CauseTest(ctx)[c]
<1> DEFINE test == CauseTest(ctx)
<1>1. "injected" \in DOMAIN test /\ "nominal" \notin DOMAIN test
  BY DEF CauseTest
<1>2. Causes(ctx) = LET found == {c \in DOMAIN test : test[c]}
                    IN  IF found = {} THEN {"nominal"} ELSE found
  BY DEF Causes
<1>3. test.injected => "injected" \in {c \in DOMAIN test : test[c]}
  BY <1>1
<1> HIDE DEF test
<1>4. QED
  BY <1>1, <1>2, <1>3 DEF test

\* Whatever is requested, lost, cleared or expired in between, the heuristic calls an
\* overtemperature that a recent request injected by its name (heuristic_diagnosis).
THEOREM DiagnosisNamesInjection == Spec => []InjectedIsNamed
<1>1. FaultInv => InjectedIsNamed
  <2> SUFFICES ASSUME FaultInv, "OVERTEMP" \in Active, NEW i \in latest.rows, i > Len(rows) - RecentRows,
                      NEW s \in Surroundings
               PROVE  "injected" \in Causes(Context(s))
    BY DEF InjectedIsNamed
  <2> DEFINE ctx == Context(s)
  <2>1. latest # None
    BY DEF Active
  <2>2. i \in Recent /\ "OVERTEMP" \in rows[i].set
    BY <2>1 DEF FaultInv, LatestKnown, Recent
  <2>3. "OVERTEMP" \in ctx.injected /\ "OVERTEMP" \in ctx.active
    BY <2>2 DEF Context
  <2> HIDE DEF ctx
  <2>4. Thermal(ctx)
    BY <2>3 DEF Thermal, Hit, FaultsOf
  <2>5. CauseTest(ctx).injected
    BY <2>3, <2>4 DEF CauseTest
  <2>6. QED
    BY <2>5, CauseOf DEF ctx
<1>2. QED
  BY <1>1, FaultInvariant, PTL

\* The answer "no active faults or alerts" is never given while a flag is reported or
\* an alert is open, but for the one rule without a test (heuristic_diagnosis).
THEOREM NominalIsQuiet == Spec => []NominalMeansQuiet
<1>1. FaultInv => NominalMeansQuiet
  <2> SUFFICES ASSUME FaultInv, NEW s \in Surroundings, "nominal" \in Causes(Context(s))
               PROVE  Active = {} /\ Context(s).alerts \subseteq Untested
    BY DEF NominalMeansQuiet
  <2> DEFINE ctx == Context(s)
  <2>1. \A c \in DOMAIN CauseTest(ctx) : ~CauseTest(ctx)[c]
    BY CauseOf
  <2>2. ctx.active = Active /\ ctx.alerts = {<<"flag", f>> : f \in Active} \cup s.alerts
    BY DEF Context
  <2>3. Active \subseteq FlagNames
    BY DiagnosisAssumption DEF Active, FaultInv, LatestKnown
  <2>4. ctx.alerts \subseteq ({"flag"} \X FlagNames) \cup ({"rule"} \X RuleNames)
    BY <2>2, <2>3, DiagnosisAssumption
  <2> HIDE DEF ctx
  <2>5. /\ ~Thermal(ctx) /\ ~Overload(ctx)
        /\ ~Hit(ctx, {"voltage_low", "anomaly:voltage_v"}, {"UNDERVOLTAGE"})
        /\ ~Hit(ctx, {"vibration_high", "anomaly:vibration_g"}, {"VIBRATION_HIGH"})
        /\ ~Hit(ctx, {"rpm_high", "anomaly:rpm"}, {"ENCODER_FAULT"})
        /\ ~Hit(ctx, {}, {"SENSOR_STUCK"}) /\ ~Hit(ctx, {}, {"GPS_LOST"})
        /\ ~Hit(ctx, {"packet_loss"}, {"COMM_DEGRADED"})
        /\ ~Hit(ctx, {"offline"}, {})
    BY <2>1 DEF CauseTest
  <2>6. FaultsOf(ctx) \intersect FlagNames = {}
    BY <2>5 DEF Thermal, Overload, Hit, FlagNames
  <2>7. \A r \in RuleNames : <<"rule", r>> \in ctx.alerts => r = "anomaly:current_a"
    BY <2>5 DEF Thermal, Overload, Hit, RuleNames
  <2>8. Active = {}
    BY <2>2, <2>3, <2>6 DEF FaultsOf
  <2>9. ASSUME NEW a \in ctx.alerts PROVE a \in Untested
    <3>1. CASE a \in {"flag"} \X FlagNames
      <4>1. a[1] = "flag" /\ a[2] \in FlagNames
        BY <3>1
      <4>2. a[2] \in FaultsOf(ctx)
        BY <4>1 DEF FaultsOf
      <4>3. QED
        BY <2>6, <4>1, <4>2
    <3>2. CASE a \in {"rule"} \X RuleNames
      <4>1. a = <<"rule", a[2]>> /\ a[2] \in RuleNames
        BY <3>2
      <4>2. a[2] = "anomaly:current_a"
        BY <2>7, <4>1
      <4>3. QED
        BY <4>1, <4>2 DEF Untested
    <3>3. QED
      BY <2>4, <3>1, <3>2
  <2>10. QED
    BY <2>8, <2>9 DEF ctx
<1>2. QED
  BY <1>1, FaultInvariant, PTL
==============================================================================
