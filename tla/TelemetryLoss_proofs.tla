------------------------ MODULE TelemetryLoss_proofs -------------------------
(***************************************************************************)
(* Proofs about TelemetryLoss for every width of the sequence number, jump *)
(* limit, window and bound: note_seq counts every frame exactly once, and  *)
(* loss_pct is taken over exactly the newest frames.                       *)
(***************************************************************************)
EXTENDS TelemetryLoss, SequenceTheorems, WellFoundedInduction, TLAPS

\* What note_seq keeps is there from the first frame on.
Started == Counting <=> lastSeq # None

\* While the device has not restarted, a number is the position modulo SeqMod.
Numbered ==
    epoch = 0 =>
        /\ udpSeq = sent % SeqMod
        /\ \A f \in net : f.seq = f.n % SeqMod
        /\ Counting => lastSeq = Top % SeqMod

\* Every position up to the last counted one is accounted for.
Accounted ==
    epoch = 0 =>
        /\ gaps >= 0
        /\ ~Counting => gaps = 0 /\ forgiven = 0
        /\ Counting => Top - First + 1 = Len(taken) + gaps + forgiven

\* An entry is the way from one counted frame to the next, unless it was a long jump.
Measured ==
    epoch = 0 => \A k \in 1 .. Len(taken) :
        taken[k].expected = IF k = 1 \/ LongJump(k) THEN 1 ELSE taken[k].n - taken[k - 1].n

\* The inductive invariant.
LossInv == TypeOK /\ Started /\ Numbered /\ Accounted /\ Measured

-----------------------------------------------------------------------------
(* Arithmetic of a counter that wraps.                                     *)

LEMMA Quotient ==
    ASSUME NEW m \in Nat \ {0}, NEW z \in Int
    PROVE  z % m \in 0 .. m - 1 /\ \E q \in Int : z = m * q + (z % m)
<1>1. z \div m \in Int /\ z % m \in Int /\ z % m >= 0 /\ z % m < m
  OBVIOUS
<1>2. PICK q \in Int, r \in Int : q = z \div m /\ r = z % m /\ z = m * q + r
  BY <1>1
<1>3. z = m * q + (z % m)
  BY <1>2
<1>4. z % m \in 0 .. m - 1
  BY <1>1
<1>5. QED
  BY <1>3, <1>4

LEMMA RemainderUnique ==
    ASSUME NEW m \in Nat \ {0}, NEW a \in Int, NEW b \in Int, NEW r \in 0 .. m - 1, NEW s \in 0 .. m - 1,
           m * a + r = m * b + s
    PROVE  r = s
<1>1. m * (a - b) = s - r
  OBVIOUS
<1>2. ~(a - b >= 1)
  <2>1. SUFFICES ASSUME a - b >= 1 PROVE FALSE
    OBVIOUS
  <2>2. m * (a - b) >= m
    BY <2>1
  <2>3. QED
    BY <1>1, <2>2
<1>3. ~(a - b <= -1)
  <2>1. SUFFICES ASSUME a - b <= -1 PROVE FALSE
    OBVIOUS
  <2>2. m * (a - b) <= -m
    BY <2>1
  <2>3. QED
    BY <1>1, <2>2
<1>4. QED
  BY <1>1, <1>2, <1>3

\* Whole turns do not change a remainder.
LEMMA WholeTurns ==
    ASSUME NEW m \in Nat \ {0}, NEW x \in Int, NEW y \in Int, NEW k \in Int, x = y + m * k
    PROVE  x % m = y % m
<1> DEFINE r == x % m
           s == y % m
<1>1. PICK a \in Int : x = m * a + r
  BY Quotient
<1>2. PICK b \in Int : y = m * b + s
  BY Quotient
<1>3. r \in 0 .. m - 1 /\ s \in 0 .. m - 1
  BY Quotient
<1> HIDE DEF r, s
<1>4. m * a + r = m * (b + k) + s /\ b + k \in Int
  <2>1. m * (b + k) = m * b + m * k /\ m * b \in Int /\ m * k \in Int
    OBVIOUS
  <2>2. QED
    BY <1>1, <1>2, <1>3, <2>1
<1>5. r = s
  BY <1>3, <1>4, RemainderUnique
<1>6. QED
  BY <1>5 DEF r, s

\* The number after x % m is (x + 1) % m.
LEMMA SuccessorMod ==
    ASSUME NEW m \in Nat \ {0}, NEW x \in Int
    PROVE  ((x % m) + 1) % m = (x + 1) % m
<1> DEFINE r == x % m
<1>1. PICK a \in Int : x = m * a + r
  BY Quotient
<1>2. r \in Int
  BY Quotient
<1> HIDE DEF r
<1>3. -a \in Int /\ r + 1 \in Int /\ x + 1 \in Int /\ r + 1 = (x + 1) + m * (-a)
  <2>1. m * (-a) = -(m * a) /\ m * a \in Int
    OBVIOUS
  <2>2. QED
    BY <1>1, <1>2, <2>1
<1>4. (r + 1) % m = (x + 1) % m
  BY <1>3, WholeTurns
<1>5. QED
  BY <1>4 DEF r

\* The distance of two numbers is the distance of the positions, modulo m.
LEMMA DistanceMod ==
    ASSUME NEW m \in Nat \ {0}, NEW x \in Int, NEW y \in Int
    PROVE  ((x % m) - (y % m)) % m = (x - y) % m
<1> DEFINE r == x % m
           s == y % m
<1>1. PICK a \in Int : x = m * a + r
  BY Quotient
<1>2. PICK b \in Int : y = m * b + s
  BY Quotient
<1>3. r \in Int /\ s \in Int
  BY Quotient
<1> HIDE DEF r, s
<1>4. b - a \in Int /\ r - s \in Int /\ x - y \in Int /\ r - s = (x - y) + m * (b - a)
  <2>1. m * (b - a) = m * b - m * a /\ m * b \in Int /\ m * a \in Int
    OBVIOUS
  <2>2. QED
    BY <1>1, <1>2, <1>3, <2>1
<1>5. (r - s) % m = (x - y) % m
  BY <1>4, WholeTurns
<1>6. QED
  BY <1>5 DEF r, s

\* Half a turn, forward and back.
LEMMA HalfTurn ==
    ASSUME NEW d \in Int, d < Half, -d < Half
    PROVE  /\ Half \in Nat /\ SeqMod = Half + Half
           /\ d >= 0 => d % SeqMod = d
           /\ d < 0 => d % SeqMod = d + SeqMod /\ d % SeqMod > Half - 1
<1>1. Half \in Nat /\ SeqMod = Half + Half
  BY LossAssumption DEF Half
<1>2. d >= 0 => d % SeqMod = d
  BY <1>1, LossAssumption
<1>3. d < 0 => d % SeqMod = d + SeqMod
  BY <1>1, LossAssumption
<1>4. QED
  BY <1>1, <1>2, <1>3

-----------------------------------------------------------------------------
(* The history of the counted frames.                                      *)

Entry == [n : Nat, expected : Int]

LEMMA HistoryIs ==
    ASSUME TypeOK
    PROVE  /\ taken \in Seq(Entry) /\ Len(taken) \in Nat /\ (Counting <=> Len(taken) >= 1)
           /\ \A k \in 1 .. Len(taken) : taken[k] \in Entry /\ taken[k].n \in Nat /\ taken[k].expected \in Int
           /\ Counting => Top \in Nat /\ First \in Nat
<1>1. taken \in Seq(Entry) /\ Len(taken) \in Nat
  BY LenProperties DEF TypeOK, Entry
<1>2. Counting <=> Len(taken) >= 1
  BY <1>1, EmptySeq DEF Counting
<1>3. \A k \in 1 .. Len(taken) : taken[k] \in Entry
  BY <1>1, ElementOfSeq
<1>4. \A k \in 1 .. Len(taken) : taken[k].n \in Nat /\ taken[k].expected \in Int
  BY <1>3 DEF Entry
<1>5. Counting => Top \in Nat /\ First \in Nat
  BY <1>1, <1>2, <1>4 DEF Top, First
<1>6. QED
  BY <1>1, <1>2, <1>3, <1>4, <1>5

\* note_seq adds a frame at the end of the history.
LEMMA HistoryGrows ==
    ASSUME TypeOK, NEW e \in Entry, taken' = Append(taken, e)
    PROVE  /\ taken' \in Seq(Entry) /\ Len(taken') = Len(taken) + 1 /\ Counting'
           /\ \A k \in 1 .. Len(taken) : taken'[k] = taken[k]
           /\ taken'[Len(taken) + 1] = e /\ Top' = e.n
           /\ First' = IF Counting THEN First ELSE e.n
<1>1. taken \in Seq(Entry) /\ Len(taken) \in Nat /\ (Counting <=> Len(taken) >= 1)
  BY HistoryIs
<1>2. /\ taken' \in Seq(Entry) /\ Len(taken') = Len(taken) + 1
      /\ \A k \in 1 .. Len(taken) : taken'[k] = taken[k]
      /\ taken'[Len(taken) + 1] = e
  BY <1>1, AppendProperties
<1>3. Counting'
  BY <1>1, <1>2, EmptySeq DEF Counting
<1>4. Top' = e.n
  BY <1>2 DEF Top
<1>5. First' = IF Counting THEN First ELSE e.n
  <2>1. CASE Counting
    BY <1>1, <1>2, <2>1 DEF First
  <2>2. CASE ~Counting
    <3>1. Len(taken) + 1 = 1
      BY <1>1, <2>2
    <3>2. taken'[1] = e
      BY <1>2, <3>1
    <3>3. QED
      BY <2>2, <3>2 DEF First
  <2>3. QED
    BY <2>1, <2>2
<1>6. QED
  BY <1>2, <1>3, <1>4, <1>5

-----------------------------------------------------------------------------
LEMMA LossInit == Init => LossInv
<1> SUFFICES ASSUME Init PROVE LossInv
  OBVIOUS
<1>1. 0 \in 0 .. SeqMod - 1 /\ 0 % SeqMod = 0 /\ 0 \in 0 .. MaxSent /\ 0 \in 0 .. MaxRestarts
  BY LossAssumption
<1>2. TypeOK
  BY <1>1 DEF Init, TypeOK
<1>3. Started /\ Numbered /\ Accounted
  BY <1>1 DEF Init, Started, Counting, Numbered, Accounted
<1>4. Measured
  BY DEF Init, Measured
<1>5. QED
  BY <1>2, <1>3, <1>4 DEF LossInv

\* A frame that is not old is ahead of the last one by its distance in positions.
LEMMA NotOldIsAhead ==
    ASSUME LossInv, NEW f \in net, InRange(f), ~OldFrame(f.seq), epoch = 0, Counting
    PROVE  f.n > Top /\ Delta(f.seq) = f.n - Top
<1> DEFINE d == f.n - Top
<1>1. f.n \in Nat /\ Top \in Nat /\ lastSeq # None
  BY HistoryIs DEF LossInv, TypeOK, Frame, Started
<1>2. d \in Int /\ d < Half /\ -d < Half
  <2>1. f.n - Top < Half /\ Top - f.n < Half
    BY DEF InRange
  <2>2. QED
    BY <1>1, <2>1, LossAssumption DEF Half
<1>3. Delta(f.seq) = d % SeqMod
  <2>1. f.seq = f.n % SeqMod /\ lastSeq = Top % SeqMod
    BY DEF LossInv, Numbered
  <2>2. QED
    <3>1. ((f.n % SeqMod) - (Top % SeqMod)) % SeqMod = (f.n - Top) % SeqMod
      <4>1. f.n \in Int /\ Top \in Int /\ SeqMod \in Nat \ {0}
        BY <1>1, LossAssumption
      <4>2. QED
        BY <4>1, DistanceMod, Zenon
    <3>2. QED
      BY <2>1, <3>1 DEF Delta
<1>4. ~(Delta(f.seq) = 0) /\ ~(Delta(f.seq) > Half - 1)
  BY <1>1 DEF OldFrame
<1>5. d > 0
  BY <1>2, <1>3, <1>4, HalfTurn
<1>6. QED
  BY <1>1, <1>2, <1>3, <1>5, HalfTurn

\* The number of frames note_seq takes for missing is a natural number.
LEMMA GapType ==
    ASSUME LossInv, NEW f \in net, ~OldFrame(f.seq)
    PROVE  Gap(f.seq) \in Nat
<1>1. CASE lastSeq = None
  BY <1>1 DEF Gap
<1>2. CASE lastSeq # None
  <2>1. f.seq \in Int /\ lastSeq \in Int
    BY <1>2, LossAssumption DEF LossInv, TypeOK, Frame
  <2>2. Delta(f.seq) \in 0 .. SeqMod - 1
    <3>1. f.seq - lastSeq \in Int
      BY <2>1
    <3>2. (f.seq - lastSeq) % SeqMod \in 0 .. SeqMod - 1
      BY <3>1, Quotient, LossAssumption
    <3>3. QED
      BY <3>2 DEF Delta
  <2>3. Delta(f.seq) # 0
    BY <1>2 DEF OldFrame
  <2>4. QED
    BY <1>2, <2>2, <2>3, LossAssumption DEF Gap
<1>3. QED
  BY <1>1, <1>2

LEMMA AppendedType ==
    ASSUME TypeOK, NEW e \in Int
    PROVE  Appended(e) \in Seq(Int)
<1>1. window \in Seq(Int)
  BY DEF TypeOK
<1>2. CASE Len(window) < LossWindow
  BY <1>1, <1>2 DEF Appended
<1>3. CASE ~(Len(window) < LossWindow)
  <2>1. window # <<>>
    BY <1>3, LossAssumption
  <2>2. Tail(window) \in Seq(Int)
    BY <1>1, <2>1, HeadTailProperties
  <2>3. QED
    BY <1>3, <2>2 DEF Appended
<1>4. QED
  BY <1>2, <1>3

LEMMA NoteSeqStep ==
    ASSUME LossInv, NEW f \in net, InRange(f), ~OldFrame(f.seq), NoteSeq(f),
           net' \in {net, net \ {f}}, UNCHANGED <<udpSeq, sent, epoch>>
    PROVE  LossInv'
<1> DEFINE e == [n |-> f.n, expected |-> 1 + Gap(f.seq)]
<1>1. /\ TypeOK /\ f.n \in Nat /\ f.seq \in 0 .. SeqMod - 1 /\ forgiven \in Nat /\ gaps \in Int
  BY DEF LossInv, TypeOK, Frame
<1>2. Gap(f.seq) \in Nat
  BY GapType
<1>3. f.n # None /\ f.seq # None
  BY <1>1, LossAssumption
<1>4. /\ Len(taken) \in Nat /\ (Counting <=> Len(taken) >= 1) /\ (Counting => Top \in Nat /\ First \in Nat)
      /\ \A k \in 1 .. Len(taken) : taken[k].n \in Nat
  BY <1>1, HistoryIs
<1>5. e \in Entry /\ taken' = Append(taken, e) /\ e.n = f.n /\ e.expected = 1 + Gap(f.seq)
  BY <1>1, <1>2 DEF NoteSeq, Entry
<1> HIDE DEF e
<1>6. /\ taken' \in Seq(Entry) /\ Len(taken') = Len(taken) + 1 /\ Counting'
      /\ \A k \in 1 .. Len(taken) : taken'[k] = taken[k]
      /\ taken'[Len(taken) + 1] = e /\ Top' = f.n
      /\ First' = IF Counting THEN First ELSE f.n
  BY <1>1, <1>5, HistoryGrows
<1>7. TypeOK'
  <2>1. 1 + Gap(f.seq) \in Int
    BY <1>2
  <2>2. window' \in Seq(Int)
    BY <1>1, <2>1, AppendedType DEF NoteSeq
  <2>3. forgiven' \in Nat
    BY <1>1, <1>4, LossAssumption DEF NoteSeq
  <2>4. gaps' \in Int
    BY <1>1, <1>2 DEF NoteSeq
  <2>5. net' \in SUBSET Frame
    BY DEF LossInv, TypeOK, NoteSeq
  <2>6. QED
    BY <1>1, <1>6, <2>2, <2>3, <2>4, <2>5 DEF TypeOK, NoteSeq, Entry
<1>8. Started'
  BY <1>3, <1>6 DEF NoteSeq, Started
<1>9. Numbered'
  BY <1>6 DEF LossInv, Numbered, NoteSeq
<1>10. ASSUME epoch = 0, Counting
       PROVE  /\ f.n > Top /\ gaps' = gaps + Gap(f.seq)
              /\ Gap(f.seq) = IF f.n - Top - 1 > RestartGap THEN 0 ELSE f.n - Top - 1
              /\ forgiven' = forgiven + (IF f.n - Top - 1 > RestartGap THEN f.n - Top - 1 ELSE 0)
  <2>1. f.n > Top /\ Delta(f.seq) = f.n - Top /\ lastSeq # None
    BY <1>10, NotOldIsAhead DEF LossInv, Started
  <2>2. QED
    BY <1>1, <1>4, <1>10, <2>1 DEF NoteSeq, Gap
<1>11. Accounted'
  <2> SUFFICES ASSUME epoch = 0 PROVE Accounted'
    BY DEF Accounted
  <2>1. CASE ~Counting
    <3>1. lastSeq = None /\ gaps = 0 /\ forgiven = 0 /\ Len(taken) = 0
      BY <1>4, <2>1 DEF LossInv, Started, Accounted
    <3>2. First' = f.n /\ Top' = f.n /\ Len(taken') = 1 /\ gaps' = 0 /\ forgiven' = 0
      BY <1>6, <2>1, <3>1 DEF NoteSeq, Gap
    <3>3. Top' - First' + 1 = Len(taken') + gaps' + forgiven'
      <4>1. f.n - f.n + 1 = 1 + 0 + 0
        BY <1>1
      <4>2. QED
        BY <3>2, <4>1, Zenon
    <3>4. gaps' >= 0
      BY <3>2
    <3>5. QED
      BY <1>6, <3>3, <3>4 DEF Accounted
  <2>2. CASE Counting
    <3>1. Top - First + 1 = Len(taken) + gaps + forgiven /\ gaps >= 0
      BY <2>2 DEF LossInv, Accounted
    <3>2. PICK n, top, first, len, g, w, gap, g2, w2 :
             /\ n = f.n /\ top = Top /\ first = First /\ len = Len(taken) /\ gap = Gap(f.seq)
             /\ g = gaps /\ w = forgiven /\ g2 = gaps' /\ w2 = forgiven'
      OBVIOUS
    <3>3. /\ n \in Nat /\ top \in Nat /\ first \in Nat /\ len \in Nat /\ gap \in Nat /\ g \in Int /\ w \in Nat
          /\ RestartGap \in Nat
      BY <1>1, <1>2, <1>4, <2>2, <3>2, LossAssumption DEF Half
    <3>4. /\ n > top /\ g2 = g + gap /\ gap = (IF n - top - 1 > RestartGap THEN 0 ELSE n - top - 1)
          /\ w2 = w + (IF n - top - 1 > RestartGap THEN n - top - 1 ELSE 0)
          /\ top - first + 1 = len + g + w /\ g >= 0
      BY <1>10, <2>2, <3>1, <3>2
    <3>5. g2 >= 0 /\ n - first + 1 = (len + 1) + g2 + w2
      BY <3>3, <3>4
    <3>6. First' = first /\ Top' = n /\ Len(taken') = len + 1
      BY <1>6, <2>2, <3>2
    <3>7. gaps' >= 0 /\ Top' - First' + 1 = Len(taken') + gaps' + forgiven'
      BY <3>2, <3>5, <3>6
    <3>8. QED
      BY <1>6, <3>7 DEF Accounted
  <2>3. QED
    BY <2>1, <2>2
<1>12. Measured'
  <2> SUFFICES ASSUME epoch = 0, NEW k \in 1 .. Len(taken')
               PROVE  taken'[k].expected
                        = IF k = 1 \/ LongJump(k)' THEN 1 ELSE taken'[k].n - taken'[k - 1].n
    BY DEF Measured
  <2>1. CASE k \in 1 .. Len(taken)
    <3>1. taken'[k] = taken[k] /\ (k # 1 => taken'[k - 1] = taken[k - 1])
      BY <1>4, <1>6, <2>1
    <3>2. taken[k].expected = IF k = 1 \/ LongJump(k) THEN 1 ELSE taken[k].n - taken[k - 1].n
      BY <2>1 DEF LossInv, Measured
    <3>3. k = 1 \/ (LongJump(k)' <=> LongJump(k))
      BY <3>1 DEF LongJump
    <3>4. QED
      BY <3>1, <3>2, <3>3
  <2>2. CASE k = Len(taken) + 1 /\ ~Counting
    <3>1. lastSeq = None /\ Len(taken) = 0
      BY <1>4, <2>2 DEF LossInv, Started
    <3>2. e.expected = 1
      BY <1>5, <3>1 DEF Gap
    <3>3. QED
      BY <1>6, <2>2, <3>1, <3>2
  <2>3. CASE k = Len(taken) + 1 /\ Counting
    <3>1. k > 1 /\ k - 1 = Len(taken) /\ Len(taken) \in 1 .. Len(taken)
      BY <1>4, <2>3
    <3>2. taken'[k].n = f.n /\ taken'[k].expected = 1 + Gap(f.seq) /\ taken'[k - 1].n = Top
      BY <1>5, <1>6, <2>3, <3>1 DEF Top
    <3>3. LongJump(k)' <=> f.n - Top - 1 > RestartGap
      BY <3>1, <3>2 DEF LongJump
    <3>4. Gap(f.seq) = IF f.n - Top - 1 > RestartGap THEN 0 ELSE f.n - Top - 1
      BY <1>10, <2>3
    <3>5. QED
      BY <1>1, <1>4, <2>3, <3>1, <3>2, <3>3, <3>4
  <2>4. QED
    BY <1>4, <1>6, <2>1, <2>2, <2>3
<1>13. QED
  BY <1>7, <1>8, <1>9, <1>11, <1>12 DEF LossInv

LEMMA SendStep ==
    ASSUME LossInv, SendTelemetry
    PROVE  LossInv'
<1>1. /\ sent \in Nat /\ sent' \in 0 .. MaxSent /\ sent' = sent + 1 /\ udpSeq \in 0 .. SeqMod - 1
      /\ epoch \in Nat
  BY LossAssumption DEF LossInv, TypeOK, SendTelemetry
<1>2. udpSeq' \in 0 .. SeqMod - 1
  BY <1>1, Quotient, LossAssumption DEF SendTelemetry, NextSeq
<1>3. [seq |-> udpSeq, n |-> sent, epoch |-> epoch] \in Frame
  BY <1>1 DEF Frame
<1>4. TypeOK'
  BY <1>1, <1>2, <1>3 DEF LossInv, TypeOK, SendTelemetry, ghostVars
<1>5. Numbered'
  <2> SUFFICES ASSUME epoch = 0 PROVE Numbered'
    BY DEF Numbered, SendTelemetry
  <2>1. udpSeq = sent % SeqMod
    BY DEF LossInv, Numbered
  <2>2. udpSeq' = sent' % SeqMod
    <3>1. ((sent % SeqMod) + 1) % SeqMod = (sent + 1) % SeqMod
      <4>1. sent \in Int /\ SeqMod \in Nat \ {0}
        BY <1>1, LossAssumption
      <4>2. QED
        BY <4>1, SuccessorMod, Zenon
    <3>2. udpSeq' = (udpSeq + 1) % SeqMod
      BY DEF SendTelemetry, NextSeq
    <3>3. QED
      BY <1>1, <2>1, <3>1, <3>2
  <2>3. \A f \in net' : f.seq = f.n % SeqMod
    BY <2>1 DEF LossInv, Numbered, SendTelemetry
  <2>4. Counting' => lastSeq' = Top' % SeqMod
    BY DEF LossInv, Numbered, SendTelemetry, Counting, Top, ghostVars
  <2>5. QED
    BY <2>2, <2>3, <2>4 DEF Numbered
<1>6. Started' /\ Accounted' /\ Measured'
  BY DEF LossInv, Started, Accounted, Measured, LongJump, Counting, Top, First, SendTelemetry, ghostVars
<1>7. QED
  BY <1>4, <1>5, <1>6 DEF LossInv

LEMMA LossStep == LossInv /\ [Next]_vars => LossInv'
<1> SUFFICES ASSUME LossInv, [Next]_vars PROVE LossInv'
  OBVIOUS
<1> USE DEF Counting, Top, First, LongJump
<1>1. CASE SendTelemetry
  BY <1>1, SendStep
<1>2. CASE DeviceRestart
  <2>1. epoch' \in 0 .. MaxRestarts /\ epoch' # 0 /\ udpSeq' \in 0 .. SeqMod - 1
    BY <1>2, LossAssumption DEF LossInv, TypeOK, DeviceRestart
  <2>2. QED
    BY <1>2, <2>1 DEF LossInv, TypeOK, Started, Numbered, Accounted, Measured, DeviceRestart, ghostVars
<1>3. ASSUME NEW f \in net, Drop(f) PROVE LossInv'
  BY <1>3 DEF LossInv, TypeOK, Started, Numbered, Accounted, Measured, Drop, ghostVars
<1>4. ASSUME NEW f \in net, Deliver(f) PROVE LossInv'
  <2>1. CASE OldFrame(f.seq)
    BY <1>4, <2>1 DEF LossInv, TypeOK, Started, Numbered, Accounted, Measured, Deliver, ghostVars
  <2>2. CASE ~OldFrame(f.seq)
    BY <1>4, <2>2, NoteSeqStep DEF Deliver
  <2>3. QED
    BY <2>1, <2>2
<1>5. CASE UNCHANGED vars
  BY <1>5 DEF LossInv, TypeOK, Started, Numbered, Accounted, Measured, vars, ghostVars
<1>6. QED
  BY <1>1, <1>2, <1>3, <1>4, <1>5 DEF Next

LEMMA LossInvariant == Spec => []LossInv
BY LossInit, LossStep, PTL DEF Spec

-----------------------------------------------------------------------------
(* The theorems.                                                           *)

\* Types, also after restarts of the device.
THEOREM TypeCorrect == Spec => []TypeOK
<1>1. LossInv => TypeOK
  BY DEF LossInv
<1>2. QED
  BY <1>1, LossInvariant, PTL

\* Every frame between the first and the last counted is counted exactly once,
\* for every width of the counter and every loss, duplication and reordering of
\* less than half a turn, until the device restarts (note_seq).
THEOREM EveryFrameCountedOnce == Spec => []GapsExact
<1>1. LossInv => GapsExact
  <2> SUFFICES ASSUME LossInv, epoch = 0, Counting
               PROVE  /\ Top - First + 1 = Len(taken) + gaps + forgiven
                      /\ Len(taken) <= Top - First + 1
    BY DEF GapsExact
  <2>1. Top - First + 1 = Len(taken) + gaps + forgiven /\ gaps >= 0
    BY DEF LossInv, Accounted
  <2>2. Len(taken) \in Nat /\ forgiven \in Nat /\ gaps \in Int
    BY HistoryIs DEF LossInv, TypeOK
  <2>3. QED
    BY <2>1, <2>2
<1>2. QED
  BY <1>1, LossInvariant, PTL

-----------------------------------------------------------------------------
(* The window.                                                             *)

\* The first part of WindowExact, which is inductive.
Newest == window = [i \in 1 .. Len(taken) - Gone |-> taken[Gone + i].expected]

LEMMA GoneIs ==
    ASSUME TypeOK
    PROVE  /\ Gone \in Nat /\ Gone <= Len(taken) /\ Len(taken) - Gone \in Nat
           /\ Len(taken) <= LossWindow => Gone = 0
           /\ Len(taken) > LossWindow => Gone = Len(taken) - LossWindow
BY HistoryIs, LossAssumption DEF Gone

LEMMA AppendedIs ==
    ASSUME NEW w \in Seq(Int), NEW x \in Int
    PROVE  /\ Append(w, x) = [i \in 1 .. Len(w) + 1 |-> Append(w, x)[i]] /\ Append(w, x)[Len(w) + 1] = x
           /\ \A i \in 1 .. Len(w) : Append(w, x)[i] = w[i]
<1>1. PICK v : v = Append(w, x)
  OBVIOUS
<1>2. /\ v \in Seq(Int) /\ Len(v) = Len(w) + 1 /\ v[Len(w) + 1] = x
      /\ \A i \in 1 .. Len(w) : v[i] = w[i]
  BY <1>1, AppendProperties
<1>3. v = [i \in 1 .. Len(v) |-> v[i]]
  BY <1>2, LenProperties
<1>4. QED
  BY <1>1, <1>2, <1>3

LEMMA TailIs ==
    ASSUME NEW w \in Seq(Int), w # <<>>, NEW t, t = Tail(w)
    PROVE  t \in Seq(Int) /\ Len(t) = Len(w) - 1 /\ \A i \in 1 .. Len(t) : t[i] = w[i + 1]
BY HeadTailProperties

LEMMA NewestStep == LossInv /\ Newest /\ [Next]_vars => Newest'
<1> SUFFICES ASSUME LossInv, Newest, [Next]_vars PROVE Newest'
  OBVIOUS
<1>1. ASSUME NEW f \in net, ~OldFrame(f.seq), NoteSeq(f) PROVE Newest'
  <2>1. PICK x, len, gone, w :
           x = 1 + Gap(f.seq) /\ len = Len(taken) /\ gone = Gone /\ w = window
    OBVIOUS
  <2>2. TypeOK /\ f.n \in Nat /\ x \in Int
    BY <1>1, <2>1, GapType DEF LossInv, TypeOK, Frame
  <2>3. /\ len \in Nat /\ gone \in Nat /\ gone <= len /\ LossWindow \in Nat \ {0}
        /\ (len <= LossWindow => gone = 0) /\ (len > LossWindow => gone = len - LossWindow)
    BY <2>1, <2>2, GoneIs, HistoryIs, LossAssumption
  <2>4. w \in Seq(Int) /\ w = [i \in 1 .. len - gone |-> taken[gone + i].expected]
    BY <2>1, <2>2 DEF TypeOK, Newest
  <2>5. Len(w) = len - gone
    BY <2>3, <2>4
  <2>6. PICK e \in Entry : e.expected = x /\ taken' = Append(taken, e)
    BY <1>1, <2>1, <2>2 DEF NoteSeq, Entry
  <2>7. /\ Len(taken') = len + 1 /\ taken'[len + 1] = e
        /\ \A k \in 1 .. len : taken'[k] = taken[k]
    BY <2>1, <2>2, <2>6, HistoryGrows
  <2>8. Gone' = IF len + 1 <= LossWindow THEN 0 ELSE len + 1 - LossWindow
    <3>1. Len(taken') = len + 1 /\ len \in Nat /\ LossWindow \in Nat
      BY <2>3, <2>7
    <3>2. CASE len + 1 <= LossWindow
      BY <3>1, <3>2 DEF Gone
    <3>3. CASE ~(len + 1 <= LossWindow)
      BY <3>1, <3>3 DEF Gone
    <3>4. QED
      BY <3>2, <3>3
  <2>9. window' = IF Len(w) < LossWindow THEN Append(w, x) ELSE Append(Tail(w), x)
    BY <1>1, <2>1 DEF NoteSeq, Appended
  <2>10. CASE len < LossWindow
    <3>1. gone = 0 /\ Gone' = 0 /\ Len(w) = len /\ window' = Append(w, x)
      BY <2>3, <2>5, <2>8, <2>9, <2>10
    <3>2. /\ window' = [i \in 1 .. len + 1 |-> window'[i]] /\ window'[len + 1] = x
          /\ \A i \in 1 .. len : window'[i] = w[i]
      <4>1. PICK v : v = window'
        OBVIOUS
      <4>2. v = Append(w, x) /\ w \in Seq(Int) /\ x \in Int
        BY <2>2, <2>4, <3>1, <4>1
      <4>3. /\ v = [i \in 1 .. Len(w) + 1 |-> v[i]] /\ v[Len(w) + 1] = x
            /\ \A i \in 1 .. Len(w) : v[i] = w[i]
        BY <4>2, AppendedIs, Zenon
      <4>4. QED
        BY <3>1, <4>1, <4>3, Zenon
    <3>3. ASSUME NEW i \in 1 .. len + 1 PROVE window'[i] = taken'[i].expected
      <4>1. i \in 1 .. len \/ i = len + 1
        BY <2>3
      <4>2. \A k \in 1 .. len : w[k] = taken[k].expected
        BY <2>3, <2>4, <3>1
      <4>3. QED
        BY <2>6, <2>7, <3>2, <4>1, <4>2
    <3>4. Len(taken') - Gone' = len + 1 /\ \A i \in 1 .. len + 1 : Gone' + i = i
      BY <2>3, <2>7, <3>1
    <3>5. QED
      BY <3>2, <3>3, <3>4 DEF Newest
  <2>11. CASE ~(len < LossWindow)
    <3>1. /\ Len(w) = LossWindow /\ Gone' = gone + 1 /\ gone + LossWindow = len
          /\ window' = Append(Tail(w), x) /\ w # <<>>
      BY <2>3, <2>5, <2>8, <2>9, <2>11
    <3>2. PICK t, m : t = Tail(w) /\ m = LossWindow - 1
      OBVIOUS
    <3>3. /\ t \in Seq(Int) /\ Len(t) = m /\ m \in Nat /\ m + 1 = LossWindow
          /\ \A i \in 1 .. m : t[i] = w[i + 1]
      <4>1. m \in Nat /\ m + 1 = LossWindow
        BY <2>3, <3>2
      <4>2. t \in Seq(Int) /\ Len(t) = Len(w) - 1 /\ \A i \in 1 .. Len(t) : t[i] = w[i + 1]
        BY <2>4, <3>1, <3>2, TailIs
      <4>3. Len(t) = m
        BY <3>1, <3>2, <4>2
      <4>4. QED
        BY <4>1, <4>2, <4>3
    <3>4. /\ window' = [i \in 1 .. m + 1 |-> window'[i]] /\ window'[m + 1] = x
          /\ \A i \in 1 .. m : window'[i] = t[i]
      <4>1. PICK v : v = window'
        OBVIOUS
      <4>2. v = Append(t, x) /\ t \in Seq(Int) /\ x \in Int
        BY <2>2, <3>1, <3>2, <3>3, <4>1
      <4>3. /\ v = [i \in 1 .. Len(t) + 1 |-> v[i]] /\ v[Len(t) + 1] = x
            /\ \A i \in 1 .. Len(t) : v[i] = t[i]
        BY <4>2, AppendedIs, Zenon
      <4>4. QED
        BY <3>3, <4>1, <4>3, Zenon
    <3>5. ASSUME NEW i \in 1 .. m + 1 PROVE window'[i] = taken'[gone + 1 + i].expected
      <4>1. CASE i \in 1 .. m
        <5>1. window'[i] = w[i + 1] /\ i + 1 \in 1 .. len - gone
          BY <2>3, <3>1, <3>3, <3>4, <4>1
        <5>2. w[i + 1] = taken[gone + (i + 1)].expected
          BY <2>4, <5>1
        <5>3. gone + (i + 1) = gone + 1 + i /\ gone + 1 + i \in 1 .. len
          BY <2>3, <5>1
        <5>4. QED
          BY <2>7, <5>1, <5>2, <5>3
      <4>2. CASE i = m + 1
        <5>1. gone + 1 + i = len + 1
          BY <2>3, <3>1, <3>3, <4>2
        <5>2. QED
          BY <2>6, <2>7, <3>4, <4>2, <5>1
      <4>3. QED
        BY <3>3, <4>1, <4>2
    <3>6. Len(taken') - Gone' = m + 1
      BY <2>3, <2>7, <3>1, <3>3
    <3>7. QED
      BY <3>1, <3>4, <3>5, <3>6 DEF Newest
  <2>12. QED
    BY <2>10, <2>11
<1>2. ASSUME UNCHANGED <<window, taken>> PROVE Newest'
  BY <1>2 DEF Newest, Gone
<1>3. CASE Next
  <2>1. ASSUME NEW f \in net, Deliver(f) PROVE Newest'
    BY <1>1, <1>2, <2>1 DEF Deliver, ghostVars
  <2>2. QED
    BY <1>2, <1>3, <2>1 DEF Next, SendTelemetry, DeviceRestart, Drop, ghostVars
<1>4. CASE UNCHANGED vars
  BY <1>2, <1>4 DEF vars, ghostVars
<1>5. QED
  BY <1>3, <1>4

LEMMA NewestInvariant == Spec => []Newest
<1>1. Init => Newest
  <2> SUFFICES ASSUME Init PROVE Newest
    OBVIOUS
  <2>1. window = <<>> /\ taken = <<>> /\ Len(taken) = 0
    BY DEF Init
  <2>2. Gone = 0
    BY <2>1, LossAssumption DEF Gone
  <2>3. QED
    BY <2>1, <2>2 DEF Newest
<1>2. QED
  BY <1>1, NewestStep, LossInvariant, PTL DEF Spec

-----------------------------------------------------------------------------
(* Its sum.                                                                *)

\* h holds the running totals of w, from some start on.
Adds(w, h) == \A i \in 1 .. Len(w) : h[i] = h[i - 1] + w[i]

\* A set of naturals that is not empty has a least member.
LEMMA LeastExists ==
    ASSUME NEW T \in SUBSET Nat, T # {}
    PROVE  \E least \in T : \A y \in T : least <= y
<1> DEFINE R == OpToRel(<, Nat)
<1>1. IsWellFoundedOn(R, Nat)
  BY NatLessThanWellFounded
<1>2. \A x, y \in Nat : x < y => <<x, y>> \in R
  BY DEF OpToRel
<1> HIDE DEF R
<1>3. PICK least \in T : \A y \in T : ~(<<y, least>> \in R)
  BY <1>1, WFMin
<1>4. \A y \in T : ~(y < least)
  BY <1>2, <1>3
<1>5. QED
  BY <1>4

\* Running totals tell the sum: the least place at which the recursion could differ from
\* them is not the first, and at any other the two take the same step.
LEMMA TotalIs ==
    ASSUME NEW w \in Seq(Int), NEW h \in [0 .. Len(w) -> Int], Adds(w, h)
    PROVE  Total(w) = h[Len(w)] - h[0]
<1> DEFINE N == Len(w)
           Rec(u) == u = [n \in 0 .. N |-> IF n = 0 THEN 0 ELSE u[n - 1] + w[n]]
           own == [n \in 0 .. N |-> h[n] - h[0]]
           upTo == CHOOSE u : Rec(u)
<1>1. N \in Nat /\ \A n \in 1 .. N : w[n] \in Int
  BY LenProperties, ElementOfSeq
<1>2. Total(w) = upTo[N]
  BY DEF Total
<1>3. Rec(own)
  <2>1. ASSUME NEW n \in 0 .. N PROVE own[n] = IF n = 0 THEN 0 ELSE own[n - 1] + w[n]
    <3>1. h[0] \in Int /\ h[n] \in Int
      BY <1>1
    <3>2. CASE n = 0
      BY <3>1, <3>2
    <3>3. CASE n # 0
      <4>1. n \in 1 .. N /\ n - 1 \in 0 .. N
        BY <1>1, <3>3
      <4>2. h[n] = h[n - 1] + w[n] /\ h[n - 1] \in Int /\ w[n] \in Int
        BY <1>1, <4>1 DEF Adds
      <4>3. own[n] = h[n] - h[0] /\ own[n - 1] = h[n - 1] - h[0]
        BY <4>1
      <4>4. QED
        BY <3>1, <3>3, <4>2, <4>3
    <3>4. QED
      BY <3>2, <3>3
  <2>2. own = [n \in 0 .. N |-> own[n]]
    OBVIOUS
  <2> HIDE DEF own
  <2>3. QED
    BY <2>1, <2>2
<1>4. Rec(upTo)
  BY <1>3
<1>5. \A n \in 0 .. N : upTo[n] = own[n]
  <2> DEFINE Bad == {n \in 0 .. N : upTo[n] # own[n]}
  <2> SUFFICES ASSUME Bad # {} PROVE FALSE
    OBVIOUS
  <2> HIDE DEF upTo, own, N
  <2>1. Bad \in SUBSET Nat
    BY <1>1
  <2>2. PICK n \in Bad : \A y \in Bad : n <= y
    BY <2>1, LeastExists
  <2>3. n \in 0 .. N /\ upTo[n] # own[n]
    BY <2>2
  <2>4. n # 0
    BY <1>3, <1>4, <2>3
  <2>5. n - 1 \in 0 .. N /\ ~(n <= n - 1)
    BY <1>1, <2>3, <2>4
  <2>6. upTo[n - 1] = own[n - 1]
    BY <2>2, <2>5
  <2>7. QED
    BY <1>3, <1>4, <2>3, <2>4, <2>6
<1>6. QED
  <2>1. N \in 0 .. N /\ own[N] = h[N] - h[0]
    BY <1>1
  <2>2. QED
    BY <1>2, <1>5, <2>1

\* The window holds the entries of the newest LossWindow counted frames, and their sum is
\* the number of frames the device sent over that stretch, for every length of the window
\* and every loss, duplication and reordering: the positions of the counted frames are
\* running totals of the window (note_seq, loss_pct).
THEOREM WindowIsExact == Spec => []WindowExact
<1>1. LossInv /\ Newest => WindowExact
  <2> DEFINE base == IF Gone = 0 THEN First - 1 ELSE taken[Gone].n
  <2>1. SUFFICES ASSUME LossInv, Newest, epoch = 0, Counting,
                        \A k \in Gone + 1 .. Len(taken) : ~LongJump(k)
                 PROVE  Expected = Top - base
    BY DEF Newest, WindowExact
  <2>2. PICK len, gone, w : len = Len(taken) /\ gone = Gone /\ w = window
    OBVIOUS
  <2>3. /\ len \in Nat /\ gone \in Nat /\ gone <= len /\ len >= 1 /\ (gone > 0 => gone = len - LossWindow)
        /\ LossWindow \in Nat \ {0} /\ First \in Nat /\ Top \in Nat
        /\ \A k \in 1 .. len : taken[k].n \in Nat
    BY <2>1, <2>2, HistoryIs, GoneIs, LossAssumption DEF LossInv
  <2>4. gone < len
    BY <2>3
  <2>5. w \in Seq(Int) /\ w = [i \in 1 .. len - gone |-> taken[gone + i].expected]
    BY <2>1, <2>2 DEF LossInv, TypeOK, Newest
  <2>6. Len(w) = len - gone
    BY <2>3, <2>5
  <2>7. base \in Int /\ (gone > 0 => base = taken[gone].n) /\ (gone = 0 => base = taken[1].n - 1)
    BY <2>2, <2>3 DEF First
  <2> HIDE DEF base
  <2> DEFINE h == [i \in 0 .. Len(w) |-> IF i = 0 THEN base ELSE taken[gone + i].n]
  <2>8. h \in [0 .. Len(w) -> Int]
    <3>1. ASSUME NEW i \in 0 .. Len(w), i # 0 PROVE taken[gone + i].n \in Int
      <4>1. gone + i \in 1 .. len
        BY <2>3, <2>6, <3>1
      <4>2. QED
        BY <2>3, <4>1
    <3>2. QED
      BY <2>7, <3>1
  <2>9. Adds(w, h)
    <3>1. SUFFICES ASSUME NEW i \in 1 .. Len(w) PROVE h[i] = h[i - 1] + w[i]
      BY DEF Adds
    <3>2. PICK k : k = gone + i
      OBVIOUS
    <3>3. /\ k \in 1 .. len /\ k \in gone + 1 .. len /\ i - 1 \in 0 .. Len(w) /\ i \in 0 .. Len(w) /\ i # 0
          /\ k - 1 = gone + (i - 1)
      BY <2>3, <2>6, <3>2
    <3>4. h[i] = taken[k].n /\ w[i] = taken[k].expected /\ taken[k].n \in Int
      BY <2>3, <2>5, <2>6, <3>2, <3>3
    <3>5. taken[k].expected = IF k = 1 THEN 1 ELSE taken[k].n - taken[k - 1].n
      BY <2>1, <2>2, <3>3 DEF LossInv, Measured
    <3>6. CASE k = 1
      <4>1. i = 1 /\ gone = 0
        BY <2>3, <3>2, <3>3, <3>6
      <4>2. h[0] = taken[1].n - 1
        BY <2>7, <3>3, <4>1
      <4>3. QED
        BY <3>3, <3>4, <3>5, <3>6, <4>1, <4>2
    <3>7. CASE k # 1
      <4>1. k - 1 \in 1 .. len
        BY <2>3, <3>3, <3>7
      <4>2. h[i - 1] = taken[k - 1].n
        <5>1. CASE i = 1
          <6>1. gone > 0 /\ k - 1 = gone /\ i - 1 = 0
            BY <2>3, <3>2, <3>7, <5>1
          <6>2. QED
            BY <2>7, <3>3, <6>1
        <5>2. CASE i # 1
          <6>1. i - 1 # 0
            BY <5>2
          <6>2. QED
            BY <3>3, <6>1
        <5>3. QED
          BY <5>1, <5>2
      <4>3. taken[k - 1].n \in Int
        BY <2>3, <4>1
      <4>4. QED
        BY <3>4, <3>5, <3>7, <4>2, <4>3
    <3>8. QED
      BY <3>6, <3>7
  <2>10. h[0] = base /\ h[Len(w)] = Top
    <3>1. Len(w) # 0 /\ Len(w) \in 0 .. Len(w) /\ 0 \in 0 .. Len(w) /\ gone + Len(w) = len
      BY <2>3, <2>4, <2>6
    <3>2. QED
      BY <2>2, <3>1 DEF Top
  <2> HIDE DEF h
  <2>11. Total(w) = h[Len(w)] - h[0]
    BY <2>5, <2>8, <2>9, TotalIs
  <2>12. QED
    BY <2>2, <2>10, <2>11 DEF Expected
<1>2. QED
  BY <1>1, NewestInvariant, LossInvariant, PTL
==============================================================================
