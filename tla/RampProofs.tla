----------------------------- MODULE RampProofs -----------------------------
(***************************************************************************)
(* The governor's bookkeeping, for any number of parts, any starting floor *)
(* and any order of its decisions and their side effects: what it counts   *)
(* and what the pool runs stay in step although no lock covers both.       *)
(***************************************************************************)
EXTENDS Ramp, FiniteSetTheorems, TLAPS

\* The ids past the admitted count: not started, and not about to be.
Above ==
    \A id \in Workers : id >= admitted =>
        stage[id] = "unborn" /\ \A w \in Workers : id \notin call[w].spawn

\* A worker spawns or demotes.
OneEffect == \A w \in Workers : call[w].spawn = {} \/ call[w].keep = 0

\* While the ramp goes on, the next batch's ids are unused.
NextBatchUnused == ~done => Above

\* Before the first batch the count is the floor, which leaves room for one;
\* then the batch lies between the two counts.
BatchBetween ==
    /\ ~done /\ ~probed => admitted = floor /\ floor < Parts
    /\ ~done /\ probed => floor <= prevAdmitted /\ prevAdmitted < admitted
    /\ settling => probed
    /\ prevAdmitted < admitted \/ admitted <= floor

\* A batch that is ready has contributed, and only a ready one is judged.
ReadyHasContributed ==
    /\ batchReady /\ ~done => \E w \in sawBody : prevAdmitted <= w /\ w < admitted
    /\ probed /\ ~settling /\ ~done => batchReady

\* A fourth unready window never comes.
UnreadyBounded == ~done => unreadyWindows <= rampMeasureWindows

\* The flow limit holds whenever there is one.
LimitHolds == limit > 0 => Cardinality(Flows) <= limit

\* Flows past the admitted count are kept out because their ids are unused, by
\* the limit, or by a demotion that is still to come.
Excess ==
    \/ Above
    \/ 0 < limit /\ limit <= admitted
    \/ \E w \in Workers : 0 < call[w].keep /\ call[w].keep <= admitted

Inv ==
    /\ TypeOK /\ OneEffect /\ NoIdTwice
    /\ NextBatchUnused /\ BatchBetween /\ ReadyHasContributed /\ UnreadyBounded
    /\ LimitHolds /\ Excess

-----------------------------------------------------------------------------
(* Counting *)

\* A set of naturals has a least element.
LEMMA MinIn ==
  ASSUME NEW S \in SUBSET Nat, S # {}
  PROVE  Min(S) \in S /\ \A y \in S : Min(S) <= y
<1>1. \A x, y \in Nat : x < y => <<x, y>> \in OpToRel(<, Nat)
  BY Zenon DEF OpToRel
<1>2. S \subseteq Nat
  OBVIOUS
<1>3. \E m \in S : \A y \in S : ~ (<<y, m>> \in OpToRel(<, Nat))
  BY <1>2, NatLessThanWellFounded, WFMin, Zenon
<1>4. PICK m \in S : \A y \in S : ~ (y < m)
  BY <1>1, <1>2, <1>3, Zenon
<1>5. \A y \in S : m <= y
  BY <1>2, <1>4
<1> QED
  BY <1>5 DEF Min

\* The worker ids are finitely many numbers.
LEMMA WorkersFinite ==
  /\ Parts \in Nat \ {0} /\ IsFiniteSet(Workers)
  /\ \A w \in Workers : w \in Nat /\ w < Parts
BY RampAssumption, FS_Interval DEF Workers

\* So are the ids of any set of workers, and fewer when the set is smaller.
LEMMA SubsetsFinite ==
  ASSUME NEW T \in SUBSET Workers, NEW S \in SUBSET T
  PROVE  /\ IsFiniteSet(S) /\ Cardinality(S) \in Nat
         /\ IsFiniteSet(T) /\ Cardinality(T) \in Nat
         /\ Cardinality(S) <= Cardinality(T)
<1>1. IsFiniteSet(T)
  BY WorkersFinite, FS_Subset
<1>2. IsFiniteSet(S) /\ Cardinality(S) <= Cardinality(T)
  BY <1>1, FS_Subset
<1> QED
  BY <1>1, <1>2, FS_CardinalityType

\* Fewer than n ids are below n.
LEMMA FewBelow ==
  ASSUME NEW n \in Nat, NEW S \in SUBSET Workers, \A s \in S : s < n
  PROVE  Cardinality(S) <= n
<1>0. \A s \in S : s \in Nat /\ s \in 0 .. n - 1
  BY WorkersFinite
<1>1. S \in SUBSET (0 .. n - 1)
  BY <1>0
<1>2. IsFiniteSet(0 .. n - 1) /\ Cardinality(0 .. n - 1) = n
  BY FS_Interval
<1> QED
  BY <1>1, <1>2, FS_Subset

\* A nonempty set of worker ids has a greatest one.
LEMMA GreatestId ==
  ASSUME NEW S \in SUBSET Workers, S # {}
  PROVE  \E m \in S : \A s \in S : s <= m
<1> DEFINE T == {Parts - s : s \in S}
<1>1. T \in SUBSET Nat /\ T # {}
  BY WorkersFinite
<1> HIDE DEF T
<1>2. Min(T) \in T /\ \A t \in T : Min(T) <= t
  BY <1>1, MinIn
<1>3. PICK m \in S : Min(T) = Parts - m
  BY <1>2 DEF T
<1>4. \A s \in S : Parts - m <= Parts - s
  BY <1>2, <1>3 DEF T
<1>5. \A s \in S : s <= m
  BY <1>4, WorkersFinite
<1> QED
  BY <1>5

\* demote leaves no more flows than it is to keep: the survivors but the last
\* are all below the last, and fewer than that many are.
LEMMA SurvivorsWithin ==
  ASSUME NEW keep \in Nat, NEW F \in SUBSET Workers,
         NEW S, S = {v \in F : Cardinality({u \in F : u < v}) < keep}
  PROVE  Cardinality(S) <= keep
<1>1. S \in SUBSET Workers
  OBVIOUS
<1>2. CASE S = {}
  <2>1. Cardinality(S) = 0
    BY <1>2, FS_EmptySet, Zenon
  <2> QED
    BY <2>1
<1>3. CASE S # {}
  <2>1. PICK m \in S : \A s \in S : s <= m
    BY <1>1, <1>3, GreatestId
  <2> DEFINE below == {u \in F : u < m}
  <2>2. Cardinality(below) < keep
    BY <2>1
  <2>3. S \ {m} \in SUBSET below
    BY <1>1, <2>1, WorkersFinite
  <2>4. below \in SUBSET Workers
    OBVIOUS
  <2> HIDE DEF below
  <2>5. Cardinality(S \ {m}) <= Cardinality(below) /\ Cardinality(below) \in Nat
    BY <2>3, <2>4, SubsetsFinite
  <2>6. IsFiniteSet(S) /\ Cardinality(S) \in Nat
    BY <1>1, SubsetsFinite
  <2>7. Cardinality(S \ {m}) = Cardinality(S) - 1
    BY <2>1, <2>6, FS_RemoveElement
  <2> QED
    BY <2>2, <2>5, <2>6, <2>7
<1> QED
  BY <1>2, <1>3

\* The smaller and the larger of two numbers.
LEMMA MinOfTwo ==
  ASSUME NEW a \in Nat, NEW b \in Nat
  PROVE  /\ Min({a, b}) \in {a, b} /\ Min({a, b}) <= a /\ Min({a, b}) <= b
         /\ Max({a, b}) \in {a, b} /\ Max({a, b}) >= a /\ Max({a, b}) >= b
<1>1. \E x \in {a, b} : \A y \in {a, b} : x =< y
  <2>1. CASE a <= b
    BY <2>1
  <2>2. CASE b <= a
    BY <2>2
  <2> QED
    BY <2>1, <2>2
<1>2. \E x \in {a, b} : \A y \in {a, b} : x >= y
  <2>1. CASE a <= b
    BY <2>1
  <2>2. CASE b <= a
    BY <2>2
  <2> QED
    BY <2>1, <2>2
<1>3. Min({a, b}) \in {a, b} /\ \A y \in {a, b} : Min({a, b}) =< y
  BY <1>1 DEF Min
<1>4. Max({a, b}) \in {a, b} /\ \A y \in {a, b} : Max({a, b}) >= y
  BY <1>2 DEF Max
<1> QED
  BY <1>3, <1>4

-----------------------------------------------------------------------------
(* What the governor's steps keep of the pool *)

\* The pool does not notice a governor that decides nothing.
LEMMA NothingDecided ==
  ASSUME Inv, UNCHANGED <<stage, limit, call, admitted>>, done => done'
  PROVE  OneEffect' /\ NoIdTwice' /\ NextBatchUnused' /\ LimitHolds' /\ Excess'
BY DEF Inv, OneEffect, NoIdTwice, NextBatchUnused, Above, LimitHolds, Flows, In, Excess

\* A decision to demote ends the ramp, and bounds the flows once it runs.
LEMMA DemotionDecided ==
  ASSUME Inv, NEW w \in Workers, call[w] = NoCall, NEW keep \in 1 .. Parts, keep <= admitted',
         UNCHANGED <<stage, limit>>, done' = TRUE, Decide(w, DemoteCall(keep))
  PROVE  OneEffect' /\ NoIdTwice' /\ NextBatchUnused' /\ LimitHolds' /\ Excess'
<1>1. /\ call'[w].spawn = {} /\ call'[w].keep = keep
      /\ \A v \in Workers : v # w => call'[v] = call[v]
  BY DEF Inv, TypeOK, Decide, DemoteCall
<1>2. OneEffect' /\ NoIdTwice'
  BY <1>1 DEF Inv, OneEffect, NoIdTwice
<1>3. Excess'
  BY <1>1 DEF Excess
<1> QED
  BY <1>2, <1>3 DEF Inv, NextBatchUnused, LimitHolds, Flows, In

\* Where a batch begins and ends.
LEMMA BatchSize ==
  ASSUME Inv, admitted < Parts, NEW w, Admit(w)
  PROVE  \E n \in Nat \ {0} :
           /\ prevAdmitted' = admitted /\ admitted' = admitted + n /\ admitted + n <= Parts
           /\ Decide(w, SpawnCall(admitted .. admitted + n - 1))
           /\ probed' = TRUE /\ settling' = TRUE /\ settled' = FALSE
           /\ batchReady' = FALSE /\ unreadyWindows' = 0
<1> DEFINE n == Min({admitted, Parts - admitted})
<1>1. admitted \in Nat \ {0} /\ Parts - admitted \in Nat \ {0} /\ Parts \in Nat
  BY RampAssumption DEF Inv, TypeOK
<1>2. n \in {admitted, Parts - admitted} /\ n <= Parts - admitted
  BY <1>1, MinOfTwo
<1>3. n \in Nat \ {0} /\ admitted + n <= Parts
  <2> HIDE DEF n
  <2> QED
    BY <1>1, <1>2
<1> QED
  BY <1>3 DEF Admit

\* The next batch: its ids are unused, and those past it stay so.
LEMMA BatchDecided ==
  ASSUME Inv, ~done, NEW w \in Workers, call[w] = NoCall, admitted < Parts, floor <= admitted,
         Admit(w), UNCHANGED <<floor, done, warmed, sawBody, poolVars>>,
         sampleCount' \in 0 .. rampMeasureWindows - 1
  PROVE  Inv'
<1>1. PICK n \in Nat \ {0} :
           /\ prevAdmitted' = admitted /\ admitted' = admitted + n /\ admitted + n <= Parts
           /\ Decide(w, SpawnCall(admitted .. admitted + n - 1))
           /\ probed' = TRUE /\ settling' = TRUE /\ settled' = FALSE
           /\ batchReady' = FALSE /\ unreadyWindows' = 0
  BY BatchSize
<1> DEFINE ids == admitted .. admitted + n - 1
<1>2. floor \in Nat /\ admitted \in Nat \ {0} /\ Parts \in Nat
  BY RampAssumption DEF Inv, TypeOK
<1>3. ids \in SUBSET Workers /\ \A id \in ids : admitted <= id /\ id < admitted + n
  BY <1>1, <1>2 DEF Workers
<1> HIDE DEF ids
<1>4. call'[w] = SpawnCall(ids) /\ \A v \in Workers : v # w => call'[v] = call[v]
  BY <1>1 DEF Inv, TypeOK, Decide, ids
<1>5. call'[w].spawn = ids /\ call'[w].keep = 0
  BY <1>4 DEF SpawnCall
<1>6. /\ stage' = stage /\ limit' = limit /\ floor' = floor /\ done' = done
      /\ warmed' = warmed /\ sawBody' = sawBody /\ work' = work
  BY DEF poolVars
<1>7. Above
  BY DEF Inv, NextBatchUnused
<1>8. TypeOK'
  <2>1. call' \in [Workers -> [spawn: SUBSET Workers, keep: 0 .. Parts]]
    <3>1. SpawnCall(ids) \in [spawn: SUBSET Workers, keep: 0 .. Parts]
      BY <1>2, <1>3 DEF SpawnCall
    <3> QED
      BY <1>1, <3>1 DEF Inv, TypeOK, Decide, ids
  <2>2. admitted' \in 1 .. Parts /\ prevAdmitted' \in 0 .. Parts
    BY <1>1, <1>2, RampAssumption DEF Inv, TypeOK
  <2>3. unreadyWindows' \in 0 .. rampMeasureWindows + 1
    BY <1>1 DEF rampMeasureWindows
  <2> QED
    BY <1>1, <1>6, <2>1, <2>2, <2>3 DEF Inv, TypeOK
<1>9. OneEffect' /\ NoIdTwice'
  <2>1. \A id \in ids : stage[id] = "unborn" /\ \A v \in Workers : id \notin call[v].spawn
    BY <1>3, <1>7 DEF Above
  <2> QED
    BY <1>4, <1>5, <1>6, <2>1 DEF Inv, OneEffect, NoIdTwice
<1>10. Above'
  <2> SUFFICES ASSUME NEW id \in Workers, id >= admitted + n
               PROVE  stage[id] = "unborn" /\ \A v \in Workers : id \notin call'[v].spawn
    BY <1>1, <1>6 DEF Above
  <2>0. id \in Nat
    BY WorkersFinite
  <2>1. id >= admitted /\ id \notin ids
    BY <1>2, <1>3, <2>0
  <2> QED
    BY <1>4, <1>5, <1>7, <2>1 DEF Above
<1>11. BatchBetween'
  BY <1>1, <1>2, <1>6 DEF Inv, BatchBetween
<1>12. ReadyHasContributed' /\ UnreadyBounded'
  BY <1>1 DEF ReadyHasContributed, UnreadyBounded, rampMeasureWindows
<1>13. LimitHolds'
  BY <1>6 DEF Inv, LimitHolds, Flows, In
<1> QED
  BY <1>8, <1>9, <1>10, <1>11, <1>12, <1>13 DEF Inv, NextBatchUnused, Excess

-----------------------------------------------------------------------------
(* Each step of the governor *)

\* A window before the first probe only warms the ramp up.
LEMMA BurnInStep ==
  ASSUME Inv, NEW w \in Workers, BurnIn(w)
  PROVE  Inv'
<1>1. OneEffect' /\ NoIdTwice' /\ NextBatchUnused' /\ LimitHolds' /\ Excess'
  BY NothingDecided DEF BurnIn, poolVars
<1> QED
  BY <1>1 DEF BurnIn, Inv, TypeOK, BatchBetween, ReadyHasContributed, UnreadyBounded, poolVars

\* A settling window: ready, or one more unready one, or one too many.
LEMMA SettleStep ==
  ASSUME Inv, NEW w \in Workers, Settle(w)
  PROVE  Inv'
<1>0. /\ ~done /\ settling /\ call[w] = NoCall
      /\ UNCHANGED <<floor, admitted, prevAdmitted, probed, warmed, batchReady,
                     sampleCount, settled, sawBody, stage, limit, work>>
  BY DEF Settle, Window, Reading, poolVars
<1>1. CASE batchReady
  <2>1. settling' = FALSE /\ unreadyWindows' = 0 /\ UNCHANGED <<done, call>>
    BY <1>1 DEF Settle
  <2>2. OneEffect' /\ NoIdTwice' /\ NextBatchUnused' /\ LimitHolds' /\ Excess'
    BY <1>0, <2>1, NothingDecided
  <2>3. TypeOK'
    <3>1. unreadyWindows' \in 0 .. rampMeasureWindows + 1
      BY <2>1 DEF rampMeasureWindows
    <3>2. settling' \in BOOLEAN
      BY <2>1, Zenon
    <3> QED
      BY <1>0, <2>1, <3>1, <3>2 DEF Inv, TypeOK
  <2>4. BatchBetween' /\ ReadyHasContributed' /\ UnreadyBounded'
    BY <1>0, <1>1, <2>1 DEF Inv, BatchBetween, ReadyHasContributed, UnreadyBounded, rampMeasureWindows
  <2> QED
    BY <2>2, <2>3, <2>4 DEF Inv
<1>2. CASE ~batchReady /\ ~(unreadyWindows + 1 > rampMeasureWindows)
  <2>1. unreadyWindows' = unreadyWindows + 1 /\ UNCHANGED <<done, call, settling>>
    BY <1>2 DEF Settle
  <2>2. OneEffect' /\ NoIdTwice' /\ NextBatchUnused' /\ LimitHolds' /\ Excess'
    BY <1>0, <2>1, NothingDecided
  <2>3. TypeOK' /\ UnreadyBounded'
    BY <1>0, <1>2, <2>1 DEF Inv, TypeOK, UnreadyBounded, rampMeasureWindows
  <2>4. BatchBetween' /\ ReadyHasContributed'
    BY <1>0, <2>1 DEF Inv, BatchBetween, ReadyHasContributed
  <2> QED
    BY <2>2, <2>3, <2>4 DEF Inv
<1>3. CASE ~batchReady /\ unreadyWindows + 1 > rampMeasureWindows
  <2>1. /\ unreadyWindows' = unreadyWindows + 1 /\ settling' = settling
        /\ done' = TRUE /\ Decide(w, DemoteCall(prevAdmitted))
    BY <1>3 DEF Settle
  <2>2. prevAdmitted \in 1 .. Parts /\ prevAdmitted <= admitted'
    BY <1>0, RampAssumption DEF Inv, BatchBetween, TypeOK
  <2>3. OneEffect' /\ NoIdTwice' /\ NextBatchUnused' /\ LimitHolds' /\ Excess'
    BY <1>0, <2>1, <2>2, DemotionDecided
  <2>4. call' \in [Workers -> [spawn: SUBSET Workers, keep: 0 .. Parts]]
    <3>1. DemoteCall(prevAdmitted) \in [spawn: SUBSET Workers, keep: 0 .. Parts]
      BY DEF DemoteCall, Inv, TypeOK
    <3> QED
      BY <2>1, <3>1 DEF Inv, TypeOK, Decide
  <2>5. unreadyWindows' \in 0 .. rampMeasureWindows + 1
    BY <1>0, <2>1 DEF Inv, TypeOK, UnreadyBounded, rampMeasureWindows
  <2>6. TypeOK'
    BY <1>0, <2>1, <2>4, <2>5 DEF Inv, TypeOK
  <2>7. BatchBetween' /\ ReadyHasContributed' /\ UnreadyBounded'
    BY <1>0, <2>1 DEF Inv, BatchBetween, ReadyHasContributed, UnreadyBounded
  <2> QED
    BY <2>3, <2>6, <2>7 DEF Inv
<1> QED
  BY <1>1, <1>2, <1>3

\* The first batch.
LEMMA ProbeStep ==
  ASSUME Inv, NEW w \in Workers, Probe(w)
  PROVE  Inv'
<1>1. ~done /\ ~probed /\ call[w] = NoCall /\ admitted = floor
      /\ UNCHANGED <<floor, done, warmed, sawBody, poolVars>> /\ sampleCount' = sampleCount
  BY DEF Probe, Window, Reading
<1>2. admitted < Parts /\ floor <= admitted
  BY <1>1, RampAssumption DEF Inv, BatchBetween, TypeOK
<1>3. sampleCount' \in 0 .. rampMeasureWindows - 1
  BY <1>1 DEF Inv, TypeOK
<1> QED
  BY <1>1, <1>2, <1>3, BatchDecided DEF Probe

\* A measured window: one more of the sample, or the verdict.
LEMMA MeasureStep ==
  ASSUME Inv, NEW w \in Workers, Measure(w)
  PROVE  Inv'
<1>0. /\ ~done /\ call[w] = NoCall /\ UNCHANGED <<floor, warmed, sawBody, poolVars>>
      /\ probed /\ floor <= prevAdmitted /\ prevAdmitted < admitted
      /\ stage' = stage /\ limit' = limit /\ work' = work
      /\ floor \in 1 .. Parts /\ prevAdmitted \in 0 .. Parts /\ admitted \in 1 .. Parts
      /\ Parts \in Nat
  BY RampAssumption DEF Measure, Window, Reading, Inv, BatchBetween, TypeOK, poolVars
<1>1. sampleCount' \in 0 .. rampMeasureWindows - 1
  <2>1. sampleCount \in 0 .. 1
    BY DEF Inv, TypeOK, rampMeasureWindows
  <2>2. sampleCount' = 0 \/ (sampleCount + 1 < 2 /\ sampleCount' = sampleCount + 1)
    BY DEF Measure, rampMeasureWindows
  <2> QED
    BY <2>1, <2>2 DEF rampMeasureWindows
<1>2. CASE /\ done' = TRUE /\ Decide(w, DemoteCall(prevAdmitted))
           /\ UNCHANGED <<admitted, prevAdmitted, probed, settling, settled,
                          batchReady, unreadyWindows>>
  <2>1. prevAdmitted \in 1 .. Parts /\ prevAdmitted <= admitted'
    BY <1>0, <1>2
  <2>2. OneEffect' /\ NoIdTwice' /\ NextBatchUnused' /\ LimitHolds' /\ Excess'
    BY <1>0, <1>2, <2>1, DemotionDecided
  <2>3. call' \in [Workers -> [spawn: SUBSET Workers, keep: 0 .. Parts]]
    <3>1. DemoteCall(prevAdmitted) \in [spawn: SUBSET Workers, keep: 0 .. Parts]
      BY DEF DemoteCall, Inv, TypeOK
    <3> QED
      BY <1>2, <3>1 DEF Inv, TypeOK, Decide
  <2>4. TypeOK'
    BY <1>0, <1>1, <1>2, <2>3 DEF Inv, TypeOK
  <2>5. BatchBetween' /\ ReadyHasContributed' /\ UnreadyBounded'
    BY <1>0, <1>2 DEF Inv, BatchBetween, ReadyHasContributed, UnreadyBounded
  <2> QED
    BY <2>2, <2>4, <2>5 DEF Inv
<1>3. CASE /\ done' \in {done, TRUE}
           /\ UNCHANGED <<admitted, prevAdmitted, probed, settling, settled,
                          batchReady, unreadyWindows, call>>
  <2>1. OneEffect' /\ NoIdTwice' /\ NextBatchUnused' /\ LimitHolds' /\ Excess'
    BY <1>0, <1>3, NothingDecided
  <2>2. done' \in BOOLEAN
    BY <1>3, Zenon DEF Inv, TypeOK
  <2>3. TypeOK'
    BY <1>0, <1>1, <1>3, <2>2 DEF Inv, TypeOK
  <2>4. BatchBetween' /\ ReadyHasContributed' /\ UnreadyBounded'
    BY <1>0, <1>3 DEF Inv, BatchBetween, ReadyHasContributed, UnreadyBounded
  <2> QED
    BY <2>1, <2>3, <2>4 DEF Inv
<1>4. CASE admitted < Parts /\ Admit(w) /\ UNCHANGED done
  <2>1. floor <= admitted
    BY <1>0
  <2> QED
    BY <1>0, <1>1, <1>4, <2>1, BatchDecided
<1>5. \/ sampleCount' = sampleCount + 1
         /\ UNCHANGED <<done, admitted, prevAdmitted, probed, settling, settled,
                        batchReady, unreadyWindows, call>>
      \/ Verdict(w)
  BY DEF Measure
<1> QED
  BY <1>2, <1>3, <1>4, <1>5 DEF Verdict

\* The first body byte of a worker of the batch makes the batch ready.
LEMMA WorkerReadyStep ==
  ASSUME Inv, NEW w \in Workers, WorkerReady(w)
  PROVE  Inv'
<1>1. /\ UNCHANGED <<floor, done, admitted, prevAdmitted, probed, warmed, settling,
                     unreadyWindows, sampleCount, settled, stage, limit, work, call>>
      /\ sawBody' = sawBody \cup {w} /\ batchReady' = (batchReady \/ InBatch(w))
  BY DEF WorkerReady, poolVars
<1>2. OneEffect' /\ NoIdTwice' /\ NextBatchUnused' /\ LimitHolds' /\ Excess'
  BY <1>1, NothingDecided
<1>3. batchReady' \in BOOLEAN
  BY <1>1, Zenon
<1>4. TypeOK'
  BY <1>1, <1>3 DEF Inv, TypeOK
<1>5. ReadyHasContributed'
  BY <1>1 DEF Inv, ReadyHasContributed, InBatch, TypeOK
<1>6. BatchBetween' /\ UnreadyBounded'
  BY <1>1 DEF Inv, BatchBetween, UnreadyBounded
<1> QED
  BY <1>2, <1>4, <1>5, <1>6 DEF Inv

\* What a 429 that is not stale leaves of the flows: less than was admitted,
\* and not less than the floor unless the pool is at its floor already.
LEMMA KeepSheds ==
  ASSUME Inv, NEW w, ~Stale(w)
  PROVE  /\ Keep \in 1 .. Parts /\ Keep < admitted
         /\ Keep >= floor \/ (Keep = 1 /\ admitted <= floor)
<1>1. /\ floor \in Nat \ {0} /\ prevAdmitted \in Nat /\ admitted \in Nat \ {0} /\ Parts \in Nat
      /\ floor <= Parts /\ prevAdmitted <= Parts /\ admitted > 1 /\ admitted <= Parts
      /\ prevAdmitted < admitted \/ admitted <= floor
  BY RampAssumption DEF Inv, TypeOK, BatchBetween, Stale
<1> DEFINE m == Max({prevAdmitted, floor})
<1>2. m \in {prevAdmitted, floor} /\ m >= prevAdmitted /\ m >= floor
  BY <1>1, MinOfTwo
<1> HIDE DEF m
<1>3. Keep = IF admitted > floor THEN m ELSE 1
  BY DEF Keep, m
<1> QED
  BY <1>1, <1>2, <1>3

\* A 429 ends the ramp, and unless it is stale walks the count down.
LEMMA ThrottledStep ==
  ASSUME Inv, NEW w \in Workers, Throttled(w)
  PROVE  Inv'
<1>0. /\ UNCHANGED <<floor, probed, warmed, settling, batchReady, unreadyWindows,
                     sampleCount, settled, sawBody, stage, limit, work>>
      /\ done' = TRUE /\ call[w] = NoCall
  BY DEF Throttled, Reading, poolVars
<1>1. ReadyHasContributed' /\ UnreadyBounded'
  BY <1>0 DEF ReadyHasContributed, UnreadyBounded
<1>2. CASE Stale(w)
  <2>1. UNCHANGED <<admitted, prevAdmitted, call>>
    BY <1>2 DEF Throttled
  <2>2. OneEffect' /\ NoIdTwice' /\ NextBatchUnused' /\ LimitHolds' /\ Excess'
    BY <1>0, <2>1, NothingDecided
  <2>3. TypeOK' /\ BatchBetween'
    BY <1>0, <2>1 DEF Inv, TypeOK, BatchBetween
  <2> QED
    BY <1>1, <2>2, <2>3 DEF Inv
<1>3. CASE ~Stale(w)
  <2>1. admitted' = Keep /\ prevAdmitted' = floor /\ Decide(w, DemoteCall(Keep))
    BY <1>3 DEF Throttled
  <2>2. Keep \in 1 .. Parts
    BY <1>3, KeepSheds
  <2>3. floor \in 1 .. Parts /\ Parts \in Nat
    BY RampAssumption DEF Inv, TypeOK
  <2>4. OneEffect' /\ NoIdTwice' /\ NextBatchUnused' /\ LimitHolds' /\ Excess'
    BY <1>0, <2>1, <2>2, <2>3, DemotionDecided
  <2>5. call' \in [Workers -> [spawn: SUBSET Workers, keep: 0 .. Parts]]
    <3>1. DemoteCall(Keep) \in [spawn: SUBSET Workers, keep: 0 .. Parts]
      BY <2>2, <2>3 DEF DemoteCall
    <3> QED
      BY <2>1, <3>1 DEF Inv, TypeOK, Decide
  <2>6. admitted' \in 1 .. Parts /\ prevAdmitted' \in 0 .. Parts
    BY <2>1, <2>2, <2>3
  <2>7. TypeOK'
    BY <1>0, <2>5, <2>6 DEF Inv, TypeOK
  <2>8. BatchBetween'
    BY <1>0, <2>1, <2>2, <2>3 DEF Inv, BatchBetween
  <2> QED
    BY <1>1, <2>4, <2>7, <2>8 DEF Inv
<1> QED
  BY <1>2, <1>3

\* settleMin passes, ranges run out, a finished pool rests.
LEMMA TimeStep ==
  ASSUME Inv, SettleMinPasses \/ RunShort \/ UNCHANGED vars
  PROVE  Inv'
<1>1. /\ UNCHANGED <<floor, done, admitted, prevAdmitted, probed, warmed, settling,
                     batchReady, unreadyWindows, sampleCount, sawBody, stage, limit, call>>
      /\ settled' \in {settled, TRUE} /\ work' \in {work, FALSE}
  BY DEF SettleMinPasses, RunShort, vars, rampVars, poolVars
<1>2. OneEffect' /\ NoIdTwice' /\ NextBatchUnused' /\ LimitHolds' /\ Excess'
  BY <1>1, NothingDecided
<1>3. settled' \in BOOLEAN /\ work' \in BOOLEAN
  BY <1>1, Zenon DEF Inv, TypeOK
<1>4. TypeOK'
  BY <1>1, <1>3 DEF Inv, TypeOK
<1>5. BatchBetween' /\ ReadyHasContributed' /\ UnreadyBounded'
  BY <1>1 DEF Inv, BatchBetween, ReadyHasContributed, UnreadyBounded
<1> QED
  BY <1>2, <1>4, <1>5 DEF Inv

-----------------------------------------------------------------------------
(* Each step of the pool *)

\* The governor does not notice the pool.
LEMMA GovernorStill ==
  ASSUME Inv, UNCHANGED rampVars
  PROVE  BatchBetween' /\ ReadyHasContributed' /\ UnreadyBounded'
BY DEF Inv, BatchBetween, ReadyHasContributed, UnreadyBounded, rampVars

\* Above the admitted count nothing stirs when a started worker moves on.
LEMMA StartedMoves ==
  ASSUME Inv, UNCHANGED rampVars, UNCHANGED <<limit, call>>,
         NEW w \in Workers, stage[w] # "unborn",
         NEW s \in Stages, stage' = [stage EXCEPT ![w] = s],
         s = "flow" => limit = 0 \/ Cardinality(Flows) + 1 <= limit,
         work' = work
  PROVE  Inv'
<1>1. /\ stage'[w] = s /\ \A v \in Workers : v # w => stage'[v] = stage[v]
      /\ call' = call /\ limit' = limit /\ admitted' = admitted /\ done' = done
  BY DEF Inv, TypeOK, rampVars
<1>2. TypeOK'
  BY DEF Inv, TypeOK, rampVars
<1>3. OneEffect' /\ NoIdTwice'
  BY <1>1 DEF Inv, OneEffect, NoIdTwice
<1>4. Above => Above'
  BY <1>1 DEF Above
<1>5. NextBatchUnused' /\ Excess'
  BY <1>1, <1>4 DEF Inv, NextBatchUnused, Excess
<1>6. Flows \in SUBSET Workers /\ Flows' \in SUBSET Workers
  BY DEF Flows, In
<1>7. IsFiniteSet(Flows) /\ Cardinality(Flows) \in Nat /\ Cardinality(Flows') \in Nat
  BY <1>6, SubsetsFinite
<1>8. LimitHolds'
  <2>1. CASE s = "flow"
    <3>1. Flows' = Flows \cup {w}
      BY <1>1, <2>1 DEF Flows, In
    <3>2. Cardinality(Flows') <= Cardinality(Flows) + 1
      <4>1. Cardinality(Flows \cup {w}) = IF w \in Flows THEN Cardinality(Flows)
                                          ELSE Cardinality(Flows) + 1
        BY <1>7, FS_AddElement
      <4> QED
        BY <1>7, <3>1, <4>1
    <3>3. limit \in Nat
      BY RampAssumption DEF Inv, TypeOK
    <3> QED
      BY <1>1, <1>7, <2>1, <3>2, <3>3 DEF LimitHolds
  <2>2. CASE s # "flow"
    <3>1. Flows' \in SUBSET Flows
      BY <1>1, <2>2 DEF Flows, In
    <3>2. Cardinality(Flows') <= Cardinality(Flows)
      BY <1>6, <3>1, SubsetsFinite
    <3>3. limit \in Nat
      BY RampAssumption DEF Inv, TypeOK
    <3> QED
      BY <1>1, <1>7, <3>2, <3>3 DEF LimitHolds, Inv
  <2> QED
    BY <2>1, <2>2
<1> QED
  BY <1>2, <1>3, <1>5, <1>8, GovernorStill DEF Inv

\* The first id of a batch is started.
LEMMA SpawnStep ==
  ASSUME Inv, NEW w \in Workers, Spawn(w)
  PROVE  Inv'
<1> DEFINE id == Min(call[w].spawn)
<1>0. call[w].spawn \in SUBSET Workers /\ call[w].spawn # {} /\ call[w].keep = 0
  BY DEF Spawn, Inv, TypeOK, OneEffect
<1>1. id \in call[w].spawn /\ id \in Workers
  <2>1. call[w].spawn \in SUBSET Nat
    BY <1>0, WorkersFinite
  <2> QED
    BY <1>0, <2>1, MinIn
<1>2. /\ stage' = [stage EXCEPT ![id] = "born"] /\ Decide(w, SpawnCall(call[w].spawn \ {id}))
      /\ UNCHANGED rampVars /\ limit' = limit /\ work' = work
  BY DEF Spawn
<1> HIDE DEF id
<1>3. stage[id] = "unborn"
  BY <1>1 DEF Inv, NoIdTwice
<1>4. stage'[id] = "born" /\ \A v \in Workers : v # id => stage'[v] = stage[v]
  BY <1>1, <1>2 DEF Inv, TypeOK
<1>5. /\ call'[w] = SpawnCall(call[w].spawn \ {id})
      /\ \A v \in Workers : v # w => call'[v] = call[v]
  BY <1>2 DEF Inv, TypeOK, Decide
<1>6. call'[w].spawn = call[w].spawn \ {id} /\ call'[w].keep = 0
  BY <1>5 DEF SpawnCall
<1>7. TypeOK'
  <2>1. call' \in [Workers -> [spawn: SUBSET Workers, keep: 0 .. Parts]]
    <3>1. SpawnCall(call[w].spawn \ {id}) \in [spawn: SUBSET Workers, keep: 0 .. Parts]
      BY <1>0, RampAssumption DEF SpawnCall
    <3> QED
      BY <1>2, <3>1 DEF Inv, TypeOK, Decide
  <2>2. stage' \in [Workers -> Stages]
    BY <1>2 DEF Inv, TypeOK, Stages
  <2> QED
    BY <1>2, <2>1, <2>2 DEF Inv, TypeOK, rampVars
<1>8. OneEffect' /\ NoIdTwice'
  <2>1. \A v \in Workers : v # w => id \notin call[v].spawn
    BY <1>1 DEF Inv, NoIdTwice
  <2>2. OneEffect'
    BY <1>5, <1>6 DEF Inv, OneEffect
  <2>3. \A v \in Workers : call'[v].spawn \subseteq call[v].spawn /\ id \notin call'[v].spawn
    BY <1>5, <1>6, <2>1
  <2>4. \A v \in Workers : \A x \in call'[v].spawn : stage'[x] = "unborn"
    BY <1>4, <2>3 DEF Inv, NoIdTwice, TypeOK
  <2> QED
    BY <2>2, <2>3, <2>4 DEF Inv, NoIdTwice
<1>9. Above => Above'
  <2> SUFFICES ASSUME Above, NEW x \in Workers, x >= admitted
               PROVE  stage'[x] = "unborn" /\ \A v \in Workers : x \notin call'[v].spawn
    BY <1>2 DEF Above, rampVars
  <2>1. x # id /\ stage[x] = "unborn" /\ \A v \in Workers : x \notin call[v].spawn
    BY <1>1 DEF Above
  <2> QED
    BY <1>4, <1>5, <1>6, <2>1
<1>10. \A v \in Workers : call'[v].keep = call[v].keep
  BY <1>0, <1>5, <1>6
<1>11. NextBatchUnused' /\ Excess'
  BY <1>2, <1>9, <1>10 DEF Inv, NextBatchUnused, Excess, rampVars
<1>12. Flows' = Flows
  BY <1>3, <1>4 DEF Flows, In
<1> QED
  BY <1>2, <1>7, <1>8, <1>11, <1>12, GovernorStill DEF Inv, LimitHolds

\* A demotion keeps the lowest flows, and the limit keeps others out.
LEMMA DemoteStep ==
  ASSUME Inv, NEW w \in Workers, Demote(w)
  PROVE  Inv'
<1> DEFINE keep == call[w].keep
           victims == Victims(keep)
<1>1. keep \in Nat /\ keep > 0 /\ keep <= Parts /\ limit \in Nat /\ limit <= Parts /\ Parts \in Nat
  BY RampAssumption DEF Demote, Inv, TypeOK
<1>2. /\ stage' = [v \in Workers |-> IF v \in victims THEN "leaving" ELSE stage[v]]
      /\ work' = (work \/ victims # {}) /\ limit' = LimitAfter(keep)
      /\ Decide(w, NoCall) /\ UNCHANGED rampVars
  BY DEF Demote
<1>3. victims \in SUBSET Flows /\ Flows \in SUBSET Workers
  BY DEF Victims, Flows, In
<1>4. call'[w] = NoCall /\ \A v \in Workers : v # w => call'[v] = call[v]
  BY <1>2 DEF Inv, TypeOK, Decide
<1>5. call'[w].spawn = {} /\ call'[w].keep = 0
  BY <1>4 DEF NoCall
<1>6. Flows' = {v \in Flows : Cardinality({u \in Flows : u < v}) < keep}
  <2>1. \A v \in Flows : Cardinality({u \in Flows : u < v}) \in Nat
    <3> SUFFICES ASSUME NEW v \in Flows PROVE Cardinality({u \in Flows : u < v}) \in Nat
      OBVIOUS
    <3>1. {u \in Flows : u < v} \in SUBSET Flows
      OBVIOUS
    <3> QED
      BY <1>3, <3>1, SubsetsFinite
  <2>2. \A v \in Flows : v \in victims <=> ~(Cardinality({u \in Flows : u < v}) < keep)
    BY <1>1, <2>1 DEF Victims
  <2>3. Flows' = {v \in Flows : v \notin victims}
    BY <1>2, <1>3 DEF Flows, In
  <2> QED
    BY <2>2, <2>3
<1>7. Flows' \in SUBSET Flows
  BY <1>6
<1>8. Cardinality(Flows') <= keep
  BY <1>1, <1>3, <1>6, SurvivorsWithin
<1>9. /\ Cardinality(Flows') <= Cardinality(Flows)
      /\ Cardinality(Flows) \in Nat /\ Cardinality(Flows') \in Nat
  BY <1>3, <1>7, SubsetsFinite
<1> HIDE DEF victims, keep
<1>10. limit' = IF limit = 0 \/ keep < limit THEN keep ELSE limit
  BY <1>2 DEF LimitAfter
<1>11. LimitHolds'
  BY <1>1, <1>8, <1>9, <1>10 DEF Inv, LimitHolds
<1>12. TypeOK'
  <2>1. limit' \in 0 .. Parts
    BY <1>1, <1>10
  <2>2. stage' \in [Workers -> Stages]
    BY <1>2 DEF Inv, TypeOK, Stages
  <2>3. work' \in BOOLEAN
    BY <1>2, Zenon
  <2>4. call' \in [Workers -> [spawn: SUBSET Workers, keep: 0 .. Parts]]
    <3>1. NoCall \in [spawn: SUBSET Workers, keep: 0 .. Parts]
      BY <1>1 DEF NoCall
    <3> QED
      BY <1>2, <3>1 DEF Inv, TypeOK, Decide
  <2> QED
    BY <1>2, <2>1, <2>2, <2>3, <2>4 DEF Inv, TypeOK, rampVars
<1>13. \A v \in Workers : stage[v] = "unborn" => stage'[v] = "unborn"
  BY <1>2, <1>3 DEF Flows, In
<1>14. OneEffect' /\ NoIdTwice'
  <2>1. \A v \in Workers : call'[v].spawn \subseteq call[v].spawn
    BY <1>4, <1>5
  <2>2. \A v \in Workers : \A x \in call'[v].spawn : stage'[x] = "unborn"
    BY <1>13, <2>1 DEF Inv, NoIdTwice, TypeOK
  <2>3. OneEffect'
    BY <1>4, <1>5 DEF Inv, OneEffect
  <2> QED
    BY <2>1, <2>2, <2>3 DEF Inv, NoIdTwice
<1>15. admitted' = admitted /\ done' = done
  BY <1>2 DEF rampVars
<1>16. Above => Above'
  BY <1>4, <1>5, <1>13, <1>15 DEF Above
<1>17. Excess'
  <2>1. CASE Above
    BY <1>16, <2>1 DEF Excess
  <2>2. CASE 0 < limit /\ limit <= admitted
    BY <1>1, <1>10, <1>15, <2>2 DEF Excess, Inv, TypeOK
  <2>3. ASSUME NEW v \in Workers, 0 < call[v].keep, call[v].keep <= admitted PROVE Excess'
    <3>1. CASE v = w
      <4>1. 0 < limit' /\ limit' <= admitted'
        BY <1>1, <1>10, <1>15, <2>3, <3>1 DEF Inv, TypeOK, keep
      <4> QED
        BY <4>1 DEF Excess
    <3>2. CASE v # w
      BY <1>4, <1>15, <2>3, <3>2 DEF Excess
    <3> QED
      BY <3>1, <3>2
  <2> QED
    BY <2>1, <2>2, <2>3 DEF Inv, Excess
<1>18. NextBatchUnused'
  BY <1>15, <1>16 DEF Inv, NextBatchUnused
<1> QED
  BY <1>2, <1>11, <1>12, <1>14, <1>17, <1>18, GovernorStill DEF Inv

\* A worker registers, is turned away, or leaves.
LEMMA MoveStep ==
  ASSUME Inv, NEW w \in Workers, Register(w) \/ Leave(w) \/ Drain(w)
  PROVE  Inv'
<1>1. UNCHANGED rampVars /\ UNCHANGED <<limit, call>> /\ work' = work /\ stage[w] # "unborn"
  BY DEF Register, Leave, Drain
<1>2. CASE Leave(w) \/ Drain(w)
  <2>1. stage' = [stage EXCEPT ![w] = "gone"] /\ "gone" \in Stages
    BY <1>2 DEF Leave, Drain, Stages
  <2> QED
    BY <1>1, <2>1, StartedMoves
<1>3. CASE Register(w)
  <2> DEFINE s == IF (limit > 0 /\ Cardinality(Flows) + 1 > limit) \/ ~work THEN "gone" ELSE "flow"
  <2>1. stage' = [stage EXCEPT ![w] = s] /\ s \in Stages
    BY <1>3 DEF Register, Stages
  <2>2. s = "flow" => limit = 0 \/ Cardinality(Flows) + 1 <= limit
    <3>1. Flows \in SUBSET Workers
      BY DEF Flows, In
    <3>2. Cardinality(Flows) \in Nat
      BY <3>1, SubsetsFinite
    <3>3. limit \in Nat
      BY RampAssumption DEF Inv, TypeOK
    <3> QED
      BY <3>2, <3>3
  <2> HIDE DEF s
  <2> QED
    BY <1>1, <2>1, <2>2, StartedMoves
<1> QED
  BY <1>2, <1>3

-----------------------------------------------------------------------------
(* The invariant, and what follows *)

\* The invariant holds at the start,
LEMMA InitInv == Init => Inv
<1> SUFFICES ASSUME Init PROVE Inv
  OBVIOUS
<1>1. floor \in 1 .. Parts /\ Parts \in Nat \ {0} /\ admitted = floor
  BY RampAssumption DEF Init
<1>2. \A w \in Workers : call[w] = NoCall /\ call[w].spawn = {} /\ call[w].keep = 0
  BY DEF Init, NoCall
<1>3. TypeOK
  <2>1. NoCall \in [spawn: SUBSET Workers, keep: 0 .. Parts]
    BY <1>1 DEF NoCall
  <2>2. call \in [Workers -> [spawn: SUBSET Workers, keep: 0 .. Parts]]
    BY <2>1 DEF Init
  <2>3. stage \in [Workers -> Stages]
    BY DEF Init, Stages
  <2>4. /\ unreadyWindows \in 0 .. rampMeasureWindows + 1
        /\ sampleCount \in 0 .. rampMeasureWindows - 1
    BY DEF Init, rampMeasureWindows
  <2>5. prevAdmitted \in 0 .. Parts /\ limit \in 0 .. Parts
    BY <1>1 DEF Init
  <2>6. {done, probed, warmed, settling, batchReady, settled, work} \subseteq BOOLEAN
    BY Zenon DEF Init
  <2> QED
    BY <1>1, <2>2, <2>3, <2>4, <2>5, <2>6 DEF Init, TypeOK
<1>4. OneEffect /\ NoIdTwice
  BY <1>2 DEF OneEffect, NoIdTwice
<1>5. Above
  <2> SUFFICES ASSUME NEW x \in Workers, x >= floor
               PROVE  stage[x] = "unborn" /\ \A v \in Workers : x \notin call[v].spawn
    BY <1>1 DEF Above
  <2>1. x \in Nat
    BY WorkersFinite
  <2>2. ~ (x < floor)
    BY <1>1, <2>1
  <2> QED
    BY <1>2, <2>2 DEF Init
<1>6. BatchBetween /\ ReadyHasContributed /\ UnreadyBounded
  BY <1>1 DEF Init, BatchBetween, ReadyHasContributed, UnreadyBounded, rampMeasureWindows
<1>7. LimitHolds
  BY DEF Init, LimitHolds
<1> QED
  BY <1>3, <1>4, <1>5, <1>6, <1>7 DEF Inv, NextBatchUnused, Excess

\* and at every step.
LEMMA StepInv == Inv /\ [Next]_vars => Inv'
<1> SUFFICES ASSUME Inv, [Next]_vars PROVE Inv'
  OBVIOUS
<1>1. ASSUME NEW w \in Workers,
             BurnIn(w) \/ Settle(w) \/ Probe(w) \/ Measure(w) \/ WorkerReady(w) \/ Throttled(w)
      PROVE  Inv'
  BY <1>1, BurnInStep, SettleStep, ProbeStep, MeasureStep, WorkerReadyStep, ThrottledStep
<1>2. ASSUME NEW w \in Workers,
             Spawn(w) \/ Demote(w) \/ Register(w) \/ Leave(w) \/ Drain(w)
      PROVE  Inv'
  BY <1>2, SpawnStep, DemoteStep, MoveStep
<1>3. CASE SettleMinPasses \/ RunShort \/ UNCHANGED vars
  BY <1>3, TimeStep
<1> QED
  BY <1>1, <1>2, <1>3 DEF Next, Stop

\* The invariant, for any number of parts and any starting floor.
THEOREM RampInvariant == Spec => []Inv
BY InitInv, StepInv, PTL DEF Spec

\* Every field keeps its type; in particular the counts never leave 1 .. Parts.
THEOREM RampTypes == Spec => []TypeOK
<1>1. Inv => TypeOK
  BY DEF Inv
<1> QED
  BY <1>1, RampInvariant, PTL

\* spawn starts no id twice, whatever 429s come between a batch's decision and
\* its last spawn.
THEOREM IdsAreFresh == Spec => []NoIdTwice
<1>1. Inv => NoIdTwice
  BY DEF Inv
<1> QED
  BY <1>1, RampInvariant, PTL

\* A batch is only measured once one of its own workers has delivered a byte.
THEOREM BatchIsJudgedByItsOwn == Spec => []JudgedAfterContribution
<1>1. Inv => JudgedAfterContribution
  BY DEF Inv, ReadyHasContributed, JudgedAfterContribution
<1> QED
  BY <1>1, RampInvariant, PTL

\* Once the demotions decided have run, no more flows run than are admitted.
THEOREM FlowsStayWithin == Spec => []FlowsWithinAdmitted
<1>1. Inv => FlowsWithinAdmitted
  <2> SUFFICES ASSUME Inv, \A w \in Workers : call[w] = NoCall
               PROVE  Cardinality(Flows) <= admitted
    BY DEF FlowsWithinAdmitted
  <2>0. Flows \in SUBSET Workers
    BY DEF Flows, In
  <2>1. Cardinality(Flows) \in Nat /\ admitted \in Nat /\ limit \in Nat
    BY <2>0, SubsetsFinite, RampAssumption DEF Inv, TypeOK
  <2>2. Above \/ (0 < limit /\ limit <= admitted)
    BY DEF Inv, Excess, NoCall
  <2>3. CASE Above
    <3>1. \A w \in Flows : w < admitted
      BY <2>0, <2>1, <2>3, WorkersFinite DEF Above, Flows, In
    <3> QED
      BY <2>0, <2>1, <3>1, FewBelow
  <2>4. CASE 0 < limit /\ limit <= admitted
    BY <2>1, <2>4 DEF Inv, LimitHolds
  <2> QED
    BY <2>2, <2>3, <2>4
<1> QED
  BY <1>1, RampInvariant, PTL

\* A demotion keeps fewer flows than are admitted and no fewer than the floor,
\* unless a pool at its floor is told to leave one: the verdict's, the unready
\* batch's and the 429's alike.
THEOREM DemotionIsMeasured == Spec => DemotionSheds
<1> DEFINE Sheds(w) == call[w] = NoCall /\ call'[w].keep > 0 =>
              /\ call'[w].keep < admitted
              /\ call'[w].keep >= floor \/ (admitted' = 1 /\ admitted <= floor)
<1>1. Inv /\ [Next]_vars => [\A w \in Workers : Sheds(w)]_vars
  <2> SUFFICES ASSUME Inv, Next, NEW w \in Workers,
                      call[w] = NoCall, call'[w].keep > 0
               PROVE  /\ call'[w].keep < admitted
                      /\ call'[w].keep >= floor \/ (admitted' = 1 /\ admitted <= floor)
    OBVIOUS
  <2>1. call[w].keep = 0 /\ call[w].spawn = {}
    BY DEF NoCall
  <2>2. ~ (0 > 0)
    OBVIOUS
  <2>3. ASSUME NEW v \in Workers, NEW c, Decide(v, c) PROVE v = w /\ call'[w] = c
    BY <2>1, <2>2, <2>3 DEF Decide, Inv, TypeOK
  <2>4. ASSUME UNCHANGED call PROVE FALSE
    BY <2>1, <2>2, <2>4
  <2>5. CASE \E v \in Workers : Settle(v)
    <3> PICK v \in Workers : Settle(v)
      BY <2>5
    <3>1. Decide(v, DemoteCall(prevAdmitted))
      BY <2>4 DEF Settle
    <3>2. call'[w].keep = prevAdmitted
      BY <2>3, <3>1 DEF DemoteCall
    <3> QED
      BY <3>2 DEF Settle, Window, Inv, BatchBetween
  <2>6. CASE \E v \in Workers : Measure(v)
    <3> PICK v \in Workers : Measure(v)
      BY <2>6
    <3>1. Verdict(v) /\ ~done /\ probed
      BY <2>4 DEF Measure, Window, Inv, BatchBetween
    <3>2. ASSUME Admit(v) PROVE FALSE
      <4>1. PICK ids : Decide(v, SpawnCall(ids))
        BY <3>2 DEF Admit
      <4> QED
        BY <2>2, <2>3, <4>1 DEF SpawnCall
    <3>3. Decide(v, DemoteCall(prevAdmitted))
      BY <2>4, <3>1, <3>2 DEF Verdict
    <3>4. call'[w].keep = prevAdmitted
      BY <2>3, <3>3 DEF DemoteCall
    <3> QED
      BY <3>1, <3>4 DEF Inv, BatchBetween
  <2>7. CASE \E v \in Workers : Throttled(v)
    <3> PICK v \in Workers : Throttled(v)
      BY <2>7
    <3>1. ~Stale(v) /\ admitted' = Keep /\ Decide(v, DemoteCall(Keep))
      BY <2>4 DEF Throttled
    <3>2. call'[w].keep = Keep
      BY <2>3, <3>1 DEF DemoteCall
    <3> QED
      BY <3>1, <3>2, KeepSheds
  <2>8. CASE \E v \in Workers : Probe(v)
    <3> PICK v \in Workers : Probe(v)
      BY <2>8
    <3>1. PICK ids : Decide(v, SpawnCall(ids))
      BY DEF Probe, Admit
    <3> QED
      BY <2>2, <2>3, <3>1 DEF SpawnCall
  <2>9. CASE \E v \in Workers : Spawn(v)
    <3> PICK v \in Workers : Spawn(v)
      BY <2>9
    <3>1. PICK ids : Decide(v, SpawnCall(ids))
      BY DEF Spawn
    <3> QED
      BY <2>2, <2>3, <3>1 DEF SpawnCall
  <2>10. CASE \E v \in Workers : Demote(v)
    <3> PICK v \in Workers : Demote(v)
      BY <2>10
    <3>1. Decide(v, NoCall)
      BY DEF Demote
    <3> QED
      BY <2>2, <2>3, <3>1 DEF NoCall
  <2>11. CASE \/ \E v \in Workers : BurnIn(v) \/ WorkerReady(v) \/ Register(v) \/ Leave(v) \/ Drain(v)
              \/ SettleMinPasses \/ RunShort \/ Stop
    BY <2>4, <2>11 DEF BurnIn, WorkerReady, Register, Leave, Drain, SettleMinPasses, RunShort,
                       Stop, vars
  <2> QED
    BY <2>5, <2>6, <2>7, <2>8, <2>9, <2>10, <2>11 DEF Next
<1> QED
  BY <1>1, RampInvariant, PTL DEF Spec, DemotionSheds

=============================================================================
