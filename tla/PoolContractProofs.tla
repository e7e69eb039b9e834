------------------------- MODULE PoolContractProofs -------------------------
(***************************************************************************)
(* What the pool promises its callers, for every value of the constants:   *)
(* it keeps to the flow limit, leaves no range without a worker, writes    *)
(* sidecars whose ranges tile, tells the Reporter an orderly story, and    *)
(* implements the ledger of bytes.                                         *)
(***************************************************************************)
EXTENDS PoolProofs

-----------------------------------------------------------------------------
(* Every step of the pool, as the scheduler sees it. *)

\* The workers' registrations stay as they are, or one worker deregisters.
Registered == UNCHANGED <<live, retiring>> \/ \E w \in Workers : Deregister(w)

\* The chunks stay as they are.
TableRests == UNCHANGED <<chunks, nextID, limit, shown>> /\ Registered

\* Worker w, at the loop head, is granted a chunk.
Grants(w) ==
    /\ pc[w] = "next" /\ phase = "run"
    /\ GrantPending(w) \/ GrantSplit(w)

\* Chunk i, claimed to its end and counted, leaves the table.
Leaves(i) ==
    /\ Left(chunks[i]) = 0 /\ chunks[i].written = chunks[i].done
    /\ chunks' = Without(i) /\ shown' = Closed(i) /\ UNCHANGED <<nextID, limit>>
    /\ Registered

\* The table, empty of active chunks, is filled from the ranges of U.
Fills(U, order) ==
    /\ Active = {}
    /\ IsFiniteSet(U) /\ U \subseteq RangeType
    /\ \A s \in U : s.off + s.done <= s.end /\ s.end <= Total
    /\ \A s, t \in U : s = t \/ s.end <= t.off \/ t.end <= s.off
    /\ order \in Bijection(0 .. Cardinality(U) - 1, U)
    /\ AddPending(order)

\* The memory of the process is gone.
Forgotten ==
    /\ chunks' = <<>> /\ shown' = <<>> /\ live' = {} /\ retiring' = {} /\ limit' = 0
    /\ runs' = runs + 1

\* The bytes are where they were: to be claimed, or claimed by the same worker.
StillBytes ==
    \/ TableRests
    \/ \E w \in Workers : Grants(w)
    \/ \E i \in Active : Leaves(i)
    \/ \E keep \in Nat \ {0} : Demote(keep)
    \/ PrepareSplit(MinParts)

TableSteps ==
    \/ StillBytes
    \/ \E i \in Active : \E n \in Nat : Claim(i, n)
    \/ \E i \in Active : Count(i)
    \/ \E U : \E order : Fills(U, order)
    \/ Forgotten

\* The ranges of a sidecar or of a fresh start fill the table.
LEMMA SeedsFill ==
  ASSUME IInv, Resume \/ StartOver
  PROVE  \E U : \E order : Fills(U, order)
<1>0. Active = {}
  BY DEF IInv, QuietStart, Resume, StartOver
<1>1. CASE Resume
  <2>1. PICK S \in side :
          /\ Loadable(S)
          /\ \E order \in Bijection(0 .. Cardinality(Unfinished(S)) - 1, Unfinished(S)) :
               AddPending(order)
    BY <1>1 DEF Resume
  <2> DEFINE U == Unfinished(S)
  <2>2. PICK order \in Bijection(0 .. Cardinality(U) - 1, U) : AddPending(order)
    BY <2>1
  <2>3. IsFiniteSet(S) /\ S \subseteq RangeType /\ \A s \in S : s.end <= Total
    BY DEF IInv, InsideFile, TypeOK
  <2>4. U \subseteq S /\ U \subseteq RangeType /\ IsFiniteSet(U)
    BY <2>3, FS_Subset DEF Unfinished
  <2>5. \A s \in U : s.off + s.done <= s.end /\ s.end <= Total
    BY <2>3 DEF Unfinished, RangeType
  <2>6. \A s, t \in U : s = t \/ s.end <= t.off \/ t.end <= s.off
    BY <2>1, <2>4 DEF Loadable
  <2> HIDE DEF U
  <2> QED
    BY <1>0, <2>2, <2>4, <2>5, <2>6 DEF Fills
<1>2. CASE StartOver
  <2> DEFINE r == [off |-> 0, end |-> Total, done |-> 0]
             U == {r}
             order == [i \in {0} |-> r]
  <2>1. IsFiniteSet(U) /\ 0 .. Cardinality(U) - 1 = {0}
    <3>1. IsFiniteSet(U) /\ Cardinality(U) = 1
      BY FS_Singleton
    <3> QED
      BY <3>1
  <2>2. order \in Bijection({0}, U)
    <3>1. order \in [{0} -> U] /\ order[0] = r
      OBVIOUS
    <3> HIDE DEF order, r
    <3> QED
      BY <3>1 DEF Bijection, Injection, Surjection, IsInjective
  <2>3. U \subseteq RangeType /\ \A s \in U : s.off + s.done <= s.end /\ s.end <= Total
    BY TotalAssumption DEF RangeType
  <2>4. \A s, t \in U : s = t
    OBVIOUS
  <2>5. AddPending(order)
    BY <1>2 DEF StartOver
  <2> HIDE DEF U, order
  <2> QED
    BY <1>0, <2>1, <2>2, <2>3, <2>4, <2>5 DEF Fills
<1> QED
  BY <1>1, <1>2

\* A worker's own step does at most one thing to the scheduler, and only a
\* read or a count moves bytes.
LEMMA WorkerTableStep ==
  ASSUME IInv, NEW w \in Workers, WorkerStep(w)
  PROVE  StillBytes \/ CountBytes(w) \/ \E n \in 1 .. BufMax : Read(w, n)
<1> USE DEF schedVars
<1>1. CASE \/ Fetch(w) \/ WriteAt(w) \/ WriteFails(w) \/ Charge(w) \/ WaitOutThrottle(w)
           \/ WakeUp(w) \/ Abort(w) \/ Permanent(w) \/ Escape(w) \/ Fail(w) \/ Wake(w)
  <2>1. UNCHANGED schedVars
    BY <1>1 DEF Fetch, WriteAt, WriteFails, Charge, WaitOutThrottle, WakeUp, Abort,
       Permanent, Escape, Fail, Wake
  <2> QED
    BY <2>1 DEF StillBytes, TableRests, Registered
<1>2. CASE CheckCtx(w) \/ AbsorbNoise(w)
  <2>1. TableRests
    BY <1>2 DEF CheckCtx, AbsorbNoise, TableRests, Registered
  <2> QED
    BY <2>1 DEF StillBytes
<1>3. CASE CallNext(w)
  <2>1. CASE TurnAway(w)
    <3>1. TableRests
      BY <2>1 DEF TurnAway, TableRests, Registered
    <3> QED
      BY <3>1 DEF StillBytes
  <2>2. CASE GrantPending(w) \/ GrantSplit(w)
    <3>1. Grants(w)
      BY <1>3, <2>2 DEF CallNext, At, Grants
    <3> QED
      BY <3>1 DEF StillBytes
  <2> QED
    BY <1>3, <2>1, <2>2 DEF CallNext
<1>4. CASE Finish(w)
  <2>1. PICK i \in Active : Holds(w, i) /\ Complete(i)
    BY <1>4 DEF Finish
  <2>2. pc[chunks[i].owner] = "finish"
    BY <1>4, <2>1 DEF Finish, At, Holds
  <2>3. Left(chunks[i]) = 0
    BY <2>2 DEF IInv, FinishedIsFull
  <2>4. chunks[i].written = chunks[i].done
    BY <2>2 DEF IInv, UnsettledIsHeld, Unsettled, Active
  <2>5. Leaves(i)
    BY <2>1, <2>3, <2>4 DEF Leaves, Complete, Registered
  <2> QED
    BY <2>5 DEF StillBytes
<1>5. CASE Unwind(w)
  <2>0. Deregister(w) /\ UNCHANGED <<nextID, limit>>
    BY <1>5 DEF Unwind
  <2>1. CASE UNCHANGED <<chunks, shown>>
    <3>1. TableRests
      BY <2>0, <2>1 DEF TableRests, Registered
    <3> QED
      BY <3>1 DEF StillBytes
  <2>2. CASE ~ UNCHANGED <<chunks, shown>>
    <3>1. w \in woken /\ pc[w] # "perm" /\ pc[w] \in {"spent", "noise"}
      BY <1>5, <2>2 DEF Unwind, At
    <3>2. PICK i \in Active : /\ Holds(w, i)
                              /\ chunks' = Without(i) /\ shown' = Closed(i)
      BY <1>5, <2>2, <3>1 DEF Unwind, CatchRetired
    <3>3. w \in retiring
      BY <3>1 DEF IInv, WokenIsRetiring, Out
    <3>4. Left(chunks[i]) = 0
      BY <3>2, <3>3 DEF IInv, RetiringIsDrained, Holds
    <3>5. chunks[i].written = chunks[i].done
      BY <3>1, <3>2 DEF IInv, UnsettledIsHeld, Unsettled, Active, Holds
    <3>6. Leaves(i)
      BY <2>0, <3>2, <3>4, <3>5 DEF Leaves, Registered
    <3> QED
      BY <3>6 DEF StillBytes
  <2> QED
    BY <2>1, <2>2
<1> QED
  BY <1>1, <1>2, <1>3, <1>4, <1>5 DEF WorkerStep

\* So does every step of the pool.
LEMMA EveryTableStep == IInv /\ [Next]_vars => TableSteps
<1> SUFFICES ASSUME IInv, [Next]_vars PROVE TableSteps
  OBVIOUS
<1> USE DEF schedVars
<1>1. ASSUME NEW w \in Workers, WorkerStep(w) PROVE TableSteps
  <2>1. CASE StillBytes
    BY <2>1 DEF TableSteps
  <2>2. CASE CountBytes(w)
    BY <2>2 DEF CountBytes, TableSteps
  <2>3. CASE \E n \in 1 .. BufMax : Read(w, n)
    <3>1. PICK n \in 1 .. BufMax : Read(w, n)
      BY <2>3
    <3>2. n \in Nat /\ \E i \in Active : Claim(i, n)
      BY <3>1 DEF Read
    <3> QED
      BY <3>2 DEF TableSteps
  <2> QED
    BY <1>1, <2>1, <2>2, <2>3, WorkerTableStep
<1>2. CASE \/ \E g, w \in Workers : Spawn(g, w)
           \/ ParentCancel \/ FlushTick \/ FlushSave
           \/ Invalidate \/ Launch \/ Join \/ SaveOnError \/ Stop \/ UNCHANGED vars
  <2>1. UNCHANGED schedVars
    BY <1>2 DEF Spawn, ParentCancel, FlushTick, FlushSave, Invalidate, Launch, Join,
       SaveOnError, Stop, vars
  <2> QED
    BY <2>1 DEF TableSteps, StillBytes, TableRests, Registered
<1>3. CASE \E g \in Workers, keep \in 1 .. Parts - 1 : Retire(g, keep)
  <2>1. PICK g \in Workers, keep \in 1 .. Parts - 1 : Retire(g, keep)
    BY <1>3
  <2>2. keep \in Nat \ {0}
    BY PartsAssumption
  <2>3. Demote(keep)
    BY <2>1 DEF Retire
  <2> QED
    BY <2>2, <2>3 DEF TableSteps, StillBytes
<1>4. CASE Resume \/ StartOver
  BY <1>4, SeedsFill DEF TableSteps
<1>5. CASE Prepare
  BY <1>5 DEF Prepare, TableSteps, StillBytes
<1>6. CASE Rerun \/ Crash
  <2>1. Forgotten
    BY <1>6 DEF Rerun, Crash, Forget, Forgotten
  <2> QED
    BY <2>1 DEF TableSteps
<1> QED
  BY <1>1, <1>2, <1>3, <1>4, <1>5, <1>6 DEF Next, MainStep

-----------------------------------------------------------------------------
(* The flow limit *)

\* A set of naturals has a least element.
LEMMA MinIn ==
  ASSUME NEW S \in SUBSET Nat, S # {}
  PROVE  Min(S) \in S /\ \A y \in S : Min(S) <= y
<1>1. \A x, y \in Nat : x < y => <<x, y>> \in OpToRel(<, Nat)
  BY Zenon DEF OpToRel
<1>2. S \subseteq Nat
  OBVIOUS
<1>3. \E m \in S : \A y \in S : ~ (<<y, m>> \in OpToRel(<, Nat))
  BY <1>2, NatLessThanWellFounded, WFMin, Zenon
<1>4. PICK m \in S : \A y \in S : ~ (y < m)
  BY <1>1, <1>2, <1>3, Zenon
<1>5. \A y \in S : m <= y
  BY <1>2, <1>4
<1> QED
  BY <1>5 DEF Min

\* The worker ids are finitely many numbers, and so are those of any of them.
LEMMA WorkersFinite ==
  /\ Parts \in Nat \ {0} /\ IsFiniteSet(Workers)
  /\ \A w \in Workers : w \in Nat /\ w < Parts
BY PartsAssumption, FS_Interval DEF Workers

\* A set of worker ids has as many elements as any smaller one, or more.
LEMMA SubsetsFinite ==
  ASSUME NEW T \in SUBSET Workers, NEW S \in SUBSET T
  PROVE  /\ IsFiniteSet(S) /\ Cardinality(S) \in Nat
         /\ IsFiniteSet(T) /\ Cardinality(T) \in Nat
         /\ Cardinality(S) <= Cardinality(T)
<1>1. IsFiniteSet(T)
  BY WorkersFinite, FS_Subset
<1>2. IsFiniteSet(S) /\ Cardinality(S) <= Cardinality(T)
  BY <1>1, FS_Subset
<1> QED
  BY <1>1, <1>2, FS_CardinalityType

\* A nonempty set of worker ids has a least and a greatest one.
LEMMA ExtremeIds ==
  ASSUME NEW S \in SUBSET Workers, S # {}
  PROVE  /\ \E m \in S : \A s \in S : m <= s
         /\ \E m \in S : \A s \in S : s <= m
<1> DEFINE T == {Parts - s : s \in S}
<1>1. S \in SUBSET Nat /\ T \in SUBSET Nat /\ T # {}
  BY WorkersFinite
<1>2. \E m \in S : \A s \in S : m <= s
  BY <1>1, MinIn
<1> HIDE DEF T
<1>3. Min(T) \in T /\ \A t \in T : Min(T) <= t
  BY <1>1, MinIn
<1>4. PICK m \in S : Min(T) = Parts - m
  BY <1>3 DEF T
<1>5. \A s \in S : Parts - m <= Parts - s
  BY <1>3, <1>4 DEF T
<1>6. \A s \in S : s <= m
  BY <1>5, WorkersFinite
<1> QED
  BY <1>2, <1>6

\* demote leaves no more flows than it is to keep: above the highest survivor
\* are all but that many, and none of them survives.
LEMMA SurvivorsFew ==
  ASSUME WorkersOK, NEW keep \in Nat
  PROVE  Cardinality(NonRetiring \ Victims(keep)) <= keep
<1> DEFINE N == NonRetiring
           above(w) == {v \in N : v > w}
           S == N \ Victims(keep)
<1>1. N \in SUBSET Workers /\ S \in SUBSET N /\ S \in SUBSET Workers
  BY DEF WorkersOK, NonRetiring
<1>2. \A w \in S : ~ (Cardinality(above(w)) < Cardinality(N) - keep)
  BY DEF Victims
<1>3. CASE S = {}
  <2>1. Cardinality({}) = 0
    BY FS_EmptySet
  <2> HIDE DEF S
  <2> QED
    BY <1>3, <2>1 DEF S
<1>4. CASE S # {}
  <2> HIDE DEF S, N
  <2>1. PICK m \in S : \A s \in S : s <= m
    BY <1>1, <1>4, ExtremeIds
  <2> DEFINE A == above(m)
  <2>2. A \in SUBSET N /\ \A a \in A : a > m
    OBVIOUS
  <2>3. ~ (Cardinality(A) < Cardinality(N) - keep)
    BY <1>2, <2>1
  <2> HIDE DEF A
  <2>4. S \in SUBSET (N \ A)
    <3>1. \A s \in S : s \in Nat /\ s <= m /\ m \in Nat
      BY <1>1, <2>1, WorkersFinite
    <3>2. \A s \in S : s \notin A
      BY <2>2, <3>1
    <3> QED
      BY <1>1, <3>2
  <2>5. IsFiniteSet(N) /\ Cardinality(N) \in Nat /\ Cardinality(A) \in Nat
    BY <1>1, <2>2, SubsetsFinite
  <2>6. Cardinality(N \ A) = Cardinality(N) - Cardinality(N \cap A)
    BY <2>5, FS_Difference
  <2>7. N \cap A = A
    BY <2>2
  <2>8. N \ A \in SUBSET Workers
    BY <1>1
  <2>9. Cardinality(S) <= Cardinality(N \ A) /\ Cardinality(S) \in Nat
    BY <2>4, <2>8, SubsetsFinite
  <2>10. Cardinality(S) <= keep
    BY <2>3, <2>5, <2>6, <2>7, <2>9
  <2> QED
    BY <2>10 DEF S, N
<1> QED
  BY <1>3, <1>4

\* demote spares the lowest id.
LEMMA LowestSurvives ==
  ASSUME WorkersOK, NEW keep \in Nat \ {0}, NonRetiring # {}
  PROVE  \E w \in NonRetiring : w \notin Victims(keep)
<1> DEFINE N == NonRetiring
<1>1. N \in SUBSET Workers /\ N # {}
  BY DEF WorkersOK, NonRetiring
<1> HIDE DEF N
<1>2. PICK m \in N : \A s \in N : m <= s
  BY <1>1, ExtremeIds
<1> DEFINE A == {v \in N : v > m}
<1>3. A = N \ {m}
  <2>1. \A v \in N : v \in Nat /\ m \in Nat /\ m <= v
    BY <1>1, <1>2, WorkersFinite
  <2>2. \A v \in N : v > m <=> v # m
    BY <2>1
  <2> QED
    BY <2>2
<1>4. IsFiniteSet(N) /\ Cardinality(N) \in Nat
  BY <1>1, SubsetsFinite
<1>5. Cardinality(N \ {m}) = Cardinality(N) - 1
  BY <1>2, <1>4, FS_RemoveElement
<1>6. Cardinality(A) = Cardinality(N) - 1
  BY <1>3, <1>5
<1> HIDE DEF A
<1>7. ~ (Cardinality(A) < Cardinality(N) - keep)
  BY <1>4, <1>6
<1>8. m \notin Victims(keep)
  BY <1>7 DEF Victims, A, N
<1> QED
  BY <1>2, <1>8 DEF N

\* Grants count the newcomer, departures only make room, and demote cuts down
\* to the limit it sets or the lower one it finds.
LEMMA LimitStep ==
  ASSUME IInv, FlowLimit, TableSteps
  PROVE  FlowLimit'
<1>0. WorkersOK /\ limit \in Nat /\ NonRetiring \in SUBSET Workers
  BY DEF IInv, TypeOK, SchedulerTypeOK, WorkersOK, NonRetiring
<1>1. ASSUME limit' = limit, NonRetiring' \in SUBSET NonRetiring PROVE FlowLimit'
  <2>1. Cardinality(NonRetiring') <= Cardinality(NonRetiring)
        /\ Cardinality(NonRetiring') \in Nat /\ Cardinality(NonRetiring) \in Nat
    BY <1>0, <1>1, SubsetsFinite
  <2> QED
    BY <1>0, <1>1, <2>1 DEF FlowLimit
<1>2. ASSUME Registered, limit' = limit PROVE FlowLimit'
  <2>1. NonRetiring' \in SUBSET NonRetiring
    BY <1>2 DEF Registered, Deregister, NonRetiring
  <2> QED
    BY <1>1, <1>2, <2>1
<1>3. CASE TableRests \/ \E i \in Active : Leaves(i)
  BY <1>2, <1>3 DEF TableRests, Leaves
<1>4. CASE \/ \E i \in Active : \E n \in Nat : Claim(i, n)
           \/ \E i \in Active : Count(i)
           \/ PrepareSplit(MinParts)
  BY <1>2, <1>4 DEF Claim, Count, PrepareSplit, Registered
<1>5. CASE \E w \in Workers : Grants(w)
  <2>1. PICK w \in Workers : Grants(w)
    BY <1>5
  <2>2. ~MustLeave(w) /\ Register(w) /\ limit' = limit
    BY <2>1 DEF Grants, GrantPending, GrantSplit
  <2>3. NonRetiring' = (live \cup {w}) \ retiring
    BY <2>2 DEF Register, NonRetiring
  <2>4. NonRetiring' \in SUBSET Workers
    BY <1>0, <2>3 DEF WorkersOK
  <2>5. Cardinality(NonRetiring') \in Nat
    BY <2>4, SubsetsFinite
  <2>6. limit > 0 => ~ (Cardinality(NonRetiring') > limit)
    BY <2>2, <2>3 DEF MustLeave
  <2> QED
    BY <1>0, <2>2, <2>5, <2>6 DEF FlowLimit
<1>6. CASE \E keep \in Nat \ {0} : Demote(keep)
  <2>1. PICK keep \in Nat \ {0} : Demote(keep)
    BY <1>6
  <2>2. NonRetiring' = NonRetiring \ Victims(keep)
    BY <2>1 DEF Demote, NonRetiring
  <2>3. Cardinality(NonRetiring') <= keep
    BY <1>0, <2>2, SurvivorsFew
  <2>4. Cardinality(NonRetiring') <= Cardinality(NonRetiring)
        /\ Cardinality(NonRetiring') \in Nat /\ Cardinality(NonRetiring) \in Nat
    BY <1>0, <2>2, SubsetsFinite
  <2>5. limit' = IF limit = 0 \/ keep < limit THEN keep ELSE limit
    BY <2>1 DEF Demote
  <2>6. CASE limit = 0 \/ keep < limit
    BY <2>3, <2>4, <2>5, <2>6 DEF FlowLimit
  <2>7. CASE ~ (limit = 0 \/ keep < limit)
    BY <1>0, <2>4, <2>5, <2>7 DEF FlowLimit
  <2> QED
    BY <2>6, <2>7
<1>7. CASE (\E U : \E order : Fills(U, order)) \/ Forgotten
  BY <1>7 DEF Fills, AddPending, Forgotten, FlowLimit
<1> QED
  BY <1>3, <1>4, <1>5, <1>6, <1>7 DEF TableSteps, StillBytes

-----------------------------------------------------------------------------
(* The ranges tile *)

\* c and d, ranges of the table, share no byte.
Apart(c, d) == c.end <= d.off \/ d.end <= c.off

\* c lies inside d.
Inside(c, d) == d.off <= c.off /\ c.end <= d.end

\* What lies inside ranges that are apart is apart.
LEMMA InsideApart ==
  ASSUME NEW a, NEW b, NEW c, NEW d, ChunkOK(a), ChunkOK(b), ChunkOK(c), ChunkOK(d),
         Inside(a, c), Inside(b, d), Apart(c, d)
  PROVE  Apart(a, b)
BY DEF ChunkOK, ChunkType, Inside, Apart

\* A split keeps the chunks apart: the two halves lie inside the chunk that
\* was split, one behind the other.
LEMMA HalvedApart ==
  ASSUME TableOK, ChunksApart, NEW i \in Ids, NEW w \in Workers \cup {NoOne},
         chunks' = Halved(i, w)
  PROVE  ChunksApart'
<1> DEFINE h == Halved(i, w)
           m == Mid(chunks[i])
           origin(j) == IF j = nextID THEN i ELSE j
<1>1. /\ DOMAIN h = Ids \cup {nextID} /\ nextID \notin Ids
      /\ h[nextID] = NewChunk(m, chunks[i].end, 0, w)
      /\ h[i] = [chunks[i] EXCEPT !.end = m]
      /\ \A j \in Ids \ {i} : h[j] = chunks[j]
      /\ \A j \in DOMAIN h : ChunkOK(h[j])
  BY HalvedTable
<1>2. /\ ChunkOK(chunks[i]) /\ m \in Nat /\ m <= chunks[i].end
      /\ chunks[i].off <= m /\ chunks[i].off \in Nat /\ chunks[i].end \in Nat
  BY MidBounds DEF TableOK, ChunkOK, ChunkType, Cursor
<1> HIDE DEF h, m
<1>3. /\ h[nextID].off = m /\ h[nextID].end = chunks[i].end
      /\ h[i].off = chunks[i].off /\ h[i].end = m
  BY <1>1, <1>2 DEF NewChunk, ChunkOK, ChunkType
<1>4. ASSUME NEW j \in DOMAIN h
      PROVE  /\ origin(j) \in Ids /\ ChunkOK(chunks[origin(j)]) /\ ChunkOK(h[j])
             /\ Inside(h[j], chunks[origin(j)])
  BY <1>1, <1>2, <1>3 DEF Inside, TableOK, ChunkOK, ChunkType
<1>5. ASSUME NEW j \in DOMAIN h, NEW k \in DOMAIN h, j # k PROVE Apart(h[j], h[k])
  <2>1. CASE origin(j) # origin(k)
    <3>1. Apart(chunks[origin(j)], chunks[origin(k)])
      BY <1>4, <2>1 DEF ChunksApart, Apart
    <3> HIDE DEF origin
    <3> QED
      BY <1>4, <3>1, InsideApart
  <2>2. CASE origin(j) = origin(k)
    <3>1. \/ j = nextID /\ k = i
          \/ k = nextID /\ j = i
      BY <1>1, <1>5, <2>2
    <3> QED
      BY <1>2, <1>3, <3>1 DEF Apart
  <2> QED
    BY <2>1, <2>2
<1> QED
  BY <1>5 DEF ChunksApart, Apart, Ids, h

\* So does demote: a chunk and the remainder it surrenders lie one behind
\* the other, and each remainder is surrendered once.
LEMMA DemotedApart ==
  ASSUME SchedulerTypeOK, ChunksApart, NEW keep \in Nat, Demote(keep)
  PROVE  ChunksApart'
<1> DEFINE T == Surrendered(keep)
           N == FreshIds(Cardinality(T))
<1>1. T \in SUBSET Ids /\ Cardinality(T) \in Nat
  BY FiniteIds DEF Surrendered, Active, SchedulerTypeOK
<1>2. PICK from \in Bijection(N, T) : chunks' = Moved(from)
  BY DEF Demote
<1>3. N \cap Ids = {}
  BY <1>1, FreshIdsAreFresh DEF SchedulerTypeOK
<1> HIDE DEF T, N
<1>4. MovedAsSaid(N, T, from)
  BY <1>1, <1>2, <1>3, MovedTable DEF SchedulerTypeOK
<1>5. \A j, k \in N : from[j] = from[k] => j = k
  BY DEF Bijection, Injection, IsInjective
<1> DEFINE m == Moved(from)
           origin(j) == IF j \in N THEN from[j] ELSE j
<1>6. DOMAIN m = Ids \cup N /\ \A j \in DOMAIN m : ChunkOK(m[j])
  BY <1>4 DEF MovedAsSaid
<1>7. ASSUME NEW j \in N
      PROVE  /\ from[j] \in T /\ from[j] \in Ids
             /\ m[j].off = Cursor(chunks[from[j]]) /\ m[j].end = chunks[from[j]].end
  BY <1>1, <1>4 DEF MovedAsSaid, NewChunk
<1>8. ASSUME NEW j \in T
      PROVE  m[j].off = chunks[j].off /\ m[j].end = Cursor(chunks[j])
  <2>1. m[j] = [chunks[j] EXCEPT !.end = Cursor(chunks[j])]
    BY <1>4 DEF MovedAsSaid
  <2>2. ChunkOK(chunks[j])
    BY <1>1 DEF SchedulerTypeOK, TableOK
  <2> QED
    BY <2>1, <2>2 DEF ChunkOK, ChunkType
<1>9. \A j \in Ids \ T : m[j] = chunks[j]
  BY <1>4 DEF MovedAsSaid
<1>10. \A j \in Ids : /\ ChunkOK(chunks[j]) /\ Cursor(chunks[j]) \in Nat
                      /\ chunks[j].off <= Cursor(chunks[j])
                      /\ Cursor(chunks[j]) <= chunks[j].end
                      /\ chunks[j].off \in Nat /\ chunks[j].end \in Nat
  BY DEF SchedulerTypeOK, TableOK, ChunkOK, ChunkType, Cursor
<1> HIDE DEF m
<1>11. ASSUME NEW j \in DOMAIN m
       PROVE  /\ origin(j) \in Ids /\ ChunkOK(chunks[origin(j)]) /\ ChunkOK(m[j])
              /\ Inside(m[j], chunks[origin(j)])
  <2>1. CASE j \in N
    BY <1>6, <1>7, <1>10, <2>1 DEF Inside
  <2>2. CASE j \in T
    BY <1>1, <1>3, <1>6, <1>8, <1>10, <2>2 DEF Inside
  <2>3. CASE j \in Ids \ T
    BY <1>3, <1>6, <1>9, <1>10, <2>3 DEF Inside
  <2> QED
    BY <1>6, <2>1, <2>2, <2>3
<1>12. ASSUME NEW j \in DOMAIN m, NEW k \in DOMAIN m, j # k PROVE Apart(m[j], m[k])
  <2>1. CASE origin(j) # origin(k)
    <3>1. Apart(chunks[origin(j)], chunks[origin(k)])
      BY <1>11, <2>1 DEF ChunksApart, Apart
    <3> HIDE DEF origin
    <3> QED
      BY <1>11, <3>1, InsideApart
  <2>2. CASE origin(j) = origin(k)
    <3>1. \/ j \in N /\ k \in T /\ from[j] = k
          \/ k \in N /\ j \in T /\ from[k] = j
      BY <1>5, <1>7, <1>12, <2>2
    <3> QED
      BY <1>1, <1>7, <1>8, <1>10, <3>1 DEF Apart
  <2> QED
    BY <2>1, <2>2
<1> QED
  BY <1>2, <1>12 DEF ChunksApart, Apart, Ids, m

\* No step makes two chunks share a byte.
LEMMA ApartStep ==
  ASSUME IInv, ChunksApart, TableSteps
  PROVE  ChunksApart'
<1>0. SchedulerTypeOK /\ TableOK
  BY DEF IInv, TypeOK, SchedulerTypeOK
<1>1. ASSUME /\ Ids' \subseteq Ids
             /\ \A j \in Ids' : /\ chunks'[j].off = chunks[j].off
                                /\ chunks'[j].end = chunks[j].end
      PROVE  ChunksApart'
  BY <1>1 DEF ChunksApart
<1>2. CASE TableRests
  BY <1>1, <1>2 DEF TableRests, Ids
<1>3. CASE \E w \in Workers : Grants(w)
  <2>1. PICK w \in Workers : Grants(w)
    BY <1>3
  <2>2. CASE GrantPending(w)
    <3>1. PICK i \in Pending : chunks' = [chunks EXCEPT ![i].owner = w]
      BY <2>2 DEF GrantPending
    <3>2. i \in Ids /\ ChunkOK(chunks[i])
      BY <1>0 DEF Pending, TableOK
    <3>3. Ids' = Ids /\ \A j \in Ids \ {i} : chunks'[j] = chunks[j]
      BY <1>0, <3>1 DEF TableOK, Ids
    <3>4. chunks'[i].off = chunks[i].off /\ chunks'[i].end = chunks[i].end
      BY <1>0, <3>1, <3>2 DEF TableOK, ChunkOK, ChunkType, Ids
    <3> QED
      BY <1>1, <3>3, <3>4
  <2>3. CASE GrantSplit(w)
    <3>1. PICK i \in Ids : chunks' = Halved(i, w)
      BY <2>3 DEF GrantSplit, Largest, Active
    <3> QED
      BY <1>0, <3>1, HalvedApart
  <2> QED
    BY <2>1, <2>2, <2>3 DEF Grants
<1>4. CASE \E i \in Active : \E n \in Nat : Claim(i, n)
  <2>1. PICK i \in Active, n \in Nat : Claim(i, n)
    BY <1>4
  <2>2. i \in Ids /\ ChunkOK(chunks[i])
    BY <1>0 DEF Active, TableOK
  <2>3. Ids' = Ids /\ \A j \in Ids \ {i} : chunks'[j] = chunks[j]
    BY <1>0, <2>1 DEF TableOK, Ids, Claim
  <2>4. chunks'[i].off = chunks[i].off /\ chunks'[i].end = chunks[i].end
    BY <1>0, <2>1, <2>2 DEF TableOK, ChunkOK, ChunkType, Ids, Claim
  <2> QED
    BY <1>1, <2>3, <2>4
<1>5. CASE \E i \in Active : Count(i)
  <2>1. PICK i \in Active : Count(i)
    BY <1>5
  <2>2. i \in Ids /\ ChunkOK(chunks[i])
    BY <1>0 DEF Active, TableOK
  <2>3. Ids' = Ids /\ \A j \in Ids \ {i} : chunks'[j] = chunks[j]
    BY <1>0, <2>1 DEF TableOK, Ids, Count
  <2>4. chunks'[i].off = chunks[i].off /\ chunks'[i].end = chunks[i].end
    BY <1>0, <2>1, <2>2 DEF TableOK, ChunkOK, ChunkType, Ids, Count
  <2> QED
    BY <1>1, <2>3, <2>4
<1>6. CASE \E i \in Active : Leaves(i)
  BY <1>1, <1>6 DEF Leaves, Without, Restrict, Ids
<1>7. CASE \E keep \in Nat \ {0} : Demote(keep)
  BY <1>0, <1>7, DemotedApart
<1>8. CASE PrepareSplit(MinParts)
  <2>1. PICK i \in Ids : chunks' = Halved(i, NoOne)
    BY <1>8 DEF PrepareSplit, Largest, Pending
  <2> QED
    BY <1>0, <2>1, HalvedApart
<1>9. CASE \E U : \E order : Fills(U, order)
  <2>1. PICK U, order : Fills(U, order)
    BY <1>9
  <2>2. /\ Ids' = DOMAIN order
        /\ \A j \in Ids' : /\ chunks'[j].off = order[j].off
                           /\ chunks'[j].end = order[j].end
    BY <2>1 DEF Fills, AddPending, Seeded, Ids, NewChunk
  <2>3. \A j \in Ids' : order[j] \in U
    BY <2>1, <2>2 DEF Fills, Bijection, Injection, Surjection
  <2>4. \A j, k \in Ids' : order[j] = order[k] => j = k
    BY <2>1, <2>2 DEF Fills, Bijection, Injection, IsInjective
  <2> QED
    BY <2>1, <2>2, <2>3, <2>4 DEF Fills, ChunksApart
<1>10. CASE Forgotten
  BY <1>10 DEF Forgotten, ChunksApart, Ids
<1> QED
  BY <1>2, <1>3, <1>4, <1>5, <1>6, <1>7, <1>8, <1>9, <1>10 DEF TableSteps, StillBytes

\* The nonempty ranges of a snapshot tile.
LEMMA SnapshotTiles ==
  ASSUME IInv, ChunksApart
  PROVE  Loadable({s \in Snapshot : s.off < s.end})
<1> DEFINE S == {s \in Snapshot : s.off < s.end}
           r(i) == [off |-> chunks[i].off, end |-> chunks[i].end, done |-> Written(chunks[i])]
<1>1. \A s \in S : s.off < s.end /\ \E i \in Ids : s = r(i)
  BY DEF Snapshot
<1>2. ASSUME NEW i \in Ids
      PROVE  /\ r(i).off = chunks[i].off /\ r(i).end = chunks[i].end
             /\ r(i).done <= r(i).end - r(i).off
  <2>1. ChunkOK(chunks[i])
    BY DEF IInv, TypeOK, SchedulerTypeOK, TableOK
  <2> QED
    BY <2>1 DEF ChunkOK, ChunkType, Cursor, Written
<1> HIDE DEF r, S
<1>3. \A s \in S : s.off < s.end /\ s.done <= s.end - s.off
  BY <1>1, <1>2
<1>4. ASSUME NEW s \in S, NEW t \in S PROVE s = t \/ s.end <= t.off \/ t.end <= s.off
  <2>1. PICK i \in Ids : s = r(i)
    BY <1>1
  <2>2. PICK j \in Ids : t = r(j)
    BY <1>1
  <2>3. CASE i = j
    BY <2>1, <2>2, <2>3
  <2>4. CASE i # j
    BY <1>2, <2>1, <2>2, <2>4 DEF ChunksApart
  <2> QED
    BY <2>3, <2>4
<1> QED
  BY <1>3, <1>4 DEF Loadable, S

\* A sidecar, or what is about to be one, was there before or is a snapshot.
LEMMA SidecarSource ==
  ASSUME IInv, [Next]_vars
  PROVE  \A S \in side' \cup snap' : S \in side \cup snap \/ S = Snapshot
<1> USE DEF fileVars, flushVars
<1>1. CASE \E w \in Workers : WorkerStep(w)
  <2>1. PICK w \in Workers : WorkerStep(w)
    BY <1>1
  <2>2. UNCHANGED <<side, snap>>
    BY <2>1 DEF WorkerStep, CheckCtx, CallNext, Fetch, WriteAt, WriteFails, CountBytes,
       Finish, Charge, WaitOutThrottle, WakeUp, Abort, Permanent, Escape, Unwind,
       AbsorbNoise, Fail, Wake, Read
  <2> QED
    BY <2>2
<1>2. CASE \/ \E g, w \in Workers : Spawn(g, w)
           \/ \E g \in Workers, keep \in 1 .. Parts - 1 : Retire(g, keep)
           \/ ParentCancel \/ Stop \/ UNCHANGED vars
           \/ Resume \/ StartOver \/ Prepare \/ Launch \/ Join
  <2>1. UNCHANGED <<side, snap>>
    BY <1>2 DEF Spawn, Retire, ParentCancel, Stop, Resume, StartOver, Prepare, Launch,
       Join, vars
  <2> QED
    BY <2>1
<1>3. CASE FlushTick \/ FlushSave \/ Invalidate \/ SaveOnError
  BY <1>3 DEF FlushTick, FlushSave, Invalidate, SaveOnError
<1>4. CASE Rerun \/ Crash
  BY <1>4 DEF Rerun, Crash, Forget
<1> QED
  BY <1>1, <1>2, <1>3, <1>4 DEF Next, MainStep

\* So every sidecar tiles, empty ranges apart.
LEMMA TilesStep ==
  ASSUME IInv, ChunksApart, SidecarTiles, [Next]_vars
  PROVE  SidecarTiles'
<1> SUFFICES ASSUME NEW S \in side' \cup snap' PROVE Loadable({s \in S : s.off < s.end})
  BY DEF SidecarTiles, Loadable
<1>1. CASE S \in side \cup snap
  BY <1>1 DEF SidecarTiles
<1>2. CASE S = Snapshot
  BY <1>2, SnapshotTiles
<1> QED
  BY <1>1, <1>2, SidecarSource

-----------------------------------------------------------------------------
(* What the Reporter is told *)

\* An active chunk shrinks and fills up, leaves when it is full, and comes
\* from the pending ones or is new.
Orderly ==
    \A i \in Active \cup Active' :
        /\ i \notin Active' => chunks[i].written = chunks[i].end - chunks[i].off
        /\ i \notin Active => i \in Pending \/ i >= nextID
        /\ i \in Active /\ i \in Active' =>
             /\ chunks'[i].off = chunks[i].off /\ chunks'[i].end <= chunks[i].end
             /\ chunks[i].written <= chunks'[i].written

\* A chunk of the table, whichever it is.
LEMMA ChunksAreOK ==
  ASSUME TableOK
  PROVE  \A i \in Ids :
           /\ ChunkOK(chunks[i]) /\ chunks[i].off \in Nat /\ chunks[i].end \in Nat
           /\ chunks[i].done \in Nat /\ chunks[i].written \in Nat
           /\ chunks[i].owner \in Workers \cup {NoOne}
           /\ chunks[i].written <= chunks[i].done
           /\ Cursor(chunks[i]) \in Nat /\ chunks[i].off <= Cursor(chunks[i])
           /\ Cursor(chunks[i]) <= chunks[i].end
           /\ Left(chunks[i]) \in Nat
           /\ i \in Nat /\ i < nextID
BY DEF TableOK, ChunkOK, ChunkType, Cursor, Left

\* No worker is NoOne.
LEMMA SomeoneIsNotNoOne == \A w \in Workers : w # NoOne
BY PartsAssumption DEF Workers, NoOne

\* Granting announces the chunk granted, and the shortened one it was cut from.
LEMMA GrantsTold ==
  ASSUME IInv, ShownMatches, NEW w \in Workers, Grants(w)
  PROVE  ShownMatches' /\ Orderly
<1>0. TableOK /\ w # NoOne
  BY SomeoneIsNotNoOne DEF IInv, TypeOK, SchedulerTypeOK
<1>1. CASE GrantPending(w)
  <2>1. PICK i \in Pending : /\ chunks' = [chunks EXCEPT ![i].owner = w]
                             /\ shown' = Put(shown, i, Announce(chunks[i]))
    BY <1>1 DEF GrantPending
  <2>2. i \in Ids /\ i \notin Active
    BY DEF Pending, Active
  <2>3. Ids' = Ids /\ \A j \in Ids \ {i} : chunks'[j] = chunks[j]
    BY <1>0, <2>1 DEF TableOK, Ids
  <2>4. /\ chunks'[i].off = chunks[i].off /\ chunks'[i].end = chunks[i].end
        /\ chunks'[i].written = chunks[i].written /\ chunks'[i].owner = w
    BY <1>0, <2>1, <2>2, ChunksAreOK DEF Ids, ChunkOK, ChunkType
  <2>5. Active' = Active \cup {i}
    BY <1>0, <2>2, <2>3, <2>4 DEF Active, Pending
  <2>6. /\ DOMAIN shown' = Active' /\ shown'[i] = Announce(chunks[i])
        /\ \A j \in Active : shown'[j] = shown[j]
    BY <2>1, <2>2, <2>5 DEF ShownMatches, Put
  <2>7. /\ Announce(chunks[i]).len = chunks[i].end - chunks[i].off
        /\ Announce(chunks[i]).got = chunks[i].written
    BY DEF Announce
  <2>8. \A j \in Active : j \in Ids \ {i}
    BY <2>2 DEF Active
  <2>9. ShownMatches'
    BY <2>3, <2>4, <2>5, <2>6, <2>7, <2>8 DEF ShownMatches
  <2>10. Orderly
    BY <1>0, <2>1, <2>3, <2>5, <2>8, ChunksAreOK DEF Orderly
  <2> QED
    BY <2>9, <2>10
<1>2. CASE GrantSplit(w)
  <2>1. PICK i \in Active :
          /\ chunks' = Halved(i, w)
          /\ shown' = Put([shown EXCEPT ![i] = Shrunk(i, Mid(chunks[i]))],
                          nextID, Announce(Halved(i, w)[nextID]))
    BY <1>2 DEF GrantSplit, Largest
  <2> DEFINE h == Halved(i, w)
             m == Mid(chunks[i])
  <2>2. i \in Ids
    BY DEF Active
  <2>3. /\ DOMAIN h = Ids \cup {nextID} /\ nextID \notin Ids
        /\ h[nextID] = NewChunk(m, chunks[i].end, 0, w)
        /\ h[i] = [chunks[i] EXCEPT !.end = m]
        /\ \A j \in Ids \ {i} : h[j] = chunks[j]
    BY <1>0, <2>2, HalvedTable
  <2>4. m \in Nat /\ m <= chunks[i].end /\ chunks[i].end \in Nat
    BY <1>0, <2>2, MidBounds DEF TableOK, ChunkOK, ChunkType
  <2>5. /\ h[nextID].off = m /\ h[nextID].end = chunks[i].end
        /\ h[nextID].written = 0 /\ h[nextID].owner = w
        /\ h[i].off = chunks[i].off /\ h[i].end = m
        /\ h[i].written = chunks[i].written /\ h[i].owner = chunks[i].owner
    BY <1>0, <2>2, <2>3, ChunksAreOK DEF NewChunk, ChunkOK, ChunkType
  <2> HIDE DEF h, m
  <2>6. Ids' = Ids \cup {nextID} /\ chunks' = h
    BY <2>1, <2>3 DEF Ids, h
  <2>7. Active' = Active \cup {nextID}
    BY <1>0, <2>2, <2>3, <2>5, <2>6 DEF Active, Pending
  <2>8. \A j \in Active : j \in Ids
    BY DEF Active
  <2>9. /\ DOMAIN shown' = Active'
        /\ shown'[nextID] = Announce(h[nextID])
        /\ shown'[i] = [shown[i] EXCEPT !.len = m - chunks[i].off]
        /\ \A j \in Active \ {i} : shown'[j] = shown[j]
    BY <2>1, <2>2, <2>3, <2>7, <2>8 DEF ShownMatches, Put, Shrunk, h, m
  <2>10. shown[i] \in [len: Nat, got: Nat]
    BY DEF ShownMatches, IInv, TypeOK, SchedulerTypeOK, ShownOK
  <2>11. shown'[i].len = m - chunks[i].off /\ shown'[i].got = shown[i].got
    BY <2>9, <2>10
  <2>12. /\ shown'[nextID].len = h[nextID].end - h[nextID].off
         /\ shown'[nextID].got = h[nextID].written
    BY <2>9 DEF Announce
  <2>13. ASSUME NEW j \in Active'
         PROVE  /\ shown'[j].len = chunks'[j].end - chunks'[j].off
                /\ shown'[j].got = chunks'[j].written
    <3>1. CASE j = nextID
      BY <2>6, <2>12, <3>1
    <3>2. CASE j = i
      BY <2>5, <2>6, <2>11, <3>2 DEF ShownMatches
    <3>3. CASE j \in Active \ {i}
      BY <2>3, <2>6, <2>8, <2>9, <3>3 DEF ShownMatches
    <3> QED
      BY <2>7, <3>1, <3>2, <3>3
  <2>14. ShownMatches'
    BY <2>9, <2>13 DEF ShownMatches
  <2>15. \A j \in Active \ {i} : chunks'[j] = chunks[j]
    BY <2>3, <2>6, <2>8
  <2>16. /\ chunks'[i].off = chunks[i].off /\ chunks'[i].end <= chunks[i].end
         /\ chunks[i].written <= chunks'[i].written
    BY <1>0, <2>2, <2>4, <2>5, <2>6, ChunksAreOK
  <2>17. nextID >= nextID /\ \A j \in Active : /\ chunks[j].end <= chunks[j].end
                                              /\ chunks[j].written <= chunks[j].written
    BY <1>0, <2>8, ChunksAreOK DEF TableOK
  <2>18. Orderly
    BY <2>7, <2>15, <2>16, <2>17 DEF Orderly
  <2> QED
    BY <2>14, <2>18
<1> QED
  BY <1>1, <1>2 DEF Grants

\* demote announces what its victims are left with.
LEMMA DemoteTold ==
  ASSUME IInv, ShownMatches, NEW keep \in Nat, Demote(keep)
  PROVE  ShownMatches' /\ Orderly
<1> DEFINE T == Surrendered(keep)
           N == FreshIds(Cardinality(T))
<1>0. SchedulerTypeOK /\ TableOK
  BY DEF IInv, TypeOK, SchedulerTypeOK
<1>1. T \in SUBSET Ids /\ T \in SUBSET Active /\ Cardinality(T) \in Nat
  BY <1>0, FiniteIds DEF Surrendered, Active
<1>2. PICK from \in Bijection(N, T) :
        /\ chunks' = Moved(from)
        /\ shown' = [i \in DOMAIN shown |->
                       IF i \in Range(from) THEN Shrunk(i, Cursor(chunks[i]))
                                            ELSE shown[i]]
  BY DEF Demote
<1>3. N \cap Ids = {}
  BY <1>0, <1>1, FreshIdsAreFresh
<1> HIDE DEF T, N
<1>4. MovedAsSaid(N, T, from)
  BY <1>0, <1>1, <1>2, <1>3, MovedTable
<1> DEFINE m == Moved(from)
<1>5. /\ DOMAIN m = Ids \cup N /\ Range(from) = T
      /\ \A j \in N : m[j].owner = NoOne
      /\ \A j \in Ids \ T : m[j] = chunks[j]
  BY <1>4 DEF MovedAsSaid, NewChunk
<1>6. ASSUME NEW j \in T
      PROVE  /\ m[j].off = chunks[j].off /\ m[j].end = Cursor(chunks[j])
             /\ m[j].written = chunks[j].written /\ m[j].owner = chunks[j].owner
  <2>1. m[j] = [chunks[j] EXCEPT !.end = Cursor(chunks[j])]
    BY <1>4 DEF MovedAsSaid
  <2>2. ChunkOK(chunks[j])
    BY <1>0, <1>1, ChunksAreOK
  <2> QED
    BY <2>1, <2>2 DEF ChunkOK, ChunkType
<1> HIDE DEF m
<1>7. Ids' = Ids \cup N /\ chunks' = m
  BY <1>2, <1>5 DEF Ids, m
<1>8. \A j \in Ids : m[j].owner = chunks[j].owner
  BY <1>5, <1>6
<1>9. Active' = Active
  BY <1>3, <1>5, <1>7, <1>8 DEF Active, Pending
<1>10. \A j \in Active : j \in Ids
  BY DEF Active
<1>11. \A j \in Active : shown[j] \in [len: Nat, got: Nat]
  BY DEF ShownMatches, IInv, TypeOK, SchedulerTypeOK, ShownOK
<1>12. /\ DOMAIN shown' = Active
       /\ \A j \in T : shown'[j] = [shown[j] EXCEPT !.len = Cursor(chunks[j]) - chunks[j].off]
       /\ \A j \in Active \ T : shown'[j] = shown[j]
  BY <1>1, <1>2, <1>5 DEF ShownMatches, Shrunk
<1>13. \A j \in T : /\ shown'[j].len = m[j].end - m[j].off
                    /\ shown'[j].got = m[j].written
  <2> TAKE j \in T
  <2>1. j \in Active /\ shown[j].got = chunks[j].written
    BY <1>1 DEF ShownMatches
  <2>2. shown'[j].len = Cursor(chunks[j]) - chunks[j].off /\ shown'[j].got = shown[j].got
    BY <1>11, <1>12, <2>1
  <2> QED
    BY <1>6, <2>1, <2>2
<1>14. ShownMatches'
  BY <1>5, <1>7, <1>9, <1>10, <1>12, <1>13 DEF ShownMatches
<1>15. Orderly
  <2>1. \A j \in Active : m[j].off = chunks[j].off /\ m[j].end <= chunks[j].end
                          /\ chunks[j].written <= m[j].written
    BY <1>0, <1>5, <1>6, <1>10, ChunksAreOK
  <2> QED
    BY <1>7, <1>9, <2>1 DEF Orderly
<1> QED
  BY <1>14, <1>15

\* What the Reporter was told stays true, and what it is told is in order.
LEMMA ToldStep ==
  ASSUME IInv, ShownMatches, TableSteps
  PROVE  ShownMatches' /\ (runs' = runs => Orderly)
<1>0. TableOK
  BY DEF IInv, TypeOK, SchedulerTypeOK
<1>1. CASE TableRests
  BY <1>0, <1>1, ChunksAreOK DEF TableRests, ShownMatches, Orderly, Active, Pending, Ids
<1>2. CASE \E w \in Workers : Grants(w)
  BY <1>2, GrantsTold
<1>3. CASE \E i \in Active : \E n \in Nat : Claim(i, n)
  <2>1. PICK i \in Active, n \in Nat : Claim(i, n)
    BY <1>3
  <2>2. i \in Ids /\ ChunkOK(chunks[i])
    BY <1>0, ChunksAreOK DEF Active
  <2>3. Ids' = Ids /\ \A j \in Ids \ {i} : chunks'[j] = chunks[j]
    BY <1>0, <2>1 DEF TableOK, Ids, Claim
  <2>4. /\ chunks'[i].off = chunks[i].off /\ chunks'[i].end = chunks[i].end
        /\ chunks'[i].owner = chunks[i].owner /\ chunks'[i].written = chunks[i].written
    BY <2>1, <2>2 DEF ChunkOK, ChunkType, Ids, Claim
  <2>5. Active' = Active /\ shown' = shown
    BY <2>1, <2>3, <2>4 DEF Active, Pending, Claim
  <2>6. \A j \in Active : j \in Ids
    BY DEF Active
  <2>7. ShownMatches'
    BY <2>3, <2>4, <2>5, <2>6 DEF ShownMatches
  <2>8. Orderly
    BY <1>0, <2>3, <2>4, <2>5, <2>6, ChunksAreOK DEF Orderly
  <2> QED
    BY <2>7, <2>8
<1>4. CASE \E i \in Active : Count(i)
  <2>1. PICK i \in Active : Count(i)
    BY <1>4
  <2>2. i \in Ids /\ ChunkOK(chunks[i])
    BY <1>0, ChunksAreOK DEF Active
  <2>3. Ids' = Ids /\ \A j \in Ids \ {i} : chunks'[j] = chunks[j]
    BY <1>0, <2>1 DEF TableOK, Ids, Count
  <2>4. /\ chunks'[i].off = chunks[i].off /\ chunks'[i].end = chunks[i].end
        /\ chunks'[i].owner = chunks[i].owner /\ chunks'[i].written = chunks[i].done
    BY <2>1, <2>2 DEF ChunkOK, ChunkType, Ids, Count
  <2>5. Active' = Active /\ DOMAIN shown' = DOMAIN shown
    BY <2>1, <2>3, <2>4 DEF Active, Pending, Count
  <2>6. \A j \in Active : j \in Ids
    BY DEF Active
  <2>7. shown[i] \in [len: Nat, got: Nat] /\ i \in DOMAIN shown
    BY DEF ShownMatches, IInv, TypeOK, SchedulerTypeOK, ShownOK
  <2>8. /\ shown'[i].len = shown[i].len
        /\ shown'[i].got = shown[i].got + chunks[i].done - chunks[i].written
        /\ \A j \in Active \ {i} : shown'[j] = shown[j]
    BY <2>1, <2>7 DEF Count, ShownMatches
  <2>9. shown'[i].got = chunks[i].done
    BY <1>0, <2>2, <2>8, ChunksAreOK DEF ShownMatches
  <2>10. ShownMatches'
    BY <2>3, <2>4, <2>5, <2>6, <2>8, <2>9 DEF ShownMatches
  <2>11. Orderly
    BY <1>0, <2>3, <2>4, <2>5, <2>6, ChunksAreOK DEF Orderly
  <2> QED
    BY <2>10, <2>11
<1>5. CASE \E i \in Active : Leaves(i)
  <2>1. PICK i \in Active : Leaves(i)
    BY <1>5
  <2>2. i \in Ids /\ \A j \in Active : j \in Ids
    BY DEF Active
  <2>3. Ids' = Ids \ {i} /\ \A j \in Ids' : chunks'[j] = chunks[j]
    BY <2>1 DEF Leaves, Without, Restrict, Ids
  <2>4. Active' = Active \ {i}
    BY <2>3 DEF Active, Pending
  <2>5. DOMAIN shown' = Active' /\ \A j \in Active' : shown'[j] = shown[j]
    BY <2>1, <2>4 DEF Leaves, Closed, Restrict, ShownMatches
  <2>6. ShownMatches'
    BY <2>2, <2>3, <2>4, <2>5 DEF ShownMatches
  <2>7. chunks[i].written = chunks[i].end - chunks[i].off
    BY <1>0, <2>1, <2>2, ChunksAreOK DEF Leaves, Left, Cursor
  <2>8. Orderly
    BY <1>0, <2>2, <2>3, <2>4, <2>7, ChunksAreOK DEF Orderly
  <2> QED
    BY <2>6, <2>8
<1>6. CASE \E keep \in Nat \ {0} : Demote(keep)
  BY <1>6, DemoteTold
<1>7. CASE PrepareSplit(MinParts)
  <2>1. PICK i \in Pending : chunks' = Halved(i, NoOne)
    BY <1>7 DEF PrepareSplit, Largest
  <2> DEFINE h == Halved(i, NoOne)
             m == Mid(chunks[i])
  <2>2. i \in Ids /\ i \notin Active /\ chunks[i].owner = NoOne
    BY DEF Pending, Active
  <2>3. /\ DOMAIN h = Ids \cup {nextID} /\ nextID \notin Ids
        /\ h[nextID] = NewChunk(m, chunks[i].end, 0, NoOne)
        /\ h[i] = [chunks[i] EXCEPT !.end = m]
        /\ \A j \in Ids \ {i} : h[j] = chunks[j]
    BY <1>0, <2>2, HalvedTable
  <2>4. h[nextID].owner = NoOne /\ h[i].owner = NoOne
    BY <1>0, <2>2, <2>3, ChunksAreOK DEF NewChunk, ChunkOK, ChunkType
  <2> HIDE DEF h, m
  <2>5. Ids' = Ids \cup {nextID} /\ chunks' = h
    BY <2>1, <2>3 DEF Ids, h
  <2>6. Active' = Active /\ shown' = shown
    BY <1>7, <2>2, <2>3, <2>4, <2>5 DEF Active, Pending, PrepareSplit
  <2>7. \A j \in Active : j \in Ids \ {i}
    BY <2>2 DEF Active
  <2> QED
    BY <1>0, <2>3, <2>5, <2>6, <2>7, ChunksAreOK DEF ShownMatches, Orderly
<1>8. CASE \E U : \E order : Fills(U, order)
  <2>1. PICK U, order : Fills(U, order)
    BY <1>8
  <2>2. shown' = <<>> /\ Ids' = DOMAIN order /\ \A j \in Ids' : chunks'[j].owner = NoOne
    BY <2>1 DEF Fills, AddPending, Seeded, Ids, NewChunk
  <2>3. Active' = {} /\ DOMAIN shown' = {}
    BY <2>2 DEF Active, Pending
  <2> QED
    BY <2>1, <2>3 DEF Fills, ShownMatches, Orderly
<1>9. CASE Forgotten
  <2>1. Active' = {} /\ DOMAIN shown' = {}
    BY <1>9 DEF Forgotten, Active, Ids
  <2>2. runs' # runs
    BY <1>9 DEF Forgotten, IInv, TypeOK
  <2> QED
    BY <2>1, <2>2 DEF ShownMatches
<1> QED
  BY <1>1, <1>2, <1>3, <1>4, <1>5, <1>6, <1>7, <1>8, <1>9 DEF TableSteps, StillBytes

-----------------------------------------------------------------------------
(* No range without a worker *)

\* Whoever is live is up, left-behind chunks are drained or the run is cancelled,
\* and work to grant means somebody to grant it to.
Attended == LiveIsUp /\ LeftBehind /\ Manned

\* A worker that goes on, or comes up, leaves nothing behind and stays.
LEMMA GoesOn ==
  ASSUME IInv, Attended, NEW w \in Workers, NEW l \in Labels,
         l # "unborn", l \notin Out, pc' = [pc EXCEPT ![w] = l],
         live' \subseteq live \cup {w}, retiring' \subseteq retiring,
         Pending' \subseteq Pending,
         \A i \in Active' : \/ chunks'[i].owner = w
                            \/ /\ i \in Active /\ chunks'[i].owner = chunks[i].owner
                               /\ Left(chunks[i]) = 0 => Left(chunks'[i]) = 0,
         UNCHANGED <<phase, parent, failure, woken>>
  PROVE  Attended'
<1>1. pc'[w] = l /\ \A v \in Workers : v # w => pc'[v] = pc[v]
  BY DEF IInv, TypeOK
<1>2. live \subseteq Workers /\ \A i \in Active : chunks[i].owner \in Workers
  BY OwnersAreWorkers DEF IInv, TypeOK, SchedulerTypeOK, WorkersOK
<1>3. LiveIsUp'
  BY <1>1, <1>2 DEF Attended, LiveIsUp, Out
<1>4. LeftBehind'
  BY <1>1, <1>2 DEF Attended, LeftBehind, Out, RunCancelled
<1>5. Manned'
  BY <1>1 DEF Attended, Manned, Out, RunCancelled
<1> QED
  BY <1>3, <1>4, <1>5 DEF Attended

\* A worker that leaves may, if it leaves a chunk behind only in a cancelled run
\* or one that its retirement drained, and work only to somebody else.
LEMMA Departs ==
  ASSUME IInv, Attended, NEW w \in Workers, NEW l \in Out,
         pc' = [pc EXCEPT ![w] = l], Deregister(w),
         Ids' \subseteq Ids, \A i \in Ids' : chunks'[i] = chunks[i],
         UNCHANGED <<phase, parent, failure, woken>>,
         l = "gone" => \/ RunCancelled
                       \/ w \in woken /\ w \in retiring
                       \/ \A i \in Active' : chunks[i].owner # w,
         l = "gone" => \/ RunCancelled \/ w \in retiring \/ Pending = {}
                       \/ \E u \in Workers : /\ u # w /\ u \notin retiring
                                             /\ pc[u] \notin {"unborn", "gone"}
  PROVE  Attended'
<1>1. pc'[w] = l /\ \A v \in Workers : v # w => pc'[v] = pc[v]
  BY DEF IInv, TypeOK
<1>2. /\ live \subseteq Workers /\ live' = live \ {w} /\ retiring' = retiring \ {w}
      /\ \A i \in Active : chunks[i].owner \in Workers
  BY OwnersAreWorkers DEF IInv, TypeOK, SchedulerTypeOK, WorkersOK, Deregister
<1>3. /\ Active' \subseteq Active /\ Pending' \subseteq Pending
      /\ \A i \in Active' : chunks'[i] = chunks[i]
  BY DEF Active, Pending
<1>4. LiveIsUp'
  BY <1>1, <1>2 DEF Attended, LiveIsUp
<1>5. LeftBehind'
  <2>1. w \in retiring => \A i \in Active : chunks[i].owner = w => Left(chunks[i]) = 0
    BY DEF IInv, RetiringIsDrained
  <2> QED
    BY <1>1, <1>2, <1>3, <2>1 DEF Attended, LeftBehind, RunCancelled
<1>6. Manned'
  <2> SUFFICES ASSUME phase = "run", ~RunCancelled, Pending # {}
               PROVE  \E v \in Workers : pc'[v] \notin {"unborn", "gone"} /\ v \notin retiring'
    BY <1>3 DEF Manned, RunCancelled
  <2>1. CASE l # "gone"
    BY <1>1, <1>2, <2>1 DEF Out
  <2>2. CASE l = "gone"
    <3>1. \E u \in Workers : /\ u # w /\ u \notin retiring
                             /\ pc[u] \notin {"unborn", "gone"}
      BY <2>2 DEF Attended, Manned
    <3> QED
      BY <1>1, <1>2, <3>1
  <2> QED
    BY <2>1, <2>2
<1> QED
  BY <1>4, <1>5, <1>6 DEF Attended

\* A step that moves no worker and no chunk.
LEMMA StandsBy ==
  ASSUME Attended, UNCHANGED <<pc, live, retiring, chunks>>,
         phase' = "run" => phase = "run", RunCancelled => RunCancelled', woken \subseteq woken'
  PROVE  Attended'
<1>1. Ids' = Ids /\ Pending' = Pending /\ Active' = Active
  BY DEF Ids, Pending, Active
<1>2. LiveIsUp'
  BY DEF Attended, LiveIsUp
<1>3. LeftBehind'
  BY <1>1 DEF Attended, LeftBehind
<1>4. Manned'
  BY <1>1 DEF Attended, Manned
<1> QED
  BY <1>2, <1>3, <1>4 DEF Attended

\* A worker turned away by the limit leaves another that may take the work.
LEMMA TurnedAway ==
  ASSUME IInv, LiveIsUp, NEW w \in Workers, TurnAway(w), Pending # {}, w \notin retiring
  PROVE  \E u \in Workers : /\ u # w /\ u \notin retiring
                            /\ pc[u] \notin {"unborn", "gone"}
<1> DEFINE F == (live \cup {w}) \ retiring
<1>1. limit > 0 /\ Cardinality(F) > limit
  BY DEF TurnAway, MustLeave
<1>2. F \in SUBSET Workers /\ limit \in Nat /\ w \in F /\ live \subseteq Workers
  BY DEF IInv, TypeOK, SchedulerTypeOK, WorkersOK
<1>3. \A u \in F : u # w => u \in live /\ u \notin retiring /\ u \in Workers
  BY <1>2
<1> HIDE DEF F
<1>4. \E u \in F : u # w
  <2> SUFFICES ASSUME F = {w} PROVE FALSE
    BY <1>2
  <2>1. Cardinality({w}) = 1
    BY FS_Singleton
  <2> QED
    BY <1>1, <1>2, <2>1
<1> QED
  BY <1>3, <1>4 DEF LiveIsUp, Out

\* A worker's own step keeps the work attended.
LEMMA WorkerAttended ==
  ASSUME IInv, Attended, NEW w \in Workers, WorkerStep(w)
  PROVE  Attended'
<1> USE DEF schedVars, ctxVars, runVars, At, Goto
<1>0. /\ TableOK /\ w # NoOne
      /\ \A i \in Active : i \in Ids /\ chunks[i].owner \in Workers
  BY SomeoneIsNotNoOne, OwnersAreWorkers DEF IInv, TypeOK, SchedulerTypeOK, Active
<1>1. CASE \/ Fetch(w) \/ WriteAt(w) \/ WriteFails(w) \/ Charge(w) \/ WaitOutThrottle(w)
           \/ WakeUp(w) \/ Abort(w) \/ Permanent(w) \/ Escape(w)
  <2>1. \E l \in Labels : l # "unborn" /\ l \notin Out /\ pc' = [pc EXCEPT ![w] = l]
    BY <1>1 DEF Fetch, WriteAt, WriteFails, Charge, WaitOutThrottle, WakeUp, Abort,
       Permanent, Escape, Labels, Out
  <2>2. UNCHANGED schedVars /\ UNCHANGED <<phase, parent, failure, woken>>
    BY <1>1 DEF Fetch, WriteAt, WriteFails, Charge, WaitOutThrottle, WakeUp, Abort,
       Permanent, Escape
  <2>3. Active' = Active /\ Pending' = Pending
    BY <2>2 DEF Active, Pending, Ids
  <2> QED
    BY <2>1, <2>2, <2>3, GoesOn
<1>2. CASE CheckCtx(w)
  <2>1. UNCHANGED <<phase, parent, failure, woken, chunks>>
    BY <1>2 DEF CheckCtx
  <2>2. Active' = Active /\ Pending' = Pending /\ Ids' = Ids
    BY <2>1 DEF Active, Pending, Ids
  <2>3. CASE ~CtxDone(w)
    <3>1. pc' = [pc EXCEPT ![w] = "next"] /\ UNCHANGED <<live, retiring>>
      BY <1>2, <2>3 DEF CheckCtx
    <3>2. "next" \in Labels /\ "next" # "unborn" /\ "next" \notin Out
      BY DEF Labels, Out
    <3> QED
      BY <2>1, <2>2, <3>1, <3>2, GoesOn
  <2>4. CASE CtxDone(w)
    <3>1. pc' = [pc EXCEPT ![w] = "gone"] /\ Deregister(w) /\ pc[w] = "top"
      BY <1>2, <2>4 DEF CheckCtx
    <3>2. RunCancelled \/ w \in retiring
      BY <2>4, <3>1 DEF CtxDone, IInv, WokenIsRetiring, Out
    <3>3. \A i \in Active' : chunks[i].owner # w
      BY <2>2, <3>1 DEF IInv, FreeHandsEmpty, Free
    <3>4. "gone" \in Out
      BY DEF Out
    <3> QED
      BY <2>1, <2>2, <3>1, <3>2, <3>3, <3>4, Departs
  <2> QED
    BY <2>3, <2>4
<1>3. CASE CallNext(w)
  <2>1. UNCHANGED <<phase, parent, failure, woken>> /\ pc[w] = "next"
    BY <1>3 DEF CallNext
  <2>2. "fetch" \in Labels /\ "fetch" # "unborn" /\ "fetch" \notin Out /\ "gone" \in Out
    BY DEF Labels, Out
  <2>3. CASE TurnAway(w) /\ pc' = [pc EXCEPT ![w] = "gone"]
    <3>1. Deregister(w) /\ UNCHANGED chunks
      BY <2>3 DEF TurnAway
    <3>2. Active' = Active /\ Ids' = Ids
      BY <3>1 DEF Active, Pending, Ids
    <3>3. \A i \in Active' : chunks[i].owner # w
      BY <2>1, <3>2 DEF IInv, FreeHandsEmpty, Free
    <3>4. \/ w \in retiring \/ Pending = {}
          \/ \E u \in Workers : /\ u # w /\ u \notin retiring
                                /\ pc[u] \notin {"unborn", "gone"}
      BY <2>3, TurnedAway DEF Attended
    <3> QED
      BY <2>1, <2>2, <2>3, <3>1, <3>2, <3>3, <3>4, Departs
  <2>4. CASE GrantPending(w) /\ pc' = [pc EXCEPT ![w] = "fetch"]
    <3>1. PICK i \in Pending : chunks' = [chunks EXCEPT ![i].owner = w]
      BY <2>4 DEF GrantPending
    <3>2. i \in Ids /\ ChunkOK(chunks[i])
      BY <1>0, ChunksAreOK DEF Pending
    <3>3. Ids' = Ids /\ \A j \in Ids \ {i} : chunks'[j] = chunks[j]
      BY <1>0, <3>1 DEF TableOK, Ids
    <3>4. chunks'[i].owner = w
      BY <3>1, <3>2 DEF Ids, ChunkOK, ChunkType
    <3>5. /\ Pending' \subseteq Pending
          /\ \A j \in Active' : \/ chunks'[j].owner = w
                                \/ j \in Active /\ chunks'[j] = chunks[j]
      BY <1>0, <3>3, <3>4 DEF Active, Pending
    <3>6. live' \subseteq live \cup {w} /\ retiring' \subseteq retiring
      BY <2>4 DEF GrantPending, Register
    <3> QED
      BY <2>1, <2>2, <2>4, <3>5, <3>6, GoesOn
  <2>5. CASE GrantSplit(w) /\ pc' = [pc EXCEPT ![w] = "fetch"]
    <3>1. PICK i \in Active : chunks' = Halved(i, w) /\ Left(chunks[i]) # 0
      BY <2>5, MinSizeAssumption DEF GrantSplit, Largest
    <3> DEFINE h == Halved(i, w)
               m == Mid(chunks[i])
    <3>2. i \in Ids
      BY DEF Active
    <3>3. /\ DOMAIN h = Ids \cup {nextID}
          /\ h[nextID] = NewChunk(m, chunks[i].end, 0, w)
          /\ h[i] = [chunks[i] EXCEPT !.end = m]
          /\ \A j \in Ids \ {i} : h[j] = chunks[j]
      BY <1>0, <3>2, HalvedTable
    <3>4. h[nextID].owner = w /\ h[i].owner = chunks[i].owner
      BY <1>0, <3>2, <3>3, ChunksAreOK DEF NewChunk, ChunkOK, ChunkType
    <3> HIDE DEF h, m
    <3>5. Ids' = Ids \cup {nextID} /\ chunks' = h
      BY <3>1, <3>3 DEF Ids, h
    <3>6. /\ Pending' \subseteq Pending
          /\ \A j \in Active' : \/ chunks'[j].owner = w
                                \/ /\ j \in Active /\ chunks'[j].owner = chunks[j].owner
                                   /\ Left(chunks[j]) = 0 => Left(chunks'[j]) = 0
      BY <1>0, <3>1, <3>3, <3>4, <3>5 DEF Active, Pending
    <3>7. live' \subseteq live \cup {w} /\ retiring' \subseteq retiring
      BY <2>5 DEF GrantSplit, Register
    <3> QED
      BY <2>1, <2>2, <2>5, <3>6, <3>7, GoesOn
  <2> QED
    BY <1>3, <2>3, <2>4, <2>5 DEF CallNext
<1>4. CASE (\E n \in 1 .. BufMax : Read(w, n)) \/ CountBytes(w)
  <2>1. \E l \in Labels : l # "unborn" /\ l \notin Out /\ pc' = [pc EXCEPT ![w] = l]
    BY <1>4 DEF Read, CountBytes, Labels, Out
  <2>2. UNCHANGED <<phase, parent, failure, woken, live, retiring>>
    BY <1>4 DEF Read, CountBytes, Claim, Count
  <2>3. \E i \in Active : Holds(w, i) /\ ((\E n \in Nat : Claim(i, n)) \/ Count(i))
    BY <1>4 DEF Read, CountBytes
  <2>4. PICK i \in Active : Holds(w, i) /\ ((\E n \in Nat : Claim(i, n)) \/ Count(i))
    BY <2>3
  <2>5. Ids' = Ids /\ \A j \in Ids : chunks'[j].owner = chunks[j].owner
    BY <1>0, <2>4, ChunksAreOK DEF Claim, Count, Ids, ChunkOK, ChunkType, TableOK
  <2>6. Active' = Active /\ Pending' = Pending
    BY <2>5 DEF Active, Pending
  <2>7. \A j \in Active \ {i} : chunks'[j] = chunks[j]
    BY <1>0, <2>4 DEF Claim, Count, TableOK, Ids
  <2>8. chunks'[i].owner = w
    BY <1>0, <2>4, <2>5 DEF Holds
  <2>9. \A j \in Active' : \/ chunks'[j].owner = w
                            \/ /\ j \in Active /\ chunks'[j].owner = chunks[j].owner
                               /\ Left(chunks[j]) = 0 => Left(chunks'[j]) = 0
    BY <2>6, <2>7, <2>8
  <2> QED
    BY <2>1, <2>2, <2>6, <2>9, GoesOn
<1>5. CASE Finish(w)
  <2>1. PICK i \in Active : Complete(i)
    BY <1>5 DEF Finish
  <2>2. /\ pc' = [pc EXCEPT ![w] = "top"]
        /\ UNCHANGED <<phase, parent, failure, woken, live, retiring>>
    BY <1>5, <2>1 DEF Finish, Complete
  <2>3. Ids' = Ids \ {i} /\ \A j \in Ids' : chunks'[j] = chunks[j]
    BY <2>1 DEF Complete, Without, Restrict, Ids
  <2>4. /\ Pending' \subseteq Pending /\ Active' \subseteq Active
        /\ \A j \in Active' : chunks'[j] = chunks[j]
    BY <2>3 DEF Active, Pending
  <2>5. "top" \in Labels /\ "top" # "unborn" /\ "top" \notin Out
    BY DEF Labels, Out
  <2> QED
    BY <2>2, <2>4, <2>5, GoesOn
<1>6. CASE Unwind(w)
  <2>1. /\ Deregister(w) /\ UNCHANGED <<phase, parent, failure, woken>>
        /\ pc[w] \in {"perm", "spent", "noise"}
    BY <1>6 DEF Unwind
  <2>2. CASE pc[w] # "perm"
    <3>1. w \in retiring
      BY <1>6, <2>1 DEF Unwind, IInv, WokenIsRetiring, Out
    <3>2. PICK i \in Active :
            /\ Holds(w, i)
            /\ \/ pc' = [pc EXCEPT ![w] = "gone"] /\ chunks' = Without(i)
               \/ pc' = [pc EXCEPT ![w] = "broken"] /\ UNCHANGED chunks
      BY <1>6, <2>2 DEF Unwind, CatchRetired
    <3>3. Ids' \subseteq Ids /\ \A j \in Ids' : chunks'[j] = chunks[j]
      BY <3>2 DEF Without, Restrict, Ids
    <3>4. \E l \in Out :
            /\ pc' = [pc EXCEPT ![w] = l]
            /\ l = "gone" => Ids' = Ids \ {i}
      BY <3>2 DEF Without, Restrict, Ids, Out
    <3>5. PICK l \in Out :
            /\ pc' = [pc EXCEPT ![w] = l]
            /\ l = "gone" => Ids' = Ids \ {i}
      BY <3>4
    <3>6. l = "gone" => \A j \in Active' : chunks[j].owner # w
      BY <3>2, <3>3, <3>5 DEF IInv, OneChunkEach, Holds, Active, Pending
    <3> QED
      BY <2>1, <3>1, <3>3, <3>5, <3>6, Departs
  <2>3. CASE pc[w] = "perm"
    <3>1. pc' = [pc EXCEPT ![w] = "failing"] /\ UNCHANGED chunks
      BY <1>6, <2>3 DEF Unwind
    <3>2. Ids' = Ids
      BY <3>1 DEF Ids
    <3>3. "failing" \in Out /\ "failing" # "gone"
      BY DEF Out
    <3> QED
      BY <2>1, <3>1, <3>2, <3>3, Departs
  <2> QED
    BY <2>2, <2>3
<1>7. CASE AbsorbNoise(w)
  <2>1. /\ Deregister(w) /\ UNCHANGED <<phase, parent, failure, woken, chunks>>
        /\ pc[w] = "escaped"
    BY <1>7 DEF AbsorbNoise
  <2>2. Ids' = Ids
    BY <2>1 DEF Ids
  <2>3. w \in woken => w \in retiring
    BY <2>1 DEF IInv, WokenIsRetiring, Out
  <2>4. CASE CtxDone(w)
    <3>1. pc' = [pc EXCEPT ![w] = "gone"] /\ "gone" \in Out
      BY <1>7, <2>4 DEF AbsorbNoise, Out
    <3>2. RunCancelled \/ (w \in woken /\ w \in retiring)
      BY <2>3, <2>4 DEF CtxDone
    <3> QED
      BY <2>1, <2>2, <3>1, <3>2, Departs
  <2>5. CASE ~CtxDone(w)
    <3>1. pc' = [pc EXCEPT ![w] = "failing"] /\ "failing" \in Out /\ "failing" # "gone"
      BY <1>7, <2>5 DEF AbsorbNoise, Out
    <3> QED
      BY <2>1, <2>2, <3>1, Departs
  <2> QED
    BY <2>4, <2>5
<1>8. CASE Fail(w)
  <2>1. /\ pc' = [pc EXCEPT ![w] = "gone"] /\ pc[w] \in {"failing", "broken"}
        /\ UNCHANGED schedVars /\ UNCHANGED <<phase, parent>>
    BY <1>8 DEF Fail
  <2>2. RunCancelled'
    BY <1>8 DEF Fail, RunCancelled
  <2>3. \A v \in Workers : v # w => pc'[v] = pc[v]
    BY <2>1 DEF IInv, TypeOK
  <2>4. w \notin live /\ live \subseteq Workers
    BY <2>1 DEF Attended, LiveIsUp, Out, IInv, TypeOK, SchedulerTypeOK, WorkersOK
  <2>5. LiveIsUp'
    BY <2>1, <2>3, <2>4 DEF Attended, LiveIsUp
  <2> QED
    BY <2>2, <2>5 DEF Attended, LeftBehind, Manned
<1>9. CASE Wake(w)
  BY <1>9, StandsBy DEF Wake, workerVars, RunCancelled
<1> QED
  BY <1>1, <1>2, <1>3, <1>4, <1>5, <1>6, <1>7, <1>8, <1>9 DEF WorkerStep

\* demote spares a worker for what it surrenders.
LEMMA RetireAttended ==
  ASSUME IInv, Attended, NEW g \in Workers, NEW keep \in 1 .. Parts - 1, Retire(g, keep)
  PROVE  Attended'
<1> DEFINE T == Surrendered(keep)
           N == FreshIds(Cardinality(T))
<1>0. SchedulerTypeOK /\ TableOK /\ WorkersOK /\ keep \in Nat \ {0}
  BY DEF IInv, TypeOK, SchedulerTypeOK
<1>1. /\ Demote(keep) /\ UNCHANGED <<phase, parent, failure, woken, pc, live>>
      /\ retiring' = retiring \cup Victims(keep)
  BY DEF Retire, Demote, workerVars, runVars
<1>2. T \in SUBSET Ids /\ Cardinality(T) \in Nat
  BY <1>0, FiniteIds DEF Surrendered, Active
<1>3. PICK from \in Bijection(N, T) : chunks' = Moved(from)
  BY <1>1 DEF Demote
<1>4. N \cap Ids = {}
  BY <1>0, <1>2, FreshIdsAreFresh
<1>5. Victims(keep) = {} => T = {}
  BY DEF Surrendered
<1> HIDE DEF T, N
<1>6. MovedAsSaid(N, T, from)
  BY <1>0, <1>2, <1>3, <1>4, MovedTable
<1> DEFINE m == Moved(from)
<1>7. /\ DOMAIN m = Ids \cup N
      /\ \A j \in N : from[j] \in T /\ m[j].owner = NoOne
      /\ \A j \in Ids \ T : m[j] = chunks[j]
  BY <1>6 DEF MovedAsSaid, NewChunk
<1>8. \A j \in Ids : m[j].owner = chunks[j].owner /\ (Left(chunks[j]) = 0 => Left(m[j]) = 0)
  <2>1. ASSUME NEW j \in T PROVE m[j].owner = chunks[j].owner /\ Left(m[j]) = 0
    <3>1. m[j] = [chunks[j] EXCEPT !.end = Cursor(chunks[j])]
      BY <1>6 DEF MovedAsSaid
    <3>2. ChunkOK(chunks[j])
      BY <1>0, <1>2, ChunksAreOK
    <3> QED
      BY <3>1, <3>2 DEF ChunkOK, ChunkType, Left, Cursor
  <2> QED
    BY <1>7, <2>1
<1> HIDE DEF m
<1>9. Ids' = Ids \cup N /\ chunks' = m
  BY <1>3, <1>7 DEF Ids, m
<1>10. /\ Active' = Active
       /\ \A i \in Active : /\ chunks'[i].owner = chunks[i].owner
                            /\ Left(chunks[i]) = 0 => Left(chunks'[i]) = 0
  BY <1>4, <1>7, <1>8, <1>9 DEF Active, Pending
<1>11. LiveIsUp' /\ LeftBehind'
  BY <1>1, <1>10 DEF Attended, LiveIsUp, LeftBehind, RunCancelled
<1>12. Manned'
  <2>1. CASE NonRetiring = {}
    <3>1. Victims(keep) = {}
      BY <2>1 DEF Victims
    <3>2. N = {}
      BY <1>5, <1>7, <3>1
    <3>3. Pending' = Pending
      BY <1>8, <1>9, <3>2 DEF Pending
    <3> QED
      BY <1>1, <3>1, <3>3 DEF Attended, Manned, RunCancelled
  <2>2. CASE NonRetiring # {}
    <3>1. PICK w \in NonRetiring : w \notin Victims(keep)
      BY <1>0, <2>2, LowestSurvives
    <3>2. w \in live /\ w \in Workers /\ w \notin retiring'
      BY <1>0, <1>1, <3>1 DEF NonRetiring, WorkersOK
    <3>3. pc'[w] \notin {"unborn", "gone"}
      BY <1>1, <3>2 DEF Attended, LiveIsUp, Out
    <3> QED
      BY <3>2, <3>3 DEF Manned
  <2> QED
    BY <2>1, <2>2
<1> QED
  BY <1>11, <1>12 DEF Attended

\* prepare starts at least one worker.
LEMMA LaunchAttended ==
  ASSUME IInv, Attended, Launch
  PROVE  Attended'
<1>1. phase = "prepare" /\ Active = {} /\ \A w \in Workers : pc[w] = "unborn"
  BY DEF Launch, IInv, QuietStart
<1>2. live = {} /\ retiring = {}
  BY <1>1 DEF Attended, LiveIsUp, IInv, TypeOK, SchedulerTypeOK, WorkersOK
<1>3. UNCHANGED <<chunks, live, retiring>>
  BY DEF Launch, schedVars
<1>4. Active' = {}
  BY <1>1, <1>3 DEF Active, Pending, Ids
<1>5. LiveIsUp' /\ LeftBehind'
  BY <1>2, <1>3, <1>4 DEF LiveIsUp, LeftBehind
<1>6. 0 < Prepared(MinParts)
  <2>1. MinParts \in Nat /\ 0 < MinParts
    BY PoolAssumption
  <2>2. Pending # {} => Cardinality(Pending) \in Nat /\ Cardinality(Pending) # 0
    <3>1. Pending \in SUBSET Ids
      BY DEF Pending
    <3>2. IsFiniteSet(Pending) /\ Cardinality(Pending) \in Nat
      BY <3>1, FiniteIds DEF IInv, TypeOK, SchedulerTypeOK
    <3> QED
      BY <3>2, FS_EmptySet
  <2> QED
    BY <2>1, <2>2 DEF Prepared
<1>7. 0 \in Workers
  BY PartsAssumption DEF Workers
<1>8. pc'[0] = "top" /\ 0 \notin retiring'
  BY <1>2, <1>3, <1>6, <1>7 DEF Launch
<1>9. Manned'
  BY <1>7, <1>8 DEF Manned
<1> QED
  BY <1>5, <1>9 DEF Attended

\* Every step of the pool keeps the work attended.
LEMMA AttendedStep ==
  ASSUME IInv, IInv', Attended, [Next]_vars
  PROVE  Attended'
<1> USE DEF schedVars, workerVars, ctxVars, fileVars, flushVars, runVars
<1>1. CASE \E w \in Workers : WorkerStep(w)
  BY <1>1, WorkerAttended
<1>2. CASE \E g, w \in Workers : Spawn(g, w)
  <2>1. PICK g \in Workers, w \in Workers : Spawn(g, w)
    BY <1>2
  <2>2. /\ pc' = [pc EXCEPT ![w] = "top"] /\ UNCHANGED schedVars
        /\ UNCHANGED <<phase, parent, failure, woken>>
    BY <2>1 DEF Spawn, Goto
  <2>3. Active' = Active /\ Pending' = Pending
    BY <2>2 DEF Active, Pending, Ids
  <2>4. "top" \in Labels /\ "top" # "unborn" /\ "top" \notin Out
    BY DEF Labels, Out
  <2> QED
    BY <2>2, <2>3, <2>4, GoesOn
<1>3. CASE \E g \in Workers, keep \in 1 .. Parts - 1 : Retire(g, keep)
  BY <1>3, RetireAttended
<1>4. CASE ParentCancel \/ FlushTick \/ FlushSave \/ Stop \/ UNCHANGED vars
  BY <1>4, StandsBy DEF ParentCancel, FlushTick, FlushSave, Stop, vars, RunCancelled
<1>5. CASE Invalidate \/ Join \/ SaveOnError
  BY <1>5, StandsBy DEF Invalidate, Join, SaveOnError, RunCancelled
<1>6. CASE Resume \/ StartOver \/ Prepare
  <2>1. phase' = "prepare" /\ live' \subseteq live /\ pc' = pc
    BY <1>6 DEF Resume, StartOver, Prepare, AddPending, PrepareSplit
  <2>2. Active' = {}
    BY <2>1 DEF IInv, QuietStart
  <2> QED
    BY <2>1, <2>2 DEF Attended, LiveIsUp, LeftBehind, Manned
<1>7. CASE Launch
  BY <1>7, LaunchAttended
<1>8. CASE Rerun \/ Crash
  <2>1. phase' = "open" /\ live' = {} /\ chunks' = <<>>
    BY <1>8 DEF Rerun, Crash, Forget
  <2>2. Active' = {}
    BY <2>1 DEF Active, Ids
  <2> QED
    BY <2>1, <2>2 DEF Attended, LiveIsUp, LeftBehind, Manned
<1> QED
  BY <1>1, <1>2, <1>3, <1>4, <1>5, <1>6, <1>7, <1>8 DEF Next, MainStep

\* The verdict comes last, and nothing moves after it: when every worker has left
\* an uncancelled run, nothing is pending and what is active was left behind.
LEMMA VerdictStep ==
  ASSUME IInv, Attended, ResultLate, OnlyOvertakenStranded, [Next]_vars
  PROVE  ResultLate' /\ OnlyOvertakenStranded'
<1> USE DEF runVars, schedVars, workerVars, ctxVars, At
<1>1. CASE \/ \E w \in Workers : WorkerStep(w)
           \/ \E g, w \in Workers : Spawn(g, w)
           \/ \E g \in Workers, keep \in 1 .. Parts - 1 : Retire(g, keep)
           \/ ParentCancel \/ FlushTick \/ FlushSave
  <2>1. phase = "run" /\ UNCHANGED <<phase, result>>
    BY <1>1 DEF WorkerStep, CheckCtx, CallNext, Fetch, WriteAt, WriteFails, CountBytes,
       Finish, Charge, WaitOutThrottle, WakeUp, Abort, Permanent, Escape, Unwind,
       AbsorbNoise, Fail, Wake, Read, Spawn, Retire, ParentCancel, FlushTick, FlushSave
  <2> QED
    BY <2>1 DEF ResultLate, OnlyOvertakenStranded
<1>2. CASE Invalidate \/ SaveOnError \/ Stop \/ UNCHANGED vars
  <2>1. /\ UNCHANGED <<result, chunks, woken>>
        /\ phase' = "run" => phase = "run"
    BY <1>2 DEF Invalidate, SaveOnError, Stop, vars
  <2>2. Pending' = Pending /\ Active' = Active
    BY <2>1 DEF Pending, Active, Ids
  <2> QED
    BY <2>1, <2>2 DEF ResultLate, OnlyOvertakenStranded
<1>3. CASE Resume \/ StartOver \/ Prepare \/ Launch
  <2>1. result' = "none"
    BY <1>3 DEF Resume, StartOver, Prepare, PrepareSplit, Launch, IInv, QuietStart
  <2> QED
    BY <2>1 DEF ResultLate, OnlyOvertakenStranded
<1>4. CASE Join
  <2>1. /\ phase = "run" /\ phase' # "run" /\ UNCHANGED <<chunks, woken>>
        /\ \A w \in Workers : pc[w] \in {"unborn", "gone"}
    BY <1>4 DEF Join
  <2>2. Pending' = Pending /\ Active' = Active
    BY <2>1 DEF Pending, Active, Ids
  <2>3. result' = "stranded" => ~RunCancelled
    BY <1>4 DEF Join
  <2>4. ~RunCancelled => Pending = {}
    BY <2>1 DEF Attended, Manned
  <2>5. ASSUME ~RunCancelled, NEW i \in Active
        PROVE  chunks[i].owner \in woken /\ Left(chunks[i]) = 0
    <3>1. chunks[i].owner \in Workers
      BY OwnersAreWorkers
    <3>2. pc[chunks[i].owner] # "unborn"
      BY DEF IInv, FreeHandsEmpty, Free
    <3> QED
      BY <2>1, <2>5, <3>1, <3>2 DEF Attended, LeftBehind
  <2> QED
    BY <2>1, <2>2, <2>3, <2>4, <2>5 DEF ResultLate, OnlyOvertakenStranded
<1>5. CASE Rerun \/ Crash
  BY <1>5 DEF Rerun, Crash, Forget, ResultLate, OnlyOvertakenStranded
<1> QED
  BY <1>1, <1>2, <1>3, <1>4, <1>5 DEF Next, MainStep

-----------------------------------------------------------------------------
(* The promises *)

\* The initial state keeps them.
LEMMA ContractInit == Init => CInv
<1> SUFFICES ASSUME Init PROVE CInv
  OBVIOUS
<1>1. Ids = {} /\ Active = {} /\ Pending = {} /\ DOMAIN shown = {} /\ live = {}
      /\ limit = 0 /\ side = {} /\ snap = {} /\ phase = "open" /\ result = "none"
  BY DEF Init, Ids, Active, Pending
<1> QED
  BY <1>1 DEF CInv, FlowLimit, ChunksApart, SidecarTiles, ShownMatches, LiveIsUp,
     LeftBehind, Manned, ResultLate, OnlyOvertakenStranded

\* Every step of the pool keeps them, given what each chunk stands for.
LEMMA ContractStep == IInv /\ CInv /\ [Next]_vars => CInv'
<1> SUFFICES ASSUME IInv, CInv, [Next]_vars PROVE CInv'
  OBVIOUS
<1>1. IInv' /\ TableSteps
  BY StepInv, EveryTableStep
<1>2. FlowLimit' /\ ChunksApart' /\ ShownMatches'
  BY <1>1, LimitStep, ApartStep, ToldStep DEF CInv
<1>3. SidecarTiles'
  BY TilesStep DEF CInv
<1>4. LiveIsUp' /\ LeftBehind' /\ Manned'
  BY <1>1, AttendedStep DEF CInv, Attended
<1>5. ResultLate' /\ OnlyOvertakenStranded'
  BY VerdictStep DEF CInv, Attended
<1> QED
  BY <1>2, <1>3, <1>4, <1>5 DEF CInv

\* The pool's promises hold in every state of every run: the scheduler's
\* limit, the tiling of the table and of the sidecars, what the Reporter was
\* told, and who is there to take the pending work.
THEOREM ContractsHold == Spec => []CInv
  BY ContractInit, ContractStep, PoolInvariantHolds, PTL DEF Spec

\* Both invariants hold, for every file size, pool size, buffer size, retry budget
\* and number of downloads.
THEOREM PoolInvariantsHold == Spec => []PoolInv
BY PoolInvariantHolds, ContractsHold, PTL DEF PoolInv

\* Once demote has set a limit, next never grants work to more flows than
\* that, whoever arrives, leaves or is retired meanwhile.
THEOREM FlowsAreLimited == Spec => []FlowLimit
<1>1. CInv => FlowLimit
  BY DEF CInv
<1> QED
  BY <1>1, ContractsHold, PTL

\* Empty ranges apart, loadState accepts every sidecar that any run, crash or
\* failure leaves behind: its ranges are in bounds and share no byte.
THEOREM SidecarsTile == Spec => []SidecarTiles
<1>1. CInv => SidecarTiles
  BY DEF CInv
<1> QED
  BY <1>1, ContractsHold, PTL

\* When runWorkers returns "internal: workers exited with work remaining", no
\* range was left without a worker to take it: every byte had been claimed, and
\* what remains are drained chunks of workers whose retirement overtook them
\* between run's two looks at its context.
THEOREM OnlyOvertakenWorkIsLeft == Spec => []OnlyOvertakenStranded
<1>1. CInv => OnlyOvertakenStranded
  BY DEF CInv
<1> QED
  BY <1>1, ContractsHold, PTL

\* The Reporter may trust the order of what it is told: lengths only shrink,
\* never below the progress, and a chunk is done when the progress is whole.
THEOREM ReporterIsToldInOrder == Spec => ReporterContract
<1> DEFINE A == \A i \in DOMAIN shown \cup DOMAIN shown' :
          runs' = runs =>
            CASE i \notin DOMAIN shown' -> shown[i].got = shown[i].len
              [] i \notin DOMAIN shown -> i \in Pending \/ i >= nextID
              [] OTHER -> /\ shown[i].got <= shown'[i].got
                          /\ shown'[i].got <= shown'[i].len
                          /\ shown'[i].len <= shown[i].len
<1>1. IInv /\ CInv /\ [Next]_vars => A
  <2> SUFFICES ASSUME IInv, CInv, [Next]_vars,
                      NEW i \in DOMAIN shown \cup DOMAIN shown', runs' = runs
               PROVE  CASE i \notin DOMAIN shown' -> shown[i].got = shown[i].len
                        [] i \notin DOMAIN shown -> i \in Pending \/ i >= nextID
                        [] OTHER -> /\ shown[i].got <= shown'[i].got
                                    /\ shown'[i].got <= shown'[i].len
                                    /\ shown'[i].len <= shown[i].len
    OBVIOUS
  <2>1. IInv' /\ CInv' /\ Orderly
    BY StepInv, ContractStep, EveryTableStep, ToldStep DEF CInv
  <2>2. DOMAIN shown = Active /\ DOMAIN shown' = Active' /\ i \in Active \cup Active'
    BY <2>1 DEF CInv, ShownMatches
  <2>3. CASE i \notin Active'
    <3>1. i \in Active
      BY <2>2, <2>3
    <3>2. shown[i].got = shown[i].len
      BY <2>1, <2>3, <3>1 DEF Orderly, CInv, ShownMatches
    <3> QED
      BY <2>2, <2>3, <3>1, <3>2
  <2>4. CASE i \notin Active
    <3>1. i \in Pending \/ i >= nextID
      BY <2>1, <2>2, <2>4 DEF Orderly
    <3> QED
      BY <2>2, <2>4, <3>1
  <2>5. CASE i \in Active /\ i \in Active'
    <3>1. /\ shown[i].got = chunks[i].written /\ shown'[i].got = chunks'[i].written
          /\ shown[i].len = chunks[i].end - chunks[i].off
          /\ shown'[i].len = chunks'[i].end - chunks'[i].off
      BY <2>1, <2>5 DEF CInv, ShownMatches
    <3>2. ChunkOK(chunks[i]) /\ ChunkOK(chunks'[i])
      BY <2>1, <2>5 DEF IInv, TypeOK, SchedulerTypeOK, TableOK, Active
    <3>3. /\ chunks'[i].off = chunks[i].off /\ chunks'[i].end <= chunks[i].end
          /\ chunks[i].written <= chunks'[i].written
      BY <2>1, <2>5 DEF Orderly
    <3>4. /\ shown[i].got <= shown'[i].got
          /\ shown'[i].got <= shown'[i].len
          /\ shown'[i].len <= shown[i].len
      BY <3>1, <3>2, <3>3 DEF ChunkOK, ChunkType, Cursor
    <3> QED
      BY <2>2, <2>5, <3>4
  <2> QED
    BY <2>3, <2>4, <2>5
<1> QED
  BY <1>1, PoolInvariantHolds, ContractsHold, PTL DEF Spec, ReporterContract

-----------------------------------------------------------------------------
(* The pool implements the ledger *)

\* The bytes nobody has claimed.
Unclaimeds == UNION {Unclaimed(chunks[i]) : i \in Ids}

\* What a worker holds is what its one chunk has in flight.
LEMMA HeldIs ==
  ASSUME IInv
  PROVE  /\ \A i \in Active : /\ chunks[i].owner \in Workers
                              /\ Held[chunks[i].owner] = InFlight(chunks[i])
         /\ \A w \in Workers : (\A i \in Active : chunks[i].owner # w) => Held[w] = {}
<1>1. ASSUME NEW i \in Active
      PROVE  chunks[i].owner \in Workers /\ Held[chunks[i].owner] = InFlight(chunks[i])
  <2> DEFINE w == chunks[i].owner
  <2>1. w \in Workers
    BY OwnersAreWorkers
  <2>2. {j \in Active : Holds(w, j)} = {i}
    BY DEF IInv, OneChunkEach, Holds, Active
  <2>3. Held[w] = UNION {InFlight(chunks[j]) : j \in {i}}
    BY <2>1, <2>2 DEF Held
  <2> QED
    BY <2>1, <2>3
<1>2. ASSUME NEW w \in Workers, \A i \in Active : chunks[i].owner # w
      PROVE  Held[w] = {}
  <2>1. {j \in Active : Holds(w, j)} = {}
    BY <1>2 DEF Holds
  <2> QED
    BY <2>1 DEF Held
<1> QED
  BY <1>1, <1>2

\* What is held stays so when every chunk with bytes in flight stays as it is.
LEMMA SameHeld ==
  ASSUME \A i \in Active : \/ InFlight(chunks[i]) = {}
                           \/ /\ i \in Active' /\ chunks'[i].owner = chunks[i].owner
                              /\ InFlight(chunks'[i]) = InFlight(chunks[i]),
         \A i \in Active' : \/ InFlight(chunks'[i]) = {}
                            \/ /\ i \in Active /\ chunks'[i].owner = chunks[i].owner
                               /\ InFlight(chunks'[i]) = InFlight(chunks[i])
  PROVE  Held' = Held
<1> DEFINE H(w) == UNION {InFlight(chunks[i]) : i \in {j \in Active : Holds(w, j)}}
<1>1. ASSUME NEW w \in Workers PROVE H(w)' = H(w)
  <2>1. ASSUME NEW b PROVE b \in H(w) <=> b \in H(w)'
    <3>1. b \in H(w) <=> \E i \in Active : chunks[i].owner = w /\ b \in InFlight(chunks[i])
      BY DEF Holds, Active
    <3>2. b \in H(w)' <=> \E i \in Active' : chunks'[i].owner = w /\ b \in InFlight(chunks'[i])
      BY DEF Holds, Active
    <3> HIDE DEF H
    <3> QED
      BY <3>1, <3>2
  <2> HIDE DEF H
  <2> QED
    BY <2>1
<1>2. Held = [w \in Workers |-> H(w)] /\ Held' = [w \in Workers |-> H(w)']
  BY DEF Held, Workers
<1> HIDE DEF H
<1> QED
  BY <1>1, <1>2

\* What nobody has claimed stays so when every unclaimed byte is found again.
LEMMA SameUnclaimed ==
  ASSUME \A i \in Ids : \A b \in Unclaimed(chunks[i]) :
           \E j \in Ids' : b \in Unclaimed(chunks'[j]),
         \A i \in Ids' : \A b \in Unclaimed(chunks'[i]) :
           \E j \in Ids : b \in Unclaimed(chunks[j])
  PROVE  Unclaimeds' = Unclaimeds
<1>1. ASSUME NEW b PROVE b \in Unclaimeds <=> b \in Unclaimeds'
  <2>1. b \in Unclaimeds <=> \E i \in Ids : b \in Unclaimed(chunks[i])
    BY DEF Unclaimeds
  <2>2. b \in Unclaimeds' <=> \E i \in Ids' : b \in Unclaimed(chunks'[i])
    BY DEF Unclaimeds
  <2> QED
    BY <2>1, <2>2
<1> QED
  BY <1>1

\* A settled chunk has nothing in flight, and a full one nothing unclaimed.
LEMMA SettledAndFull ==
  ASSUME NEW c, ChunkOK(c)
  PROVE  /\ c.written = c.done => InFlight(c) = {}
         /\ Left(c) = 0 => Unclaimed(c) = {}
         /\ \A b \in Unclaimed(c) : b \in Int /\ Cursor(c) <= b /\ b < c.end
         /\ \A b \in Int : Cursor(c) <= b /\ b < c.end => b \in Unclaimed(c)
<1>1. /\ c.off \in Nat /\ c.done \in Nat /\ c.written \in Nat /\ c.end \in Nat
      /\ Cursor(c) \in Nat /\ Cursor(c) = c.off + c.done
  BY DEF ChunkOK, ChunkType, Cursor
<1> QED
  BY <1>1 DEF InFlight, Left, Unclaimed

\* A split moves unclaimed bytes from one chunk to the other.
LEMMA HalvedStill ==
  ASSUME IInv, NEW i \in Ids, NEW w \in Workers \cup {NoOne},
         i \in Pending => w = NoOne, chunks' = Halved(i, w)
  PROVE  Unclaimeds' = Unclaimeds /\ Held' = Held
<1> DEFINE h == Halved(i, w)
           m == Mid(chunks[i])
<1>0. TableOK
  BY DEF IInv, TypeOK, SchedulerTypeOK
<1>1. /\ DOMAIN h = Ids \cup {nextID} /\ nextID \notin Ids
      /\ h[nextID] = NewChunk(m, chunks[i].end, 0, w)
      /\ h[i] = [chunks[i] EXCEPT !.end = m]
      /\ \A j \in Ids \ {i} : h[j] = chunks[j]
      /\ \A j \in DOMAIN h : ChunkOK(h[j])
  BY <1>0, HalvedTable
<1>2. m \in Nat /\ Cursor(chunks[i]) <= m /\ m <= chunks[i].end /\ ChunkOK(chunks[i])
  BY <1>0, MidBounds DEF TableOK
<1>3. /\ Cursor(h[nextID]) = m /\ h[nextID].end = chunks[i].end
      /\ h[nextID].written = h[nextID].done /\ h[nextID].owner = w
      /\ Cursor(h[i]) = Cursor(chunks[i]) /\ h[i].end = m
      /\ InFlight(h[i]) = InFlight(chunks[i]) /\ h[i].owner = chunks[i].owner
  <2>1. Cursor(h[nextID]) = m + 0 /\ h[nextID].end = chunks[i].end
        /\ h[nextID].written = h[nextID].done /\ h[nextID].owner = w
    BY <1>1 DEF NewChunk, Cursor
  <2>2. /\ h[i].off = chunks[i].off /\ h[i].done = chunks[i].done /\ h[i].end = m
        /\ h[i].written = chunks[i].written /\ h[i].owner = chunks[i].owner
    BY <1>1, <1>2 DEF ChunkOK, ChunkType
  <2> HIDE DEF h, m
  <2> QED
    BY <1>2, <2>1, <2>2 DEF Cursor, InFlight
<1> HIDE DEF h, m
<1>4. Ids' = Ids \cup {nextID} /\ chunks' = h
  BY <1>1 DEF Ids, h
<1>5. Unclaimeds' = Unclaimeds
  <2>1. ASSUME NEW j \in Ids, NEW b \in Unclaimed(chunks[j])
        PROVE  \E k \in Ids' : b \in Unclaimed(chunks'[k])
    <3>1. CASE j # i
      BY <1>1, <1>4, <3>1
    <3>2. CASE j = i
      <4>1. b \in Int /\ Cursor(chunks[i]) <= b /\ b < chunks[i].end
        BY <1>2, <3>2, SettledAndFull
      <4>2. CASE b < m
        <5>1. i \in DOMAIN h /\ ChunkOK(h[i])
          BY <1>1
        <5>2. b \in Unclaimed(h[i])
          BY <1>3, <4>1, <4>2, <5>1, SettledAndFull
        <5> QED
          BY <1>1, <1>4, <5>1, <5>2
      <4>3. CASE m <= b
        BY <1>1, <1>3, <1>4, <4>1, <4>3, SettledAndFull
      <4> QED
        BY <1>2, <4>1, <4>2, <4>3
    <3> QED
      BY <3>1, <3>2
  <2>2. ASSUME NEW j \in Ids', NEW b \in Unclaimed(chunks'[j])
        PROVE  \E k \in Ids : b \in Unclaimed(chunks[k])
    <3>1. CASE j \in Ids \ {i}
      BY <1>1, <1>4, <3>1
    <3>2. CASE j = i \/ j = nextID
      <4>1. b \in Int /\ Cursor(h[j]) <= b /\ b < h[j].end
        BY <1>1, <1>4, SettledAndFull
      <4>2. Cursor(chunks[i]) \in Nat /\ chunks[i].end \in Nat
        BY <1>0, ChunksAreOK
      <4>3. Cursor(chunks[i]) <= b /\ b < chunks[i].end
        BY <1>2, <1>3, <3>2, <4>1, <4>2
      <4> QED
        BY <1>2, <4>1, <4>3, SettledAndFull
    <3> QED
      BY <1>4, <3>1, <3>2
  <2> QED
    BY <2>1, <2>2, SameUnclaimed
<1>6. Held' = Held
  <2>1. InFlight(h[nextID]) = {}
    BY <1>1, <1>3, SettledAndFull
  <2>2. \A j \in Active : /\ j \in Active' /\ chunks'[j].owner = chunks[j].owner
                          /\ InFlight(chunks'[j]) = InFlight(chunks[j])
    BY <1>1, <1>3, <1>4 DEF Active, Pending
  <2>3. \A j \in Active' : j \in Active \/ j = nextID
    BY <1>1, <1>3, <1>4 DEF Active, Pending
  <2> QED
    BY <1>4, <2>1, <2>2, <2>3, SameHeld
<1> QED
  BY <1>5, <1>6

\* demote moves unclaimed bytes only, from the retiring to the pending.
LEMMA DemoteStill ==
  ASSUME IInv, NEW keep \in Nat, Demote(keep)
  PROVE  Unclaimeds' = Unclaimeds /\ Held' = Held
<1> DEFINE T == Surrendered(keep)
           N == FreshIds(Cardinality(T))
<1>0. SchedulerTypeOK /\ TableOK
  BY DEF IInv, TypeOK, SchedulerTypeOK
<1>1. T \in SUBSET Ids /\ Cardinality(T) \in Nat
  BY <1>0, FiniteIds DEF Surrendered, Active
<1>2. PICK from \in Bijection(N, T) : chunks' = Moved(from)
  BY DEF Demote
<1>3. N \cap Ids = {}
  BY <1>0, <1>1, FreshIdsAreFresh
<1> HIDE DEF T, N
<1>4. MovedAsSaid(N, T, from)
  BY <1>0, <1>1, <1>2, <1>3, MovedTable
<1> DEFINE m == Moved(from)
<1>5. /\ DOMAIN m = Ids \cup N /\ \A j \in Ids \ T : m[j] = chunks[j]
      /\ \A j \in DOMAIN m : ChunkOK(m[j])
      /\ \A j \in T : \E k \in N : from[k] = j
  BY <1>4 DEF MovedAsSaid
<1>6. ASSUME NEW j \in N
      PROVE  /\ from[j] \in T /\ from[j] \in Ids
             /\ Cursor(m[j]) = Cursor(chunks[from[j]]) /\ m[j].end = chunks[from[j]].end
             /\ m[j].owner = NoOne
  <2>1. from[j] \in T /\ from[j] \in Ids
        /\ m[j] = NewChunk(Cursor(chunks[from[j]]), chunks[from[j]].end, 0, NoOne)
    BY <1>1, <1>4 DEF MovedAsSaid
  <2>2. Cursor(chunks[from[j]]) \in Nat
    BY <1>0, <2>1, ChunksAreOK
  <2>3. m[j].off = Cursor(chunks[from[j]]) /\ m[j].done = 0 /\ m[j].owner = NoOne
        /\ m[j].end = chunks[from[j]].end
    BY <2>1 DEF NewChunk
  <2> HIDE DEF m
  <2>4. Cursor(m[j]) = m[j].off + m[j].done
    BY DEF Cursor
  <2> QED
    BY <2>1, <2>2, <2>3, <2>4
<1>7. ASSUME NEW j \in T
      PROVE  /\ Cursor(m[j]) = Cursor(chunks[j]) /\ m[j].end = Cursor(chunks[j])
             /\ m[j].owner = chunks[j].owner /\ InFlight(m[j]) = InFlight(chunks[j])
  <2>1. m[j] = [chunks[j] EXCEPT !.end = Cursor(chunks[j])]
    BY <1>4 DEF MovedAsSaid
  <2>2. ChunkOK(chunks[j])
    BY <1>0, <1>1, ChunksAreOK
  <2>3. /\ m[j].off = chunks[j].off /\ m[j].done = chunks[j].done
        /\ m[j].written = chunks[j].written /\ m[j].owner = chunks[j].owner
        /\ m[j].end = Cursor(chunks[j])
    BY <2>1, <2>2 DEF ChunkOK, ChunkType
  <2> HIDE DEF m
  <2> QED
    BY <2>3 DEF Cursor, InFlight
<1> HIDE DEF m
<1>8. Ids' = Ids \cup N /\ chunks' = m
  BY <1>2, <1>5 DEF Ids, m
<1>9. Unclaimeds' = Unclaimeds
  <2>1. ASSUME NEW j \in Ids, NEW b \in Unclaimed(chunks[j])
        PROVE  \E k \in Ids' : b \in Unclaimed(chunks'[k])
    <3>1. CASE j \notin T
      BY <1>5, <1>8, <3>1
    <3>2. CASE j \in T
      <4>1. PICK k \in N : from[k] = j
        BY <1>5, <3>2
      <4>2. b \in Int /\ Cursor(chunks[j]) <= b /\ b < chunks[j].end
        BY <1>0, ChunksAreOK, SettledAndFull
      <4>3. b \in Unclaimed(m[k])
        BY <1>5, <1>6, <4>1, <4>2, SettledAndFull
      <4> QED
        BY <1>8, <4>3
    <3> QED
      BY <3>1, <3>2
  <2>2. ASSUME NEW j \in Ids', NEW b \in Unclaimed(chunks'[j])
        PROVE  \E k \in Ids : b \in Unclaimed(chunks[k])
    <3>1. CASE j \in Ids \ T
      BY <1>5, <1>8, <3>1
    <3>2. CASE j \in T
      <4>1. b \in Int /\ Cursor(m[j]) <= b /\ b < m[j].end
        BY <1>1, <1>5, <1>8, <3>2, SettledAndFull
      <4>2. Cursor(chunks[j]) \in Nat
        BY <1>0, <1>1, <3>2, ChunksAreOK
      <4> QED
        BY <1>7, <3>2, <4>1, <4>2
    <3>3. CASE j \in N
      <4>1. b \in Int /\ Cursor(m[j]) <= b /\ b < m[j].end
        BY <1>5, <1>8, <3>3, SettledAndFull
      <4>2. from[j] \in Ids /\ b \in Unclaimed(chunks[from[j]])
        BY <1>0, <1>6, <3>3, <4>1, ChunksAreOK, SettledAndFull
      <4> QED
        BY <4>2
    <3> QED
      BY <1>8, <3>1, <3>2, <3>3
  <2> QED
    BY <2>1, <2>2, SameUnclaimed
<1>10. Held' = Held
  <2>1. \A j \in Ids : m[j].owner = chunks[j].owner /\ InFlight(m[j]) = InFlight(chunks[j])
    BY <1>5, <1>7
  <2>2. Active' = Active
    BY <1>3, <1>6, <1>8, <2>1 DEF Active, Pending
  <2>3. \A j \in Active : j \in Ids
    BY DEF Active
  <2> QED
    BY <1>8, <2>1, <2>2, <2>3, SameHeld
<1> QED
  BY <1>9, <1>10

\* Grants, splits, completions and demotions move no byte from hand to hand.
LEMMA BytesRest ==
  ASSUME IInv, StillBytes
  PROVE  Unclaimeds' = Unclaimeds /\ Held' = Held
<1>0. TableOK
  BY DEF IInv, TypeOK, SchedulerTypeOK
<1>1. CASE TableRests
  BY <1>1 DEF TableRests, Unclaimeds, Held, Ids, Active, Pending, Holds, Workers
<1>2. CASE \E w \in Workers : Grants(w)
  <2>1. PICK w \in Workers : Grants(w)
    BY <1>2
  <2>2. CASE GrantPending(w)
    <3>1. PICK i \in Pending : chunks' = [chunks EXCEPT ![i].owner = w]
      BY <2>2 DEF GrantPending
    <3>2. i \in Ids /\ i \notin Active /\ ChunkOK(chunks[i])
      BY <1>0, ChunksAreOK DEF Pending, Active
    <3>3. Ids' = Ids /\ \A j \in Ids \ {i} : chunks'[j] = chunks[j]
      BY <1>0, <3>1 DEF TableOK, Ids
    <3>4. /\ chunks'[i].off = chunks[i].off /\ chunks'[i].end = chunks[i].end
          /\ chunks'[i].done = chunks[i].done /\ chunks'[i].written = chunks[i].written
      BY <3>1, <3>2 DEF ChunkOK, ChunkType, Ids
    <3>5. /\ Unclaimed(chunks'[i]) = Unclaimed(chunks[i])
          /\ InFlight(chunks'[i]) = InFlight(chunks[i])
      BY <3>4 DEF Unclaimed, InFlight, Cursor
    <3>6. chunks[i].written = chunks[i].done
      BY <3>2 DEF IInv, UnsettledIsHeld
    <3>7. InFlight(chunks'[i]) = {}
      BY <3>2, <3>5, <3>6, SettledAndFull
    <3>8. Unclaimeds' = Unclaimeds
      BY <3>3, <3>5, SameUnclaimed
    <3>9. /\ \A j \in Active : j \in Active' /\ chunks'[j] = chunks[j]
          /\ \A j \in Active' : j = i \/ j \in Active
      BY <3>2, <3>3 DEF Active, Pending
    <3>10. Held' = Held
      BY <3>7, <3>9, SameHeld
    <3> QED
      BY <3>8, <3>10
  <2>3. CASE GrantSplit(w)
    <3>1. PICK i \in Active : chunks' = Halved(i, w)
      BY <2>3 DEF GrantSplit, Largest
    <3>2. i \in Ids /\ i \notin Pending
      BY DEF Active
    <3> QED
      BY <3>1, <3>2, HalvedStill
  <2> QED
    BY <2>1, <2>2, <2>3 DEF Grants
<1>3. CASE \E i \in Active : Leaves(i)
  <2>1. PICK i \in Active : Leaves(i)
    BY <1>3
  <2>2. i \in Ids /\ ChunkOK(chunks[i])
    BY <1>0, ChunksAreOK DEF Active
  <2>3. Ids' = Ids \ {i} /\ \A j \in Ids' : chunks'[j] = chunks[j]
    BY <2>1 DEF Leaves, Without, Restrict, Ids
  <2>4. Unclaimed(chunks[i]) = {} /\ InFlight(chunks[i]) = {}
    BY <2>1, <2>2, SettledAndFull DEF Leaves
  <2>5. Unclaimeds' = Unclaimeds
    BY <2>3, <2>4, SameUnclaimed
  <2>6. /\ \A j \in Active' : j \in Active /\ chunks'[j] = chunks[j]
        /\ \A j \in Active : j = i \/ j \in Active'
    BY <2>3 DEF Active, Pending
  <2>7. Held' = Held
    BY <2>4, <2>6, SameHeld
  <2> QED
    BY <2>5, <2>7
<1>4. CASE \E keep \in Nat \ {0} : Demote(keep)
  BY <1>4, DemoteStill
<1>5. CASE PrepareSplit(MinParts)
  <2>1. PICK i \in Ids : chunks' = Halved(i, NoOne)
    BY <1>5 DEF PrepareSplit, Largest, Pending
  <2> QED
    BY <2>1, HalvedStill
<1> QED
  BY <1>1, <1>2, <1>3, <1>4, <1>5 DEF StillBytes

\* A step that moves no byte, lands none and gives no verdict stutters.
LEMMA LedgerStutters ==
  ASSUME Unclaimeds' = Unclaimeds, Held' = Held, UNCHANGED <<disk, result>>,
         phase \in {"open", "wiped"} <=> phase' \in {"open", "wiped"}
  PROVE  UNCHANGED Abstract!vars
<1>1. Todo' = Todo
  BY DEF Todo, Unclaimeds, Bytes
<1> QED
  BY <1>1 DEF Abstract!vars, Verdict

\* When one active chunk changes, so does what its owner holds, and nothing else.
LEMMA OneHandChanges ==
  ASSUME IInv, NEW i \in Active, NEW w \in Workers, chunks[i].owner = w,
         Ids' = Ids, chunks'[i].owner = w,
         \A j \in Ids \ {i} : chunks'[j] = chunks[j]
  PROVE  Held' = [Held EXCEPT ![w] = InFlight(chunks'[i])]
<1>1. i \in Ids /\ \A j \in Active : j # i => chunks[j].owner # w
  BY DEF IInv, OneChunkEach, Active
<1>2. Active' = Active /\ \A j \in Active : j \in Ids
  BY <1>1 DEF Active, Pending
<1>3. ASSUME NEW v \in Workers
      PROVE  Held'[v] = IF v = w THEN InFlight(chunks'[i]) ELSE Held[v]
  <2>1. Held'[v] = UNION {InFlight(chunks'[j]) : j \in {l \in Active' : Holds(v, l)'}}
    BY <1>3 DEF Held, Workers
  <2>2. CASE v = w
    <3>1. \A l \in Active' : Holds(v, l)' <=> l = i
      BY <1>1, <1>2, <2>2 DEF Holds
    <3>2. {l \in Active' : Holds(v, l)'} = {i}
      BY <1>2, <3>1
    <3> QED
      BY <2>1, <2>2, <3>2
  <2>3. CASE v # w
    <3>1. \A l \in Active : Holds(v, l)' <=> Holds(v, l)
      BY <1>2, <2>3 DEF Holds
    <3>2. \A l \in Active : Holds(v, l) => chunks'[l] = chunks[l]
      BY <1>2, <2>3 DEF Holds
    <3>3. {l \in Active' : Holds(v, l)'} = {l \in Active : Holds(v, l)}
      BY <1>2, <3>1
    <3>4. {InFlight(chunks'[j]) : j \in {l \in Active : Holds(v, l)}}
            = {InFlight(chunks[j]) : j \in {l \in Active : Holds(v, l)}}
      BY <3>2
    <3>5. Held[v] = UNION {InFlight(chunks[j]) : j \in {l \in Active : Holds(v, l)}}
      BY DEF Held
    <3> QED
      BY <2>1, <2>3, <3>3, <3>4, <3>5
  <2> QED
    BY <2>2, <2>3
<1>4. Held' = [v \in Workers |-> Held'[v]] /\ DOMAIN Held = Workers
  BY DEF Held, Workers
<1> QED
  BY <1>3, <1>4

\* claim hands the worker bytes that nobody was handed before.
LEMMA ReadTakes ==
  ASSUME IInv, CInv, NEW w \in Workers, NEW n \in 1 .. BufMax, Read(w, n)
  PROVE  \E S \in SUBSET Todo : Abstract!Take(w, S)
<1>0. TableOK /\ phase = "run" /\ phase' = "run" /\ pc[w] = "read"
      /\ UNCHANGED <<disk, result>> /\ result = "none" /\ n \in Nat
  BY DEF Read, At, IInv, CInv, ResultLate, TypeOK, SchedulerTypeOK, fileVars, runVars
<1>1. PICK i \in Active : Holds(w, i) /\ Claim(i, n)
  BY DEF Read
<1> DEFINE c == chunks[i]
           k == Claimable(i, n)
           d == [c EXCEPT !.done = @ + k]
           S == Cursor(c) .. Cursor(c) + k - 1
<1>2. i \in Ids /\ ChunkOK(c) /\ c.owner = w
  BY <1>0, <1>1, ChunksAreOK DEF Active, Holds
<1>3. k \in Nat /\ k <= Left(c) /\ Left(c) \in Nat
  BY <1>0, <1>2, ChunksAreOK DEF Claimable
<1> HIDE DEF k
<1>4. /\ ChunkOK(d) /\ d.end = c.end /\ d.off = c.off /\ d.done = c.done + k
      /\ d.written = c.written /\ d.owner = c.owner
  BY <1>2, <1>3, WithDone
<1>5. c.written = c.done
  BY <1>0, <1>2 DEF IInv, UnsettledIsHeld, Unsettled
<1>6. chunks' = [chunks EXCEPT ![i] = d]
  BY <1>1 DEF Claim, k
<1> HIDE DEF d
<1>7. Ids' = Ids /\ chunks'[i] = d /\ \A j \in Ids \ {i} : chunks'[j] = chunks[j]
  BY <1>0, <1>2, <1>6 DEF TableOK, Ids
<1>8. Active' = Active
  BY <1>2, <1>4, <1>7 DEF Active, Pending
<1>9. /\ c.off \in Nat /\ c.end \in Nat /\ c.done \in Nat /\ Cursor(c) = c.off + c.done
      /\ Cursor(c) \in Nat /\ Cursor(c) + k <= c.end /\ Cursor(d) = Cursor(c) + k
  <2>1. c.off \in Nat /\ c.end \in Nat /\ c.done \in Nat
    BY <1>2 DEF ChunkOK, ChunkType
  <2>2. Cursor(c) = c.off + c.done /\ Cursor(d) = c.off + (c.done + k)
    BY <1>4 DEF Cursor
  <2>3. k <= c.end - Cursor(c)
    BY <1>3 DEF Left
  <2> HIDE DEF c
  <2> QED
    BY <1>3, <2>1, <2>2, <2>3
<1>10. InFlight(c) = {} /\ InFlight(d) = S
  <2>1. InFlight(c) = {}
    BY <1>2, <1>5, SettledAndFull
  <2>2. d.off + d.written = Cursor(c)
    BY <1>4, <1>5, <1>9
  <2> HIDE DEF c
  <2>3. InFlight(d) = d.off + d.written .. Cursor(d) - 1
    BY DEF InFlight
  <2>4. InFlight(d) = Cursor(c) .. Cursor(c) + k - 1
    BY <1>3, <1>9, <2>2, <2>3
  <2> QED
    BY <2>1, <2>4
<1>11. Unclaimed(c) = S \cup Unclaimed(d) /\ S \cap Unclaimed(d) = {}
  BY <1>3, <1>4, <1>9 DEF Unclaimed
<1>12. ASSUME NEW j \in Ids, j # i PROVE Unclaimed(chunks[j]) \cap S = {}
  <2>1. chunks[j].end <= c.off \/ c.end <= chunks[j].off
    BY <1>2, <1>12 DEF CInv, ChunksApart
  <2>2. /\ chunks[j].off \in Nat /\ chunks[j].end \in Nat /\ Cursor(chunks[j]) \in Nat
        /\ chunks[j].off <= Cursor(chunks[j])
    BY <1>0, ChunksAreOK
  <2> HIDE DEF c
  <2>3. \A b \in S : b \in Int /\ c.off <= b /\ b < c.end
    BY <1>3, <1>9
  <2>4. \A b \in Unclaimed(chunks[j]) : b \in Int /\ chunks[j].off <= b /\ b < chunks[j].end
    BY <2>2 DEF Unclaimed
  <2> HIDE DEF S
  <2> QED
    BY <1>9, <2>1, <2>2, <2>3, <2>4
<1> HIDE DEF S, c
<1>13. S \in SUBSET Unclaimeds
  BY <1>2, <1>11 DEF Unclaimeds, c
<1>14. Unclaimeds' = Unclaimeds \ S
  <2>1. ASSUME NEW b, b \in Unclaimeds, b \notin S PROVE b \in Unclaimeds'
    <3>1. PICK j \in Ids : b \in Unclaimed(chunks[j])
      BY <2>1 DEF Unclaimeds
    <3>2. CASE j = i
      BY <1>2, <1>7, <1>11, <2>1, <3>1, <3>2 DEF Unclaimeds, c
    <3>3. CASE j # i
      BY <1>7, <3>1, <3>3 DEF Unclaimeds
    <3> QED
      BY <3>2, <3>3
  <2>2. ASSUME NEW b, b \in Unclaimeds' PROVE b \in Unclaimeds /\ b \notin S
    <3>1. PICK j \in Ids : b \in Unclaimed(chunks'[j])
      BY <1>7, <2>2 DEF Unclaimeds
    <3>2. CASE j = i
      BY <1>2, <1>7, <1>11, <3>1, <3>2 DEF Unclaimeds, c
    <3>3. CASE j # i
      BY <1>7, <1>12, <3>1, <3>3 DEF Unclaimeds
    <3> QED
      BY <3>2, <3>3
  <2> QED
    BY <2>1, <2>2
<1>15. Held[w] = {}
  BY <1>1, <1>2, <1>10, HeldIs DEF c
<1>16. Held' = [Held EXCEPT ![w] = S]
  BY <1>2, <1>4, <1>7, <1>10, OneHandChanges DEF c
<1>17. Todo = Unclaimeds /\ Todo' = Unclaimeds'
  BY <1>0 DEF Todo, Unclaimeds
<1>18. Abstract!Take(w, S)
  BY <1>0, <1>13, <1>14, <1>15, <1>16, <1>17 DEF Abstract!Take, Verdict
<1> QED
  BY <1>13, <1>17, <1>18

\* The worker that has counted its bytes lets them go, and they have landed.
LEMMA CountLetsGo ==
  ASSUME IInv, CInv, NEW w \in Workers, CountBytes(w)
  PROVE  Abstract!LetGo(w)
<1>0. TableOK /\ phase = "run" /\ phase' = "run" /\ pc[w] = "count"
      /\ UNCHANGED <<disk, result>> /\ result = "none"
  BY DEF CountBytes, At, IInv, CInv, ResultLate, TypeOK, SchedulerTypeOK, fileVars, runVars
<1>1. PICK i \in Active : Holds(w, i) /\ Count(i)
  BY DEF CountBytes
<1> DEFINE c == chunks[i]
           d == [c EXCEPT !.written = c.done]
<1>2. i \in Ids /\ ChunkOK(c) /\ c.owner = w
  BY <1>0, <1>1, ChunksAreOK DEF Active, Holds
<1>3. /\ ChunkOK(d) /\ d.end = c.end /\ d.off = c.off /\ d.done = c.done
      /\ d.written = c.done /\ d.owner = c.owner
  BY <1>2, WithWritten
<1>4. chunks' = [chunks EXCEPT ![i] = d]
  BY <1>1 DEF Count
<1> HIDE DEF d
<1>5. Ids' = Ids /\ chunks'[i] = d /\ \A j \in Ids \ {i} : chunks'[j] = chunks[j]
  BY <1>0, <1>2, <1>4 DEF TableOK, Ids
<1>6. Active' = Active
  BY <1>2, <1>3, <1>5 DEF Active, Pending
<1>7. InFlight(d) = {} /\ Unclaimed(d) = Unclaimed(c)
  <2>1. InFlight(d) = {}
    BY <1>3, SettledAndFull
  <2> HIDE DEF c
  <2> QED
    BY <1>3, <2>1 DEF Unclaimed, Cursor
<1>8. InFlight(c) \subseteq disk
  BY <1>0, <1>1, <1>2 DEF IInv, CountedIsLanded
<1>9. Unclaimeds' = Unclaimeds
  BY <1>5, <1>7, SameUnclaimed
<1>10. Held[w] \subseteq disk
  BY <1>1, <1>2, <1>8, HeldIs
<1>11. Held' = [Held EXCEPT ![w] = {}]
  BY <1>2, <1>3, <1>5, <1>7, OneHandChanges
<1>12. Todo' = Todo
  BY <1>0, <1>9 DEF Todo, Unclaimeds
<1> QED
  BY <1>0, <1>10, <1>11, <1>12 DEF Abstract!LetGo, Verdict

\* A write lands what its worker holds.
LEMMA WriteLands ==
  ASSUME IInv, CInv, NEW w \in Workers, WriteAt(w)
  PROVE  Abstract!Land(w)
<1>1. /\ phase = "run" /\ phase' = "run" /\ result = "none" /\ result' = result
      /\ UNCHANGED chunks
  BY DEF WriteAt, At, CInv, ResultLate, runVars, schedVars
<1>2. PICK i \in Active : Holds(w, i) /\ disk' = disk \cup InFlight(chunks[i])
  BY DEF WriteAt
<1>3. disk' = disk \cup Held[w]
  BY <1>2, HeldIs DEF Holds
<1>4. Todo' = Todo /\ Held' = Held
  BY <1>1 DEF Todo, Held, Ids, Active, Pending, Holds, Workers, Bytes
<1> QED
  BY <1>1, <1>3, <1>4 DEF Abstract!Land, Verdict

\* While no chunk is active nobody holds anything.
LEMMA NothingHeld ==
  /\ Active = {} => Held = Abstract!Nothing
  /\ Active' = {} => Held' = Abstract!Nothing
<1>1. ASSUME Active = {} PROVE Held = Abstract!Nothing
  <2>1. \A w \in Workers : Held[w] = {}
    BY <1>1 DEF Held
  <2> QED
    BY <2>1 DEF Held, Abstract!Nothing
<1>2. ASSUME Active' = {} PROVE Held' = Abstract!Nothing
  <2>1. \A w \in Workers : Held'[w] = {}
    BY <1>2 DEF Held, Workers
  <2>2. Held' = [w \in Workers |-> Held'[w]]
    BY DEF Held, Workers
  <2> QED
    BY <2>1, <2>2 DEF Abstract!Nothing
<1> QED
  BY <1>1, <1>2

\* In a table without active chunks the unclaimed bytes are bytes of the file,
\* and the others have landed.
BytesAccounted ==
    phase = "prepare" => /\ Active = {} /\ Unclaimeds \subseteq Bytes
                         /\ \A b \in Bytes : b \in disk \/ b \in Unclaimeds

\* So it is in a table that multipart has just filled.
LEMMA IdleTable == IInv => BytesAccounted
<1> SUFFICES ASSUME IInv, phase = "prepare"
             PROVE  /\ Active = {} /\ Unclaimeds \subseteq Bytes
                    /\ \A b \in Bytes : b \in disk \/ b \in Unclaimeds
  BY DEF BytesAccounted
<1>0. TableOK /\ Active = {}
  BY DEF IInv, TypeOK, SchedulerTypeOK, QuietStart
<1>1. ASSUME NEW i \in Ids PROVE Unclaimed(chunks[i]) \subseteq Bytes
  <2>1. chunks[i].end <= Total /\ Total \in Nat
    BY TotalAssumption DEF IInv, InsideFile
  <2>2. Cursor(chunks[i]) \in Nat /\ chunks[i].end \in Nat
    BY <1>0, ChunksAreOK
  <2> QED
    BY <2>1, <2>2 DEF Unclaimed, Bytes
<1>2. ASSUME NEW b \in Bytes PROVE b \in disk \/ b \in Unclaimeds
  <2>1. CASE b \notin disk
    <3>1. PICK i \in Ids : b \in Missing(chunks[i])
      BY <2>1 DEF IInv, Covered
    <3>2. chunks[i].written = chunks[i].done
      BY <1>0 DEF IInv, UnsettledIsHeld
    <3>3. b \in Unclaimed(chunks[i])
      BY <3>1, <3>2 DEF Missing, Unclaimed, Cursor
    <3> QED
      BY <3>3 DEF Unclaimeds
  <2> QED
    BY <2>1
<1> QED
  BY <1>0, <1>1, <1>2 DEF Unclaimeds

\* The same of the next state.
LEMMA NextIdleTable == IInv' => BytesAccounted'
  BY IdleTable, PTL

\* A resume recalls the bytes its sidecar does not list, and they have landed;
\* a fresh start recalls none.
LEMMA SeedsRecall ==
  ASSUME IInv, IInv'
  PROVE  /\ Resume => Abstract!Recall
         /\ StartOver => Abstract!StartOver
<1>1. Unclaimeds' \subseteq Bytes \/ phase' # "prepare"
  BY NextIdleTable DEF BytesAccounted, Bytes
<1>2. phase' = "prepare" => /\ Active' = {}
                            /\ \A b \in Bytes : b \in disk' \/ b \in Unclaimeds'
  BY NextIdleTable DEF BytesAccounted, Bytes
<1>3. Active' = {} => Held' = Abstract!Nothing
  BY NothingHeld
<1>4. phase' = "prepare" => Todo' = Unclaimeds'
  BY DEF Todo, Unclaimeds
<1>5. phase \in {"open", "wiped"} => Active = {} /\ result = "none"
  BY DEF IInv, QuietStart
<1>6. ASSUME Resume PROVE Abstract!Recall
  <2>1. /\ phase = "open" /\ phase' = "prepare" /\ UNCHANGED <<disk, result>>
    BY <1>6 DEF Resume, fileVars
  <2> DEFINE known == Bytes \ Unclaimeds'
  <2>2. known \in SUBSET disk
    BY <1>2, <2>1
  <2>3. Todo' = Bytes \ known
    BY <1>1, <1>4, <2>1
  <2>4. Held = Abstract!Nothing /\ Held' = Held
    BY <1>2, <1>3, <1>5, <2>1, NothingHeld
  <2> HIDE DEF known
  <2> QED
    BY <1>5, <2>1, <2>2, <2>3, <2>4 DEF Abstract!Recall, Verdict
<1>7. ASSUME StartOver PROVE Abstract!StartOver
  <2>1. phase = "wiped" /\ phase' = "prepare" /\ disk' = {} /\ result' = result
    BY <1>7 DEF StartOver
  <2>2. Todo' = Bytes
    BY <1>1, <1>2, <1>4, <2>1
  <2>3. Held = Abstract!Nothing /\ Held' = Held
    BY <1>2, <1>3, <1>5, <2>1, NothingHeld
  <2> QED
    BY <1>5, <2>1, <2>2, <2>3 DEF Abstract!StartOver, Verdict
<1> QED
  BY <1>6, <1>7

\* A crash, or a new download, restarts the ledger.
LEMMA ForgetRestarts ==
  ASSUME IInv, Rerun \/ Crash
  PROVE  Abstract!Restart
<1>1. /\ result # "ok" /\ phase' = "open" /\ result' = "none" /\ disk' = disk
      /\ chunks' = <<>>
  BY DEF Rerun, Crash, Forget, fileVars, IInv, QuietStart
<1>2. Active' = {}
  BY <1>1 DEF Active, Ids
<1>3. Held' = Abstract!Nothing
  BY <1>2, NothingHeld
<1>4. Todo' = Bytes
  BY <1>1 DEF Todo, Bytes
<1> QED
  BY <1>1, <1>3, <1>4 DEF Abstract!Restart, Verdict

\* Every verdict of runWorkers but success gives the ledger up.
LEMMA JoinJudges ==
  ASSUME IInv, IInv', CInv, CInv', Join
  PROVE  Abstract!Succeed \/ Abstract!GiveUp
<1>1. /\ phase = "run" /\ phase' \notin {"open", "wiped"} /\ result = "none"
      /\ result' \in {"error", "ok", "stranded"} /\ UNCHANGED <<chunks, disk>>
  BY DEF Join, CInv, ResultLate, schedVars, fileVars
<1>2. Todo' = Todo /\ Held' = Held
  BY <1>1 DEF Todo, Held, Ids, Active, Pending, Holds, Workers, Bytes
<1>3. Verdict = "none" /\ Verdict' \in {"error", "ok"} /\ (Verdict' = "ok" => result' = "ok")
  BY <1>1 DEF Verdict
<1>4. result' = "ok" => disk = Bytes
  BY <1>1 DEF IInv, SuccessMeansWhole, Bytes
<1> QED
  BY <1>1, <1>2, <1>3, <1>4 DEF Abstract!Succeed, Abstract!GiveUp

\* Every step of the pool is a step of the ledger, or none.
LEMMA LedgerStep ==
  IInv /\ IInv' /\ CInv /\ CInv' /\ [Next]_vars => [Abstract!Next]_(Abstract!vars)
<1> SUFFICES ASSUME IInv, IInv', CInv, CInv', [Next]_vars
             PROVE  Abstract!Next \/ UNCHANGED Abstract!vars
  OBVIOUS
<1> USE DEF schedVars, fileVars, runVars
<1>1. ASSUME NEW w \in Workers, WorkerStep(w)
      PROVE  Abstract!Next \/ UNCHANGED Abstract!vars
  <2>1. CASE \E n \in 1 .. BufMax : Read(w, n)
    BY <2>1, ReadTakes DEF Abstract!Next
  <2>2. CASE CountBytes(w)
    BY <2>2, CountLetsGo DEF Abstract!Next
  <2>3. CASE WriteAt(w)
    BY <2>3, WriteLands DEF Abstract!Next
  <2>4. CASE ~ (\E n \in 1 .. BufMax : Read(w, n)) /\ ~CountBytes(w) /\ ~WriteAt(w)
    <3>1. phase = "run" /\ phase' = "run" /\ UNCHANGED <<disk, result>>
      BY <1>1, <2>4 DEF WorkerStep, CheckCtx, CallNext, Fetch, WriteFails, Finish, Charge,
         WaitOutThrottle, WakeUp, Abort, Permanent, Escape, Unwind, AbsorbNoise, Fail,
         Wake, At
    <3>2. StillBytes
      BY <1>1, <2>4, WorkerTableStep
    <3> QED
      BY <3>1, <3>2, BytesRest, LedgerStutters
  <2> QED
    BY <2>1, <2>2, <2>3, <2>4
<1>2. CASE \/ \E g, w \in Workers : Spawn(g, w)
           \/ ParentCancel \/ FlushTick \/ FlushSave \/ Stop \/ UNCHANGED vars
           \/ Invalidate \/ Launch \/ SaveOnError
  <2>1. UNCHANGED <<chunks, disk, result>>
    BY <1>2 DEF Spawn, ParentCancel, FlushTick, FlushSave, Stop, vars, Invalidate, Launch,
       SaveOnError
  <2>2. phase \in {"open", "wiped"} <=> phase' \in {"open", "wiped"}
    BY <1>2 DEF Spawn, ParentCancel, FlushTick, FlushSave, Stop, vars, Invalidate, Launch,
       SaveOnError
  <2>3. Unclaimeds' = Unclaimeds /\ Held' = Held
    BY <2>1 DEF Unclaimeds, Held, Ids, Active, Pending, Holds, Workers
  <2> QED
    BY <2>1, <2>2, <2>3, LedgerStutters
<1>3. CASE \E g \in Workers, keep \in 1 .. Parts - 1 : Retire(g, keep)
  <2>1. PICK g \in Workers, keep \in 1 .. Parts - 1 : Retire(g, keep)
    BY <1>3
  <2>2. Demote(keep) /\ UNCHANGED <<disk, result>> /\ phase = "run" /\ phase' = "run"
    BY <2>1 DEF Retire, At
  <2>3. keep \in Nat
    OBVIOUS
  <2> QED
    BY <2>2, <2>3, DemoteStill, LedgerStutters
<1>4. CASE Prepare
  <2>1. /\ PrepareSplit(MinParts) /\ UNCHANGED <<disk, result>>
        /\ phase = "prepare" /\ phase' = "prepare"
    BY <1>4 DEF Prepare
  <2>2. StillBytes
    BY <2>1 DEF StillBytes
  <2> QED
    BY <2>1, <2>2, BytesRest, LedgerStutters
<1>5. CASE Resume \/ StartOver
  BY <1>5, SeedsRecall DEF Abstract!Next
<1>6. CASE Join
  BY <1>6, JoinJudges DEF Abstract!Next
<1>7. CASE Rerun \/ Crash
  BY <1>7, ForgetRestarts DEF Abstract!Next
<1> QED
  BY <1>1, <1>2, <1>3, <1>4, <1>5, <1>6, <1>7 DEF Next, MainStep

\* A download begins with a fresh ledger.
LEMMA LedgerInit == Init => Abstract!Init
<1> SUFFICES ASSUME Init PROVE Abstract!Init
  OBVIOUS
<1>1. phase = "open" /\ disk = {} /\ result = "none" /\ Active = {}
  BY DEF Init, Active, Ids
<1>2. Todo = Bytes /\ Held = Abstract!Nothing
  BY <1>1, NothingHeld DEF Todo
<1> QED
  BY <1>1, <1>2 DEF Abstract!Init, Verdict

\* The pool, with its ranges, splits, claims, retirements, crashes and resumes,
\* implements the ledger of bytes: each is handed out once, lands while it is
\* held, is forgotten only if it has landed, and success means all have.
THEOREM PoolImplementsLedger == Spec => ImplementsLedger
<1>1. Spec => [][Abstract!Next]_(Abstract!vars)
  BY PoolInvariantHolds, ContractsHold, LedgerStep, PTL DEF Spec
<1>2. Spec => Abstract!Init
  BY LedgerInit DEF Spec
<1> QED
  BY <1>1, <1>2, PTL DEF ImplementsLedger, Abstract!Spec

-----------------------------------------------------------------------------
(* What the ledger says of the pool *)

\* A ledger's fields have their types, whatever steps are taken.
LEMMA LedgerTypes == Abstract!Spec => []Abstract!TypeOK
<1>1. Abstract!Init => Abstract!TypeOK
  BY DEF Abstract!Init, Abstract!TypeOK, Abstract!Nothing
<1>2. Abstract!TypeOK /\ [Abstract!Next]_(Abstract!vars) => Abstract!TypeOK'
  BY DEF Abstract!TypeOK, Abstract!Next, Abstract!Take, Abstract!Land, Abstract!LetGo,
     Abstract!Succeed, Abstract!GiveUp, Abstract!Restart, Abstract!Recall, Abstract!StartOver,
     Abstract!Nothing, Abstract!vars
<1> QED
  BY <1>1, <1>2, PTL DEF Abstract!Spec

\* No step of a ledger loses a byte.
LEMMA LedgerStepLosesNothing ==
  Abstract!TypeOK /\ Abstract!NothingLost /\ [Abstract!Next]_(Abstract!vars)
      => Abstract!NothingLost'
<1> SUFFICES ASSUME Abstract!TypeOK, Abstract!NothingLost, [Abstract!Next]_(Abstract!vars)
             PROVE  Abstract!NothingLost'
  OBVIOUS
<1>1. ASSUME NEW w \in Workers, Abstract!Land(w) \/ Abstract!LetGo(w)
      PROVE  Abstract!NothingLost'
  BY <1>1 DEF Abstract!Land, Abstract!LetGo, Abstract!NothingLost, Abstract!TypeOK
<1>2. ASSUME NEW w \in Workers, NEW S \in SUBSET Todo, Abstract!Take(w, S)
      PROVE  Abstract!NothingLost'
  <2> SUFFICES ASSUME NEW b \in Bytes
               PROVE  b \in Todo' \/ b \in disk' \/ \E v \in Workers : b \in Held'[v]
    BY DEF Abstract!NothingLost
  <2>1. CASE b \in S
    BY <1>2, <2>1 DEF Abstract!Take, Abstract!TypeOK
  <2>2. CASE b \in Todo \ S
    BY <1>2, <2>2 DEF Abstract!Take
  <2>3. CASE b \in disk
    BY <1>2, <2>3 DEF Abstract!Take
  <2>4. CASE \E v \in Workers : b \in Held[v]
    <3> PICK v \in Workers : b \in Held[v]
      BY <2>4
    <3>1. v # w
      BY <1>2 DEF Abstract!Take
    <3> QED
      BY <1>2, <3>1 DEF Abstract!Take, Abstract!TypeOK
  <2> QED
    BY <2>1, <2>2, <2>3, <2>4 DEF Abstract!NothingLost
<1>3. CASE \/ Abstract!Succeed \/ Abstract!GiveUp \/ Abstract!Restart \/ Abstract!Recall
           \/ Abstract!StartOver \/ UNCHANGED Abstract!vars
  BY <1>3 DEF Abstract!Succeed, Abstract!GiveUp, Abstract!Restart, Abstract!Recall,
     Abstract!StartOver, Abstract!NothingLost, Abstract!vars
<1> QED
  BY <1>1, <1>2, <1>3 DEF Abstract!Next

\* At every moment each byte is in the file, in a worker's hands, or in a range
\* that is still to be claimed: splits, retirements, resumes and crashes lose none.
THEOREM PoolLosesNothing == Spec => []Abstract!NothingLost
<1>1. Abstract!Init => Abstract!NothingLost
  BY DEF Abstract!Init, Abstract!NothingLost
<1>2. Abstract!Spec => []Abstract!NothingLost
  BY <1>1, LedgerStepLosesNothing, LedgerTypes, PTL DEF Abstract!Spec
<1> QED
  BY <1>2, PoolImplementsLedger, PTL DEF ImplementsLedger

\* No step of a ledger gives a byte to a second worker.
LEMMA LedgerStepHandsOnce ==
  Abstract!TypeOK /\ Abstract!HandedOnce /\ [Abstract!Next]_(Abstract!vars)
      => Abstract!HandedOnce'
<1> SUFFICES ASSUME Abstract!TypeOK, Abstract!HandedOnce, [Abstract!Next]_(Abstract!vars)
             PROVE  Abstract!HandedOnce'
  OBVIOUS
<1>1. ASSUME NEW w \in Workers, Abstract!Land(w) \/ Abstract!LetGo(w)
      PROVE  Abstract!HandedOnce'
  BY <1>1 DEF Abstract!Land, Abstract!LetGo, Abstract!HandedOnce, Abstract!TypeOK
<1>2. ASSUME NEW w \in Workers, NEW S \in SUBSET Todo, Abstract!Take(w, S)
      PROVE  Abstract!HandedOnce'
  BY <1>2 DEF Abstract!Take, Abstract!HandedOnce, Abstract!TypeOK
<1>3. CASE Abstract!Succeed \/ Abstract!GiveUp \/ UNCHANGED Abstract!vars
  BY <1>3 DEF Abstract!Succeed, Abstract!GiveUp, Abstract!HandedOnce, Abstract!vars
<1>4. CASE Abstract!Restart \/ Abstract!Recall \/ Abstract!StartOver
  BY <1>4 DEF Abstract!Restart, Abstract!Recall, Abstract!StartOver, Abstract!HandedOnce,
     Abstract!Nothing
<1> QED
  BY <1>1, <1>2, <1>3, <1>4 DEF Abstract!Next

\* No byte is in two workers' hands at once, nor still to be claimed while one
\* has it, however ranges are stolen, surrendered and granted again.
THEOREM PoolHandsOnce == Spec => []Abstract!HandedOnce
<1>1. Abstract!Init => Abstract!HandedOnce
  BY DEF Abstract!Init, Abstract!HandedOnce, Abstract!Nothing
<1>2. Abstract!Spec => []Abstract!HandedOnce
  BY <1>1, LedgerStepHandsOnce, LedgerTypes, PTL DEF Abstract!Spec
<1> QED
  BY <1>2, PoolImplementsLedger, PTL DEF ImplementsLedger

=============================================================================
