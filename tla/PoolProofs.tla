----------------------------- MODULE PoolProofs -----------------------------
(***************************************************************************)
(* IInv is an inductive invariant of WorkerPool, for every file size, pool *)
(* size, buffer, retry budget and number of downloads.                     *)
(***************************************************************************)
EXTENDS PoolInvariant, FiniteSetTheorems, TLAPS

-----------------------------------------------------------------------------
(* Every critical section of the scheduler keeps the tables well formed. *)

\* The point at which next splits a chunk lies in its unclaimed remainder.
LEMMA MidBounds ==
  ASSUME NEW c, ChunkOK(c)
  PROVE  /\ Mid(c) \in Nat
         /\ Cursor(c) <= Mid(c)
         /\ Mid(c) <= c.end
         /\ Left(c) \in Nat
         /\ Cursor(c) \in Nat
<1> DEFINE L == Left(c)
<1>1. L \in Nat /\ Cursor(c) \in Nat /\ c.end = Cursor(c) + L
  BY DEF ChunkOK, ChunkType, Left, Cursor
<1>2. L \div 2 \in Nat /\ L \div 2 <= L
  BY <1>1
<1> QED
  BY <1>1, <1>2 DEF Mid

\* A fresh chunk has its type when its prefix lies inside its range.
LEMMA NewChunkOK ==
  ASSUME NEW off \in Nat, NEW end \in Nat, NEW done \in Nat, off + done <= end,
         NEW w \in Workers \cup {NoOne}
  PROVE  /\ ChunkOK(NewChunk(off, end, done, w))
         /\ NewChunk(off, end, done, w).owner = w
         /\ NewChunk(off, end, done, w).done = done
         /\ NewChunk(off, end, done, w).written = done
         /\ NewChunk(off, end, done, w).off = off
         /\ NewChunk(off, end, done, w).end = end
  BY DEF ChunkOK, ChunkType, NewChunk, Cursor

\* The updates of one field of a chunk that the scheduler makes.
LEMMA WithEnd ==
  ASSUME NEW c, ChunkOK(c), NEW e \in Nat, Cursor(c) <= e
  PROVE  LET d == [c EXCEPT !.end = e]
         IN  /\ ChunkOK(d)
             /\ d.end = e /\ d.off = c.off /\ d.done = c.done
             /\ d.written = c.written /\ d.owner = c.owner
  BY DEF ChunkOK, ChunkType, Cursor

\* A chunk keeps its type when it is granted to a worker.
LEMMA WithOwner ==
  ASSUME NEW c, ChunkOK(c), NEW w \in Workers
  PROVE  LET d == [c EXCEPT !.owner = w]
         IN  /\ ChunkOK(d)
             /\ d.end = c.end /\ d.off = c.off /\ d.done = c.done
             /\ d.written = c.written /\ d.owner = w
  BY DEF ChunkOK, ChunkType, Cursor

\* A chunk keeps its type when its owner claims no more than is left of it.
LEMMA WithDone ==
  ASSUME NEW c, ChunkOK(c), NEW n \in Nat, n <= Left(c)
  PROVE  LET d == [c EXCEPT !.done = @ + n]
         IN  /\ ChunkOK(d)
             /\ d.end = c.end /\ d.off = c.off /\ d.done = c.done + n
             /\ d.written = c.written /\ d.owner = c.owner
  BY DEF ChunkOK, ChunkType, Cursor, Left

\* A chunk keeps its type when everything claimed from it is counted.
LEMMA WithWritten ==
  ASSUME NEW c, ChunkOK(c)
  PROVE  LET d == [c EXCEPT !.written = c.done]
         IN  /\ ChunkOK(d)
             /\ d.end = c.end /\ d.off = c.off /\ d.done = c.done
             /\ d.written = c.done /\ d.owner = c.owner
  BY DEF ChunkOK, ChunkType, Cursor

\* Replacing one chunk by a well-formed one.
LEMMA ExceptTable ==
  ASSUME TableOK, NEW i \in Ids, NEW c, ChunkOK(c),
         chunks' = [chunks EXCEPT ![i] = c], nextID' = nextID
  PROVE  /\ TableOK'
         /\ Ids' = Ids
         /\ chunks'[i] = c
         /\ \A j \in Ids \ {i} : chunks'[j] = chunks[j]
<1>1. /\ Ids' = Ids
      /\ chunks'[i] = c
      /\ \A j \in Ids \ {i} : chunks'[j] = chunks[j]
      /\ chunks' = [j \in Ids |-> chunks'[j]]
  BY DEF Ids, TableOK
<1>2. \A j \in Ids : ChunkOK(chunks'[j]) /\ j \in 0 .. nextID - 1
  BY <1>1 DEF TableOK
<1> QED
  BY <1>1, <1>2 DEF TableOK, Ids

\* splitLocked on chunk i: i loses what lies past its middle to a new chunk,
\* and nothing else changes.
LEMMA HalvedTable ==
  ASSUME TableOK, NEW i \in Ids, NEW w \in Workers \cup {NoOne}
  PROVE  LET m == Mid(chunks[i])
             h == Halved(i, w)
         IN  /\ DOMAIN h = Ids \cup {nextID}
             /\ nextID \notin Ids
             /\ h = [j \in DOMAIN h |-> h[j]]
             /\ h[nextID] = NewChunk(m, chunks[i].end, 0, w)
             /\ h[i] = [chunks[i] EXCEPT !.end = m]
             /\ \A j \in Ids \ {i} : h[j] = chunks[j]
             /\ \A j \in DOMAIN h : ChunkOK(h[j]) /\ j \in 0 .. nextID
<1>1. nextID \notin Ids /\ nextID \in Nat
  BY DEF TableOK
<1>2. ChunkOK(chunks[i])
  BY DEF TableOK
<1> DEFINE m == Mid(chunks[i])
           h == Halved(i, w)
<1>3. ChunkOK([chunks[i] EXCEPT !.end = m])
  BY <1>2, MidBounds, WithEnd
<1>4. ChunkOK(NewChunk(m, chunks[i].end, 0, w))
  <2>1. m \in Nat /\ m <= chunks[i].end /\ chunks[i].end \in Nat
    BY <1>2, MidBounds DEF ChunkOK, ChunkType
  <2> QED
    BY <2>1, NewChunkOK
<1>5. /\ DOMAIN h = Ids \cup {nextID}
      /\ h[nextID] = NewChunk(m, chunks[i].end, 0, w)
      /\ h[i] = [chunks[i] EXCEPT !.end = m]
      /\ \A j \in Ids \ {i} : h[j] = chunks[j]
  BY <1>1 DEF Halved
<1>6. \A j \in DOMAIN h : ChunkOK(h[j]) /\ j \in 0 .. nextID
  BY <1>1, <1>3, <1>4, <1>5 DEF TableOK
<1>7. h = [j \in DOMAIN h |-> h[j]]
  BY DEF Halved
<1> QED
  BY <1>1, <1>5, <1>6, <1>7

\* demote's table: with T the surrendered chunks and N the new ids, every
\* remainder moves to a fresh pending chunk, and what it leaves behind is
\* claimed to its end.
MovedAsSaid(N, T, from) ==
    LET m == Moved(from) IN
    /\ DOMAIN m = Ids \cup N
    /\ Range(from) = T
    /\ m = [j \in DOMAIN m |-> m[j]]
    /\ \A j \in N : /\ from[j] \in T
                    /\ m[j] = NewChunk(Cursor(chunks[from[j]]),
                                       chunks[from[j]].end, 0, NoOne)
    /\ \A j \in T : /\ m[j] = [chunks[j] EXCEPT !.end = Cursor(chunks[j])]
                    /\ \E i \in N : from[i] = j
    /\ \A j \in Ids \ T : m[j] = chunks[j]
    /\ \A j \in DOMAIN m : ChunkOK(m[j])

\* Any numbering of the surrendered remainders gives such a table.
LEMMA MovedTable ==
  ASSUME TableOK, NEW T, T \subseteq Ids, NEW N, N \cap Ids = {},
         NEW from \in Bijection(N, T)
  PROVE  MovedAsSaid(N, T, from)
<1>1. DOMAIN from = N /\ Range(from) = T /\ \A j \in N : from[j] \in T
  BY DEF Bijection, Injection, Surjection, Range
<1> DEFINE m == Moved(from)
<1>2. DOMAIN m = Ids \cup N /\ m = [j \in DOMAIN m |-> m[j]]
  BY <1>1 DEF Moved
<1>3. ASSUME NEW j \in N
      PROVE  /\ m[j] = NewChunk(Cursor(chunks[from[j]]), chunks[from[j]].end, 0, NoOne)
             /\ ChunkOK(m[j])
  <2>1. m[j] = NewChunk(Cursor(chunks[from[j]]), chunks[from[j]].end, 0, NoOne)
    BY <1>1, <1>3 DEF Moved
  <2>2. ChunkOK(chunks[from[j]])
    BY <1>1 DEF TableOK
  <2>3. /\ Cursor(chunks[from[j]]) \in Nat /\ chunks[from[j]].end \in Nat
        /\ Cursor(chunks[from[j]]) + 0 <= chunks[from[j]].end
    BY <2>2 DEF ChunkOK, ChunkType, Cursor
  <2> QED
    BY <2>1, <2>3, NewChunkOK
<1>4. ASSUME NEW j \in T
      PROVE  /\ m[j] = [chunks[j] EXCEPT !.end = Cursor(chunks[j])]
             /\ ChunkOK(m[j])
             /\ \E i \in N : from[i] = j
  <2>1. m[j] = [chunks[j] EXCEPT !.end = Cursor(chunks[j])]
    BY <1>1 DEF Moved
  <2>2. ChunkOK(chunks[j]) /\ Cursor(chunks[j]) \in Nat
    BY DEF TableOK, ChunkOK, ChunkType, Cursor
  <2>3. ChunkOK(m[j])
    BY <2>1, <2>2, WithEnd
  <2> QED
    BY <2>1, <2>3, <1>1 DEF Range
<1>5. ASSUME NEW j \in Ids \ T PROVE m[j] = chunks[j] /\ ChunkOK(m[j])
  BY <1>1 DEF Moved, TableOK
<1> HIDE DEF m
<1>6. \A j \in DOMAIN m : ChunkOK(m[j])
  BY <1>2, <1>3, <1>4, <1>5
<1> QED
  BY <1>1, <1>2, <1>3, <1>4, <1>5, <1>6 DEF m, MovedAsSaid

-----------------------------------------------------------------------------
(* The operations keep the types. *)

\* next, whether it grants or turns away, keeps the tables well typed.
LEMMA GrantTypes ==
  ASSUME SchedulerTypeOK, NEW w \in Workers,
         GrantPending(w) \/ GrantSplit(w) \/ TurnAway(w)
  PROVE  SchedulerTypeOK'
<1> USE DEF SchedulerTypeOK
<1>1. CASE TurnAway(w)
  <2>1. TableOK' /\ ShownOK'
    BY <1>1 DEF TurnAway, TableOK, ShownOK, Ids
  <2>2. WorkersOK'
    BY <1>1 DEF TurnAway, Deregister, WorkersOK
  <2> QED
    BY <2>1, <2>2
<1>2. CASE GrantPending(w)
  <2>1. PICK i \in Pending :
          /\ chunks' = [chunks EXCEPT ![i].owner = w]
          /\ shown' = Put(shown, i, Announce(chunks[i]))
    BY <1>2 DEF GrantPending
  <2>2. TableOK'
    <3>1. i \in Ids /\ ChunkOK(chunks[i]) /\ nextID' = nextID
      BY <1>2 DEF GrantPending, Pending, TableOK
    <3>2. ChunkOK([chunks[i] EXCEPT !.owner = w])
      BY <3>1, WithOwner
    <3>3. chunks' = [chunks EXCEPT ![i] = [chunks[i] EXCEPT !.owner = w]]
      BY <2>1
    <3> QED
      BY <3>1, <3>2, <3>3, ExceptTable
  <2>3. Announce(chunks[i]) \in [len: Nat, got: Nat]
    BY <2>1 DEF Announce, TableOK, ChunkOK, ChunkType, Cursor, Pending
  <2>4. ShownOK'
    BY <2>1, <2>3 DEF ShownOK, Put
  <2>5. WorkersOK'
    BY <1>2 DEF GrantPending, Register, WorkersOK
  <2> QED
    BY <2>2, <2>4, <2>5
<1>3. CASE GrantSplit(w)
  <2>1. PICK i \in Largest(Active) :
          /\ chunks' = Halved(i, w)
          /\ shown' = Put([shown EXCEPT ![i] = Shrunk(i, Mid(chunks[i]))],
                          nextID, Announce(Halved(i, w)[nextID]))
    BY <1>3 DEF GrantSplit
  <2>2. i \in Ids /\ nextID' = nextID + 1
    BY <1>3, <2>1 DEF GrantSplit, Largest, Active
  <2> DEFINE h == Halved(i, w)
  <2>3. /\ h = [j \in DOMAIN h |-> h[j]] /\ nextID \in DOMAIN h
        /\ \A j \in DOMAIN h : ChunkOK(h[j]) /\ j \in 0 .. nextID
    BY <2>2, HalvedTable
  <2> HIDE DEF h
  <2>4. TableOK'
    BY <2>1, <2>2, <2>3 DEF TableOK, Ids, h
  <2>5. Announce(h[nextID]) \in [len: Nat, got: Nat]
    BY <2>3 DEF Announce, ChunkOK, ChunkType, Cursor
  <2>6. Mid(chunks[i]) - chunks[i].off \in Nat
    BY <2>2, MidBounds DEF TableOK, ChunkOK, ChunkType, Cursor
  <2>7. ShownOK'
    BY <2>1, <2>5, <2>6 DEF ShownOK, Put, Shrunk, h
  <2>8. WorkersOK'
    BY <1>3 DEF GrantSplit, Register, WorkersOK
  <2> QED
    BY <2>4, <2>7, <2>8
<1> QED
  BY <1>1, <1>2, <1>3

\* claim keeps the tables well typed, however many bytes arrived.
LEMMA ClaimTypes ==
  ASSUME SchedulerTypeOK, NEW i \in Ids, NEW n \in Nat, Claim(i, n)
  PROVE  SchedulerTypeOK'
<1> DEFINE k == Claimable(i, n)
<1>1. k \in Nat /\ k <= Left(chunks[i]) /\ ChunkOK(chunks[i])
  BY MidBounds DEF Claimable, SchedulerTypeOK, TableOK
<1> HIDE DEF k
<1>2. chunks' = [chunks EXCEPT ![i] = [chunks[i] EXCEPT !.done = @ + k]]
  BY DEF Claim, k
<1>3. TableOK'
  BY <1>1, <1>2, WithDone, ExceptTable DEF Claim, SchedulerTypeOK
<1> QED
  BY <1>3 DEF SchedulerTypeOK, ShownOK, WorkersOK, Claim

\* Counting the landed bytes and reporting them keeps the tables well typed.
LEMMA CountTypes ==
  ASSUME SchedulerTypeOK, NEW i \in Ids, Count(i)
  PROVE  SchedulerTypeOK'
<1>1. ChunkOK(chunks[i])
  BY DEF SchedulerTypeOK, TableOK
<1>2. chunks' = [chunks EXCEPT ![i] = [chunks[i] EXCEPT !.written = chunks[i].done]]
  BY DEF Count
<1>3. TableOK'
  BY <1>1, <1>2, WithWritten, ExceptTable DEF Count, SchedulerTypeOK
<1>4. chunks[i].done - chunks[i].written \in Nat
  BY <1>1 DEF ChunkOK, ChunkType
<1>5. ShownOK'
  BY <1>4 DEF Count, ShownOK, SchedulerTypeOK
<1> QED
  BY <1>3, <1>5 DEF SchedulerTypeOK, WorkersOK, Count

\* Completing a chunk takes it, and only it, out of the table.
LEMMA WithoutTable ==
  ASSUME SchedulerTypeOK, NEW i \in Ids,
         chunks' = Without(i), shown' = Closed(i), nextID' = nextID
  PROVE  /\ Ids' = Ids \ {i}
         /\ \A j \in Ids' : chunks'[j] = chunks[j]
         /\ TableOK' /\ ShownOK'
<1>1. Ids' = Ids \ {i} /\ \A j \in Ids' : chunks'[j] = chunks[j]
  BY DEF Ids, Without, Restrict
<1>2. TableOK'
  BY <1>1 DEF SchedulerTypeOK, TableOK, Without, Restrict, Ids
<1>3. ShownOK'
  BY DEF SchedulerTypeOK, ShownOK, Closed, Restrict
<1> QED
  BY <1>1, <1>2, <1>3

\* Deregistration keeps the sets of live and retiring workers well typed.
LEMMA DeregisterTypes ==
  ASSUME SchedulerTypeOK, NEW w \in Workers, Deregister(w), limit' = limit
  PROVE  WorkersOK'
  BY DEF Deregister, WorkersOK, SchedulerTypeOK

\* The ids of the table are finitely many, and demote's new ids are fresh.
LEMMA FiniteIds ==
  ASSUME TableOK
  PROVE  /\ IsFiniteSet(Ids)
         /\ \A T \in SUBSET Ids : IsFiniteSet(T) /\ Cardinality(T) \in Nat
<1>1. IsFiniteSet(0 .. nextID - 1)
  <2>1. nextID - 1 \in Int
    BY DEF TableOK
  <2> QED
    BY <2>1, FS_Interval
<1>2. Ids \subseteq 0 .. nextID - 1
  BY DEF TableOK
<1>3. \A T \in SUBSET Ids : IsFiniteSet(T) /\ Cardinality(T) \in Nat
  BY <1>1, <1>2, FS_Subset, FS_CardinalityType
<1> QED
  BY <1>3

\* The ids demote hands to the remainders are not in use.
LEMMA FreshIdsAreFresh ==
  ASSUME TableOK, NEW k \in Nat
  PROVE  FreshIds(k) \in SUBSET Nat /\ FreshIds(k) \cap Ids = {}
  BY DEF TableOK, FreshIds

\* demote keeps the tables well typed, whatever flow target it is given.
LEMMA DemoteTypes ==
  ASSUME SchedulerTypeOK, NEW keep \in Nat, Demote(keep)
  PROVE  SchedulerTypeOK'
<1> DEFINE T == Surrendered(keep)
           k == Cardinality(T)
           N == FreshIds(k)
<1>1. T \in SUBSET Ids /\ k \in Nat
  BY FiniteIds DEF Surrendered, Active, SchedulerTypeOK
<1>2. PICK from \in Bijection(N, T) :
        /\ chunks' = Moved(from)
        /\ shown' = [i \in DOMAIN shown |->
                       IF i \in Range(from) THEN Shrunk(i, Cursor(chunks[i]))
                                            ELSE shown[i]]
  BY DEF Demote
<1>3. nextID' = nextID + k
  BY DEF Demote
<1>4. N \in SUBSET Nat /\ N \cap Ids = {} /\ \A j \in N : j \in 0 .. nextID + k - 1
  BY <1>1, FreshIdsAreFresh DEF SchedulerTypeOK, TableOK, FreshIds
<1> HIDE DEF T, k, N
<1>5. MovedAsSaid(N, T, from)
  BY <1>1, <1>2, <1>4, MovedTable DEF SchedulerTypeOK
<1>6. TableOK'
  BY <1>1, <1>2, <1>3, <1>4, <1>5 DEF MovedAsSaid, SchedulerTypeOK, TableOK, Ids
<1>7. ShownOK'
  <2>1. ASSUME NEW i \in T PROVE Cursor(chunks[i]) - chunks[i].off \in Nat
    BY <1>1 DEF SchedulerTypeOK, TableOK, ChunkOK, ChunkType, Cursor
  <2> QED
    BY <1>2, <1>5, <2>1 DEF MovedAsSaid, SchedulerTypeOK, ShownOK, Shrunk
<1>8. WorkersOK'
  BY DEF Demote, Victims, NonRetiring, SchedulerTypeOK, WorkersOK
<1> QED
  BY <1>6, <1>7, <1>8 DEF SchedulerTypeOK

\* prepare's split of a pending chunk.
LEMMA PrepareTypes ==
  ASSUME SchedulerTypeOK, NEW n, PrepareSplit(n)
  PROVE  SchedulerTypeOK'
<1>1. PICK i \in Ids : chunks' = Halved(i, NoOne)
  BY DEF PrepareSplit, Largest, Pending
<1> DEFINE h == Halved(i, NoOne)
<1>2. /\ h = [j \in DOMAIN h |-> h[j]]
      /\ \A j \in DOMAIN h : ChunkOK(h[j]) /\ j \in 0 .. nextID
  BY <1>1, HalvedTable DEF SchedulerTypeOK
<1> HIDE DEF h
<1>3. TableOK'
  BY <1>1, <1>2 DEF PrepareSplit, SchedulerTypeOK, TableOK, Ids, h
<1> QED
  BY <1>3 DEF PrepareSplit, SchedulerTypeOK, ShownOK, WorkersOK

\* The table a run starts from: each range becomes one settled pending chunk.
LEMMA SeededTable ==
  ASSUME NEW U, IsFiniteSet(U),
         \A s \in U : s \in [off: Nat, end: Nat, done: Nat] /\ s.off + s.done <= s.end,
         NEW order \in Bijection(0 .. Cardinality(U) - 1, U),
         AddPending(order)
  PROVE  /\ SchedulerTypeOK'
         /\ \A i \in Ids' : /\ order[i] \in U
                            /\ chunks'[i] = NewChunk(order[i].off, order[i].end,
                                                     order[i].done, NoOne)
         /\ \A s \in U : \E i \in Ids' : order[i] = s
<1> DEFINE k == Cardinality(U)
<1>1. k \in Nat /\ Cardinality(0 .. k - 1) = k
  BY FS_CardinalityType, FS_Interval
<1>2. /\ DOMAIN order = 0 .. k - 1
      /\ \A i \in 0 .. k - 1 : order[i] \in U
      /\ \A s \in U : \E i \in 0 .. k - 1 : order[i] = s
  BY DEF Bijection, Injection, Surjection
<1> HIDE DEF k
<1>3. /\ Ids' = 0 .. k - 1 /\ nextID' = k
      /\ chunks' = [i \in 0 .. k - 1 |-> NewChunk(order[i].off, order[i].end,
                                                  order[i].done, NoOne)]
  BY <1>1, <1>2 DEF AddPending, Seeded, Ids
<1>4. \A i \in 0 .. k - 1 : ChunkOK(chunks'[i])
  <2> TAKE i \in 0 .. k - 1
  <2>1. order[i] \in [off: Nat, end: Nat, done: Nat] /\ order[i].off + order[i].done <= order[i].end
    BY <1>2
  <2> QED
    BY <1>3, <2>1, NewChunkOK
<1>5. TableOK'
  BY <1>1, <1>3, <1>4 DEF TableOK
<1>6. ShownOK' /\ WorkersOK'
  BY DEF AddPending, ShownOK, WorkersOK
<1> QED
  BY <1>2, <1>3, <1>5, <1>6 DEF SchedulerTypeOK

-----------------------------------------------------------------------------
(* The invariant, step by step. *)

\* The owner of an active chunk is a worker.
LEMMA OwnersAreWorkers ==
  IInv => \A i \in Active : chunks[i].owner \in Workers
  BY DEF IInv, TypeOK, SchedulerTypeOK, TableOK, ChunkOK, ChunkType, Active, Pending

-----------------------------------------------------------------------------
(* Steps of a worker that only change its own state. *)

\* Worker w moves on to l, and is taken off the books if it leaves.
LEMMA Aside ==
  ASSUME IInv, phase = "run",
         NEW w \in Workers, NEW l \in Labels \ {"broken", "write", "count"},
         pc' = [pc EXCEPT ![w] = l],
         pc[w] \notin Free => l \notin Free,
         pc[w] \in Unsettled => l \in Unsettled,
         pc[w] \in Out => l \in Out,
         l = "finish" => \A i \in Active : Holds(w, i) => Left(chunks[i]) = 0,
         last' \in [Workers -> BOOLEAN],
         \A v \in Workers \ {w} : last'[v] = last[v],
         tries' \in [Workers -> Nat], heard' \in [Workers -> BOOLEAN],
         \/ UNCHANGED <<live, retiring>>
         \/ Deregister(w) /\ l \in Out,
         UNCHANGED <<chunks, nextID, limit, shown>>,
         UNCHANGED <<ctxVars, fileVars, flushVars, runVars>>
  PROVE  IInv'
<1> USE DEF ctxVars, fileVars, flushVars, runVars
<1>1. TypeOK'
  <2>1. TableOK' /\ ShownOK'
    BY DEF IInv, TypeOK, SchedulerTypeOK, TableOK, ShownOK, Ids
  <2>2. WorkersOK'
    BY DEF IInv, TypeOK, SchedulerTypeOK, WorkersOK, Deregister
  <2> QED
    BY <2>1, <2>2 DEF IInv, TypeOK, SchedulerTypeOK
<1>2. OneChunkEach'
  BY DEF IInv, OneChunkEach, Active, Pending, Ids
<1>3. InsideFile'
  BY DEF IInv, InsideFile, Ids
<1>4. FreeHandsEmpty'
  BY OwnersAreWorkers DEF IInv, TypeOK, FreeHandsEmpty, Active, Pending, Ids
<1>5. UnsettledIsHeld'
  BY OwnersAreWorkers DEF IInv, TypeOK, UnsettledIsHeld, Active, Pending, Ids
<1>6. CountedIsLanded'
  BY OwnersAreWorkers
  DEF IInv, TypeOK, CountedIsLanded, Active, Pending, Ids, InFlight, Cursor
<1>7. FinishedIsFull'
  BY OwnersAreWorkers
  DEF IInv, TypeOK, FinishedIsFull, Active, Pending, Ids, Left, Cursor, Holds
<1>8. Covered'
  BY DEF IInv, Covered, Ids, Missing, Bytes
<1>9. QuietStart'
  BY DEF IInv, QuietStart, Active, Pending, Ids
<1>10. RetiringIsDrained'
  BY DEF IInv, RetiringIsDrained, Active, Pending, Ids, Left, Cursor, Deregister
<1>11. WokenIsRetiring'
  BY DEF IInv, WokenIsRetiring, TypeOK, Deregister
<1>12. SidecarSound' /\ SuccessMeansWhole' /\ RetirementIsClean'
  BY DEF IInv, SidecarSound, Covers, SuccessMeansWhole, RetirementIsClean, Bytes
<1> QED
  BY <1>1, <1>2, <1>3, <1>4, <1>5, <1>6, <1>7, <1>8, <1>9, <1>10, <1>11, <1>12
  DEF IInv

\* When downloadChunk returns, its worker's locals are of their types again.
LEMMA ForgetTypes ==
  ASSUME IInv, NEW w \in Workers, ForgetAttempts(w)
  PROVE  /\ last' \in [Workers -> BOOLEAN]
         /\ \A v \in Workers \ {w} : last'[v] = last[v]
         /\ tries' \in [Workers -> Nat] /\ heard' \in [Workers -> BOOLEAN]
  BY DEF ForgetAttempts, IInv, TypeOK

\* The steps of a worker that leave the chunk table alone preserve the invariant.
LEMMA MovesAside ==
  ASSUME IInv, NEW w \in Workers,
         \/ CheckCtx(w) \/ Fetch(w) \/ WriteFails(w) \/ Charge(w)
         \/ WaitOutThrottle(w) \/ WakeUp(w) \/ Abort(w) \/ Permanent(w)
         \/ \E g \in Workers : Spawn(g, w)
  PROVE  IInv'
<1> USE Aside DEF At, Goto, Free, Out, Unsettled, Labels, IInv, TypeOK, schedVars
<1>1. CASE CheckCtx(w)
  <2>1. CASE CtxDone(w)
    BY <1>1, <2>1 DEF CheckCtx
  <2>2. CASE ~CtxDone(w)
    BY <1>1, <2>2 DEF CheckCtx
  <2> QED
    BY <2>1, <2>2
<1>2. CASE Fetch(w)
  <2>1. PICK i \in Active :
          /\ Holds(w, i)
          /\ Goto(w, IF Left(chunks[i]) > 0 THEN "read" ELSE "finish")
    BY <1>2 DEF Fetch
  <2>2. CASE Left(chunks[i]) > 0
    BY <1>2, <2>1, <2>2 DEF Fetch
  <2>3. CASE ~(Left(chunks[i]) > 0)
    <3>1. Left(chunks[i]) = 0
      BY <2>1, <2>3, MidBounds DEF SchedulerTypeOK, TableOK, Active
    <3>2. \A j \in Active : Holds(w, j) => Left(chunks[j]) = 0
      BY <2>1, <3>1 DEF OneChunkEach, Holds
    <3> QED
      BY <1>2, <2>1, <2>3, <3>2 DEF Fetch
  <2> QED
    BY <2>2, <2>3
<1>3. CASE WriteFails(w)
  BY <1>3 DEF WriteFails
<1>4. CASE Charge(w)
  <2>1. CASE tries[w] + 1 >= MaxRetries
    BY <1>4, <2>1 DEF Charge
  <2>2. CASE ~(tries[w] + 1 >= MaxRetries)
    BY <1>4, <2>2 DEF Charge
  <2> QED
    BY <2>1, <2>2
<1>5. CASE WaitOutThrottle(w)
  BY <1>5 DEF WaitOutThrottle
<1>6. CASE WakeUp(w)
  BY <1>6 DEF WakeUp
<1>7. CASE Abort(w)
  BY <1>7 DEF Abort
<1>8. CASE Permanent(w)
  BY <1>8 DEF Permanent
<1>9. CASE \E g \in Workers : Spawn(g, w)
  <2>1. phase = "run" /\ pc[w] = "unborn" /\ pc' = [pc EXCEPT ![w] = "top"]
    BY <1>9 DEF Spawn
  <2> QED
    BY <1>9, <2>1 DEF Spawn
<1> QED
  BY <1>1, <1>2, <1>3, <1>4, <1>5, <1>6, <1>7, <1>8, <1>9

-----------------------------------------------------------------------------
(* Steps that reshape the table: what is in flight stays in flight. *)

\* d is what c became when its unclaimed remainder was cut.
Cut(c, d) ==
    /\ d.off = c.off /\ d.done = c.done /\ d.written = c.written
    /\ d.owner = c.owner /\ d.end <= c.end

\* Every missing byte is still some chunk's to bring.
StillMissing ==
    \A i \in Ids : \A b \in Missing(chunks[i]) :
        \E j \in Ids' : b \in Missing(chunks'[j])

\* Worker w takes chunk i while other chunks may be cut.
LEMMA Granted ==
  ASSUME IInv, phase = "run", SchedulerTypeOK', StillMissing,
         NEW w \in Workers, pc[w] = "next", pc' = [pc EXCEPT ![w] = "fetch"],
         w \notin retiring, retiring' = retiring,
         NEW i \in Ids',
         chunks'[i].owner = w, chunks'[i].written = chunks'[i].done,
         chunks'[i].end <= Total,
         \A j \in Ids' \ {i} : j \in Ids /\ Cut(chunks[j], chunks'[j]),
         UNCHANGED <<last, tries, heard, ctxVars, fileVars, flushVars, runVars>>
  PROVE  IInv'
<1> USE DEF ctxVars, fileVars, flushVars, runVars
<1>1. TypeOK'
  BY DEF IInv, TypeOK, Labels
<1>2. \A j \in Active' \ {i} : j \in Active /\ Cut(chunks[j], chunks'[j])
  BY DEF Active, Pending, Cut
<1>3. \A j \in Active' \ {i} : chunks'[j].owner \in Workers \ {w}
  BY <1>2, OwnersAreWorkers DEF Cut, IInv, FreeHandsEmpty, Free
<1>4. OneChunkEach'
  BY <1>2, <1>3 DEF IInv, OneChunkEach, Cut
<1>5. InsideFile'
  <2>1. \A j \in Ids' : chunks'[j].end \in Nat
    BY DEF SchedulerTypeOK, TableOK, ChunkOK, ChunkType
  <2>2. \A j \in Ids' \ {i} : chunks'[j].end <= Total
    <3> TAKE j \in Ids' \ {i}
    <3>1. chunks'[j].end <= chunks[j].end /\ chunks[j].end <= Total /\ chunks[j].end \in Nat
      BY DEF IInv, InsideFile, Cut, TypeOK, SchedulerTypeOK, TableOK, ChunkOK, ChunkType
    <3> QED
      BY <2>1, <3>1, TotalAssumption
  <2> QED
    BY <2>2 DEF IInv, InsideFile
<1>6. FreeHandsEmpty'
  BY <1>2, <1>3 DEF IInv, TypeOK, FreeHandsEmpty, Cut, Free
<1>7. UnsettledIsHeld'
  <2> SUFFICES ASSUME NEW j \in Ids', chunks'[j].written # chunks'[j].done
               PROVE  j \in Active' /\ pc'[chunks'[j].owner] \in Unsettled
    BY DEF UnsettledIsHeld
  <2>1. j \in Ids \ {i} /\ Cut(chunks[j], chunks'[j])
    OBVIOUS
  <2>2. j \in Active /\ pc[chunks[j].owner] \in Unsettled
    BY <2>1 DEF IInv, UnsettledIsHeld, Cut
  <2>3. j \in Active'
    BY <2>1, <2>2 DEF Active, Pending, Cut
  <2> QED
    BY <1>3, <2>1, <2>2, <2>3 DEF Cut, IInv, TypeOK
<1>8. CountedIsLanded'
  BY <1>2, <1>3 DEF IInv, TypeOK, CountedIsLanded, Cut, InFlight, Cursor
<1>9. FinishedIsFull'
  <2> SUFFICES ASSUME NEW j \in Active',
                      \/ pc'[chunks'[j].owner] = "finish"
                      \/ pc'[chunks'[j].owner] \in {"write", "count"} /\ last'[chunks'[j].owner]
               PROVE  Left(chunks'[j]) = 0
    BY DEF FinishedIsFull, Left, Cursor
  <2>1. j # i
    BY DEF IInv, TypeOK
  <2>2. Left(chunks[j]) = 0
    BY <2>1, <1>2, <1>3 DEF IInv, TypeOK, FinishedIsFull, Cut
  <2>3. ChunkOK(chunks[j]) /\ ChunkOK(chunks'[j])
    BY <2>1, <1>2 DEF IInv, TypeOK, SchedulerTypeOK, TableOK, Active
  <2> QED
    BY <2>1, <2>2, <2>3, <1>2 DEF Cut, ChunkOK, ChunkType, Left, Cursor
<1>10. Covered'
  BY DEF IInv, Covered, StillMissing, Bytes
<1>11. QuietStart'
  BY DEF IInv, QuietStart
<1>12. RetiringIsDrained'
  <2> SUFFICES ASSUME NEW j \in Active', chunks'[j].owner \in retiring
               PROVE  Left(chunks'[j]) = 0
    BY DEF RetiringIsDrained
  <2>1. j # i
    OBVIOUS
  <2>2. Left(chunks[j]) = 0
    BY <2>1, <1>2 DEF IInv, RetiringIsDrained, Cut
  <2>3. ChunkOK(chunks[j]) /\ ChunkOK(chunks'[j])
    BY <2>1, <1>2 DEF IInv, TypeOK, SchedulerTypeOK, TableOK, Active
  <2> QED
    BY <2>1, <2>2, <2>3, <1>2 DEF Cut, ChunkOK, ChunkType, Left, Cursor
<1>13. WokenIsRetiring'
  BY DEF IInv, WokenIsRetiring, TypeOK, Out
<1>14. SidecarSound' /\ SuccessMeansWhole' /\ RetirementIsClean'
  BY DEF IInv, SidecarSound, Covers, SuccessMeansWhole, RetirementIsClean, Bytes
<1> QED
  BY <1>1, <1>4, <1>5, <1>6, <1>7, <1>8, <1>9, <1>10, <1>11, <1>12, <1>13, <1>14
  DEF IInv

\* next preserves the invariant: a grant, a steal and a refusal alike.
LEMMA CallNextInv ==
  ASSUME IInv, NEW w \in Workers, CallNext(w)
  PROVE  IInv'
<1>1. SchedulerTypeOK' /\ SchedulerTypeOK /\ TableOK
  BY GrantTypes DEF CallNext, IInv, TypeOK, SchedulerTypeOK
<1>2. phase = "run" /\ pc[w] = "next"
  BY DEF CallNext, At
<1>3. CASE TurnAway(w) /\ Goto(w, "gone")
  BY <1>2, <1>3, Aside
  DEF CallNext, TurnAway, Goto, Free, Out, Unsettled, Labels, IInv, TypeOK
<1>4. CASE GrantPending(w) /\ Goto(w, "fetch")
  <2>1. PICK i \in Pending : chunks' = [chunks EXCEPT ![i].owner = w]
    BY <1>4 DEF GrantPending
  <2>2. /\ i \in Ids /\ ChunkOK(chunks[i])
        /\ chunks[i].written = chunks[i].done /\ chunks[i].end <= Total
    BY <1>1, <2>1 DEF Pending, TableOK, IInv, UnsettledIsHeld, Active, InsideFile
  <2>3. /\ Ids' = Ids
        /\ chunks'[i] = [chunks[i] EXCEPT !.owner = w]
        /\ \A j \in Ids \ {i} : chunks'[j] = chunks[j]
    BY <1>1, <2>1, <2>2 DEF TableOK, Ids
  <2>4. /\ chunks'[i].owner = w /\ chunks'[i].written = chunks'[i].done
        /\ chunks'[i].end = chunks[i].end /\ chunks'[i].off = chunks[i].off
        /\ chunks'[i].written = chunks[i].written
    BY <2>2, <2>3, WithOwner
  <2>5. StillMissing
    BY <2>3, <2>4 DEF StillMissing, Missing
  <2>6. \A j \in Ids' \ {i} : j \in Ids /\ Cut(chunks[j], chunks'[j])
    BY <1>1, <2>3 DEF Cut, TableOK, ChunkOK, ChunkType
  <2>7. w \notin retiring /\ retiring' = retiring
    BY <1>4 DEF GrantPending, MustLeave, Register
  <2> QED
    BY <1>1, <1>2, <1>4, <2>2, <2>3, <2>4, <2>5, <2>6, <2>7, Granted DEF CallNext, Goto
<1>5. CASE GrantSplit(w) /\ Goto(w, "fetch")
  <2>1. PICK i \in Ids : chunks' = Halved(i, w)
    BY <1>5 DEF GrantSplit, Largest, Active
  <2>2. ChunkOK(chunks[i]) /\ chunks[i].end <= Total
    BY <1>1 DEF TableOK, IInv, InsideFile
  <2> DEFINE m == Mid(chunks[i])
  <2>3. /\ m \in Nat /\ m <= chunks[i].end /\ Cursor(chunks[i]) <= m
        /\ chunks[i].end \in Nat
    BY <2>2, MidBounds DEF ChunkOK, ChunkType
  <2>4. /\ Ids' = Ids \cup {nextID} /\ nextID \notin Ids
        /\ chunks'[nextID] = NewChunk(m, chunks[i].end, 0, w)
        /\ chunks'[i] = [chunks[i] EXCEPT !.end = m]
        /\ \A j \in Ids \ {i} : chunks'[j] = chunks[j]
    BY <1>1, <2>1, HalvedTable DEF Ids
  <2> HIDE DEF m
  <2>5. /\ chunks'[nextID].owner = w /\ chunks'[nextID].written = 0
        /\ chunks'[nextID].done = 0 /\ chunks'[nextID].off = m
        /\ chunks'[nextID].end = chunks[i].end
    BY <2>3, <2>4, NewChunkOK
  <2>6. Cut(chunks[i], chunks'[i]) /\ chunks'[i].end = m
    BY <2>2, <2>3, <2>4, WithEnd DEF Cut
  <2>7. \A j \in Ids' \ {nextID} : j \in Ids /\ Cut(chunks[j], chunks'[j])
    BY <1>1, <2>4, <2>6 DEF Cut, TableOK, ChunkOK, ChunkType
  <2>8. StillMissing
    <3> SUFFICES ASSUME NEW k \in Ids, NEW b \in Missing(chunks[k])
                 PROVE  \E j \in Ids' : b \in Missing(chunks'[j])
      BY DEF StillMissing
    <3>1. CASE k # i
      BY <2>4, <3>1
    <3>2. CASE k = i
      <4>1. b \in Int /\ chunks[i].off + chunks[i].written <= b /\ b < chunks[i].end
        BY <2>2, <3>2 DEF Missing, ChunkOK, ChunkType
      <4>2. CASE b < m
        BY <2>2, <2>3, <2>4, <2>6, <4>1, <4>2 DEF Missing, Cut, ChunkOK, ChunkType
      <4>3. CASE ~(b < m)
        BY <2>2, <2>3, <2>4, <2>5, <4>1, <4>3 DEF Missing, ChunkOK, ChunkType
      <4> QED
        BY <4>2, <4>3
    <3> QED
      BY <3>1, <3>2
  <2>9. w \notin retiring /\ retiring' = retiring
    BY <1>5 DEF GrantSplit, MustLeave, Register
  <2> QED
    BY <1>1, <1>2, <1>5, <2>2, <2>4, <2>5, <2>7, <2>8, <2>9, Granted DEF CallNext, Goto
<1> QED
  BY <1>3, <1>4, <1>5 DEF CallNext

-----------------------------------------------------------------------------
(* Steps of a worker on its own chunk. *)

\* Worker w advances chunk i, which it holds, and moves on to l.
LEMMA Advanced ==
  ASSUME IInv, phase = "run", SchedulerTypeOK',
         NEW w \in Workers, NEW l \in Labels \ (Free \cup {"broken"}),
         pc' = [pc EXCEPT ![w] = l], pc[w] \notin Out,
         NEW i \in Active, chunks[i].owner = w,
         Ids' = Ids, \A j \in Ids \ {i} : chunks'[j] = chunks[j],
         chunks'[i].off = chunks[i].off, chunks'[i].end = chunks[i].end,
         chunks'[i].owner = w,
         disk \subseteq disk', disk' \subseteq Bytes,
         chunks'[i].written # chunks'[i].done => l \in Unsettled,
         l = "count" => InFlight(chunks'[i]) \subseteq disk',
         l = "finish" \/ (l \in {"write", "count"} /\ last'[w]) => Left(chunks'[i]) = 0,
         \A b \in Missing(chunks[i]) : b \in Missing(chunks'[i]) \/ b \in disk',
         Left(chunks[i]) = 0 => Left(chunks'[i]) = 0,
         last' \in [Workers -> BOOLEAN],
         \A v \in Workers \ {w} : last'[v] = last[v],
         tries' \in [Workers -> Nat], heard' \in [Workers -> BOOLEAN],
         UNCHANGED <<live, retiring, ctxVars, side, flushVars, runVars>>
  PROVE  IInv'
<1> USE DEF ctxVars, flushVars, runVars
<1>1. TypeOK'
  BY DEF IInv, TypeOK
<1>2. Active' = Active /\ \A j \in Active \ {i} : chunks'[j] = chunks[j]
  <2>1. NoOne \notin Workers
    BY DEF NoOne, Workers
  <2> QED
    BY <2>1 DEF Active, Pending
<1>3. \A j \in Active \ {i} : chunks[j].owner \in Workers \ {w}
  BY OwnersAreWorkers DEF IInv, OneChunkEach
<1>4. OneChunkEach'
  BY <1>2, <1>3 DEF IInv, OneChunkEach
<1>5. InsideFile'
  BY DEF IInv, InsideFile, Active
<1>6. FreeHandsEmpty'
  BY <1>2, <1>3 DEF IInv, TypeOK, FreeHandsEmpty
<1>7. UnsettledIsHeld'
  <2> SUFFICES ASSUME NEW j \in Ids, chunks'[j].written # chunks'[j].done
               PROVE  j \in Active /\ pc'[chunks'[j].owner] \in Unsettled
    BY <1>2 DEF UnsettledIsHeld
  <2>1. CASE j = i
    BY <2>1 DEF IInv, TypeOK
  <2>2. CASE j # i
    BY <2>2, <1>3 DEF IInv, UnsettledIsHeld, TypeOK
  <2> QED
    BY <2>1, <2>2
<1>8. CountedIsLanded'
  <2> SUFFICES ASSUME NEW j \in Active, pc'[chunks'[j].owner] = "count"
               PROVE  InFlight(chunks'[j]) \subseteq disk'
    BY <1>2 DEF CountedIsLanded, InFlight, Cursor
  <2>1. CASE j = i
    BY <2>1 DEF IInv, TypeOK
  <2>2. CASE j # i
    BY <2>2, <1>2, <1>3 DEF IInv, CountedIsLanded, TypeOK
  <2> QED
    BY <2>1, <2>2
<1>9. FinishedIsFull'
  <2> SUFFICES ASSUME NEW j \in Active,
                      \/ pc'[chunks'[j].owner] = "finish"
                      \/ pc'[chunks'[j].owner] \in {"write", "count"} /\ last'[chunks'[j].owner]
               PROVE  Left(chunks'[j]) = 0
    BY <1>2 DEF FinishedIsFull, Left, Cursor
  <2>1. CASE j = i
    BY <2>1 DEF IInv, TypeOK
  <2>2. CASE j # i
    BY <2>2, <1>2, <1>3 DEF IInv, FinishedIsFull, TypeOK
  <2> QED
    BY <2>1, <2>2
<1>10. Covered'
  <2> SUFFICES ASSUME phase' \notin {"open", "wiped"}, NEW b \in Bytes, b \notin disk'
               PROVE  \E j \in Ids' : b \in Missing(chunks'[j])
    BY DEF Covered, Bytes
  <2>1. PICK j \in Ids : b \in Missing(chunks[j])
    BY DEF IInv, Covered
  <2> QED
    BY <2>1
<1>11. QuietStart'
  BY DEF IInv, QuietStart
<1>12. RetiringIsDrained'
  BY <1>2 DEF IInv, RetiringIsDrained
<1>13. WokenIsRetiring'
  BY DEF IInv, WokenIsRetiring, TypeOK
<1>14. SidecarSound' /\ SuccessMeansWhole' /\ RetirementIsClean'
  BY DEF IInv, SidecarSound, Covers, SuccessMeansWhole, RetirementIsClean, Bytes
<1> QED
  BY <1>1, <1>4, <1>5, <1>6, <1>7, <1>8, <1>9, <1>10, <1>11, <1>12, <1>13, <1>14
  DEF IInv

\* Worker w completes chunk i, which it holds, and moves on to l.
LEMMA Completed ==
  ASSUME IInv, phase = "run",
         NEW w \in Workers, NEW l \in Labels \ {"broken"},
         pc' = [pc EXCEPT ![w] = l], pc[w] \notin Out,
         NEW i \in Active, chunks[i].owner = w,
         chunks[i].written = chunks[i].done, Left(chunks[i]) = 0,
         chunks' = Without(i), shown' = Closed(i), UNCHANGED <<nextID, limit>>,
         \/ UNCHANGED <<live, retiring>>
         \/ Deregister(w) /\ l \in Out,
         ForgetAttempts(w),
         UNCHANGED <<ctxVars, fileVars, flushVars, runVars>>
  PROVE  IInv'
<1> USE DEF ctxVars, fileVars, flushVars, runVars
<1>0. SchedulerTypeOK /\ i \in Ids
  BY DEF IInv, TypeOK, Active
<1>1. Ids' = Ids \ {i} /\ \A j \in Ids' : chunks'[j] = chunks[j]
  BY <1>0, WithoutTable
<1>2. TypeOK'
  <2>1. TableOK' /\ ShownOK'
    BY <1>0, WithoutTable
  <2>2. WorkersOK'
    BY <1>0, DeregisterTypes DEF SchedulerTypeOK, WorkersOK
  <2> QED
    BY <2>1, <2>2, ForgetTypes DEF IInv, TypeOK, SchedulerTypeOK
<1>3. Active' = Active \ {i} /\ \A j \in Active' : chunks'[j] = chunks[j]
  BY <1>1 DEF Active, Pending
<1>4. \A j \in Active' : chunks'[j].owner \in Workers \ {w}
  BY <1>3, OwnersAreWorkers DEF IInv, OneChunkEach
<1>5. OneChunkEach'
  BY <1>3 DEF IInv, OneChunkEach
<1>6. InsideFile'
  BY <1>1 DEF IInv, InsideFile
<1>7. FreeHandsEmpty'
  BY <1>3, <1>4 DEF IInv, TypeOK, FreeHandsEmpty
<1>8. UnsettledIsHeld'
  BY <1>1, <1>3, <1>4 DEF IInv, TypeOK, UnsettledIsHeld
<1>9. CountedIsLanded'
  BY <1>3, <1>4 DEF IInv, TypeOK, CountedIsLanded
<1>10. FinishedIsFull'
  BY <1>3, <1>4, ForgetTypes DEF IInv, TypeOK, FinishedIsFull
<1>11. Covered'
  <2>1. Missing(chunks[i]) = {}
    BY <1>0 DEF SchedulerTypeOK, TableOK, ChunkOK, ChunkType, Left, Cursor, Missing
  <2> QED
    BY <2>1, <1>1 DEF IInv, Covered, Bytes
<1>12. QuietStart'
  BY DEF IInv, QuietStart
<1>13. RetiringIsDrained'
  BY <1>3 DEF IInv, RetiringIsDrained, Deregister
<1>14. WokenIsRetiring'
  BY DEF IInv, WokenIsRetiring, TypeOK, Deregister
<1>15. SidecarSound' /\ SuccessMeansWhole' /\ RetirementIsClean'
  BY DEF IInv, SidecarSound, Covers, SuccessMeansWhole, RetirementIsClean, Bytes
<1> QED
  BY <1>2, <1>5, <1>6, <1>7, <1>8, <1>9, <1>10, <1>11, <1>12, <1>13, <1>14, <1>15
  DEF IInv

\* The arrival and claim of a buffer preserve the invariant.
LEMMA ReadInv ==
  ASSUME IInv, NEW w \in Workers, NEW n \in 1 .. BufMax, Read(w, n)
  PROVE  IInv'
<1>1. phase = "run" /\ pc[w] = "read"
  BY DEF Read, At
<1>2. PICK i \in Active :
        /\ Holds(w, i)
        /\ Claim(i, n)
        /\ last' = [last EXCEPT ![w] = Left(chunks[i]) <= Claimable(i, n)]
        /\ Goto(w, IF Claimable(i, n) > 0 THEN "write" ELSE "finish")
  BY DEF Read
<1>3. i \in Ids /\ chunks[i].owner = w /\ ChunkOK(chunks[i]) /\ n \in Nat /\ n > 0
  BY <1>2, PoolAssumption
  DEF Holds, IInv, TypeOK, SchedulerTypeOK, TableOK
<1> DEFINE k == Claimable(i, n)
           l == IF k > 0 THEN "write" ELSE "finish"
           d == [chunks[i] EXCEPT !.done = @ + k]
<1>4. /\ k \in Nat /\ k <= Left(chunks[i]) /\ Left(chunks[i]) \in Nat
      /\ k = 0 => Left(chunks[i]) = 0
  BY <1>3, MidBounds DEF Claimable
<1>5. /\ chunks' = [chunks EXCEPT ![i] = d]
      /\ last'[w] => Left(chunks[i]) <= k
      /\ pc' = [pc EXCEPT ![w] = l]
  BY <1>2 DEF Claim, Goto, IInv, TypeOK
<1> HIDE DEF k
<1>6. /\ ChunkOK(d)
      /\ d.end = chunks[i].end /\ d.off = chunks[i].off
      /\ d.done = chunks[i].done + k
      /\ d.written = chunks[i].written /\ d.owner = chunks[i].owner
  BY <1>3, <1>4, WithDone
<1> HIDE DEF d
<1>7. /\ Ids' = Ids /\ chunks'[i] = d
      /\ \A j \in Ids \ {i} : chunks'[j] = chunks[j]
  BY <1>3, <1>5 DEF Ids, IInv, TypeOK, SchedulerTypeOK, TableOK
<1>8. SchedulerTypeOK'
  BY <1>2, <1>3, ClaimTypes DEF IInv, TypeOK
<1>9. chunks[i].written = chunks[i].done
  BY <1>1, <1>3 DEF IInv, UnsettledIsHeld, Unsettled
<1>10. d.written # d.done => l \in Unsettled
  BY <1>3, <1>4, <1>6, <1>9 DEF Unsettled, ChunkOK, ChunkType
<1>11. Left(d) = Left(chunks[i]) - k
  BY <1>3, <1>4, <1>6 DEF Left, Cursor, ChunkOK, ChunkType
<1>12. l = "finish" \/ (l \in {"write", "count"} /\ last'[w]) => Left(d) = 0
  <2>1. last'[w] => k = Left(chunks[i])
    BY <1>4, <1>5
  <2>2. l = "finish" => Left(chunks[i]) = 0 /\ k = 0
    BY <1>4
  <2> QED
    BY <1>4, <1>11, <2>1, <2>2
<1>13. Left(chunks[i]) = 0 => Left(d) = 0
  BY <1>4, <1>11
<1>14. Missing(d) = Missing(chunks[i])
  BY <1>6 DEF Missing
<1>15. /\ l \in Labels \ (Free \cup {"broken"}) /\ pc[w] \notin Out /\ l # "count"
  BY <1>1 DEF Labels, Free, Out
<1>16. /\ last' \in [Workers -> BOOLEAN] /\ \A v \in Workers \ {w} : last'[v] = last[v]
       /\ tries' \in [Workers -> Nat] /\ heard' \in [Workers -> BOOLEAN]
       /\ UNCHANGED <<live, retiring, disk, ctxVars, side, flushVars, runVars>>
  <2>1. last' = [last EXCEPT ![w] = Left(chunks[i]) <= Claimable(i, n)]
    BY <1>2
  <2>2. last' \in [Workers -> BOOLEAN] /\ \A v \in Workers \ {w} : last'[v] = last[v]
    BY <2>1 DEF IInv, TypeOK
  <2>3. tries' \in [Workers -> Nat] /\ heard' \in [Workers -> BOOLEAN]
    BY DEF Read, IInv, TypeOK
  <2>4. UNCHANGED <<live, retiring, disk, ctxVars, side, flushVars, runVars>>
    BY <1>2 DEF Read, Claim, fileVars
  <2> QED
    BY <2>2, <2>3, <2>4
<1>17. disk \subseteq disk' /\ disk' \subseteq Bytes
  BY <1>16 DEF IInv, TypeOK
<1>18. /\ chunks'[i].off = chunks[i].off /\ chunks'[i].end = chunks[i].end
       /\ chunks'[i].owner = w
       /\ \A b \in Missing(chunks[i]) : b \in Missing(chunks'[i])
  BY <1>3, <1>6, <1>7, <1>14
<1> HIDE DEF l
<1> QED
  BY <1>18, <1>1, <1>2, <1>3, <1>5, <1>6, <1>7, <1>8, <1>10, <1>12, <1>13, <1>14, <1>15,
     <1>16, <1>17, Advanced

\* The file write of a claimed buffer preserves the invariant.
LEMMA WriteAtInv ==
  ASSUME IInv, NEW w \in Workers, WriteAt(w)
  PROVE  IInv'
<1>1. phase = "run" /\ pc[w] = "write" /\ pc' = [pc EXCEPT ![w] = "count"]
  BY DEF WriteAt, At, Goto
<1>2. PICK i \in Active : Holds(w, i) /\ disk' = disk \cup InFlight(chunks[i])
  BY DEF WriteAt
<1>3. i \in Ids /\ chunks[i].owner = w /\ ChunkOK(chunks[i]) /\ chunks[i].end <= Total
  BY <1>2 DEF Holds, IInv, TypeOK, SchedulerTypeOK, TableOK, InsideFile
<1>4. InFlight(chunks[i]) \subseteq Bytes
  BY <1>3, TotalAssumption DEF InFlight, Bytes, Cursor, ChunkOK, ChunkType
<1>5. disk \subseteq disk' /\ disk' \subseteq Bytes
  BY <1>2, <1>4 DEF IInv, TypeOK
<1>6. SchedulerTypeOK' /\ chunks' = chunks /\ Ids' = Ids
  <2>1. SchedulerTypeOK'
    BY DEF WriteAt, IInv, TypeOK, schedVars, SchedulerTypeOK, TableOK, ShownOK,
           WorkersOK, Ids
  <2> QED
    BY <2>1 DEF WriteAt, schedVars, Ids
<1>7. last'[w] => Left(chunks[i]) = 0
  BY <1>1, <1>3 DEF WriteAt, IInv, FinishedIsFull
<1>8. /\ "count" \in Labels \ (Free \cup {"broken"}) /\ pc[w] \notin Out
      /\ "count" \in Unsettled /\ InFlight(chunks'[i]) \subseteq disk'
  BY <1>1, <1>2, <1>6 DEF Labels, Free, Out, Unsettled
<1>9. /\ last' \in [Workers -> BOOLEAN] /\ \A v \in Workers \ {w} : last'[v] = last[v]
      /\ tries' \in [Workers -> Nat] /\ heard' \in [Workers -> BOOLEAN]
      /\ UNCHANGED <<live, retiring, ctxVars, side, flushVars, runVars>>
  BY DEF WriteAt, schedVars, IInv, TypeOK
<1> QED
  BY <1>1, <1>2, <1>3, <1>5, <1>6, <1>7, <1>8, <1>9, Advanced

\* Counting a written buffer preserves the invariant.
LEMMA CountBytesInv ==
  ASSUME IInv, NEW w \in Workers, CountBytes(w)
  PROVE  IInv'
<1>1. phase = "run" /\ pc[w] = "count"
  BY DEF CountBytes, At
<1>2. PICK i \in Active : Holds(w, i) /\ Count(i)
  BY DEF CountBytes
<1>3. i \in Ids /\ chunks[i].owner = w /\ ChunkOK(chunks[i])
  BY <1>2 DEF Holds, IInv, TypeOK, SchedulerTypeOK, TableOK
<1> DEFINE d == [chunks[i] EXCEPT !.written = chunks[i].done]
<1>4. chunks' = [chunks EXCEPT ![i] = d]
  BY <1>2 DEF Count
<1>5. /\ ChunkOK(d)
      /\ d.end = chunks[i].end /\ d.off = chunks[i].off
      /\ d.done = chunks[i].done
      /\ d.written = chunks[i].done /\ d.owner = chunks[i].owner
  BY <1>3, WithWritten
<1> HIDE DEF d
<1>6. /\ Ids' = Ids /\ chunks'[i] = d
      /\ \A j \in Ids \ {i} : chunks'[j] = chunks[j]
  BY <1>3, <1>4 DEF Ids, IInv, TypeOK, SchedulerTypeOK, TableOK
<1>7. SchedulerTypeOK'
  BY <1>2, <1>3, CountTypes DEF IInv, TypeOK
<1>8. Left(d) = Left(chunks[i])
  BY <1>5 DEF Left, Cursor
<1>9. \A b \in Missing(chunks[i]) : b \in Missing(d) \/ b \in disk
  <2>1. InFlight(chunks[i]) \subseteq disk
    BY <1>1, <1>3 DEF IInv, CountedIsLanded
  <2> QED
    BY <1>3, <1>5, <2>1 DEF Missing, InFlight, Cursor, ChunkOK, ChunkType
<1>10. PICK l \in {"finish", "read", "fetch"} :
         pc' = [pc EXCEPT ![w] = l] /\ (l = "finish" => last[w])
  BY DEF CountBytes, Goto
<1>11. l = "finish" => Left(d) = 0
  BY <1>1, <1>3, <1>8, <1>10 DEF IInv, FinishedIsFull
<1>12. /\ last' \in [Workers -> BOOLEAN] /\ \A v \in Workers \ {w} : last'[v] = last[v]
       /\ tries' \in [Workers -> Nat] /\ heard' \in [Workers -> BOOLEAN]
       /\ UNCHANGED <<live, retiring, disk, ctxVars, side, flushVars, runVars>>
  BY <1>2 DEF CountBytes, Count, fileVars, IInv, TypeOK
<1>13. disk \subseteq disk' /\ disk' \subseteq Bytes
  BY <1>12 DEF IInv, TypeOK
<1>14. l \in Labels \ (Free \cup {"broken"}) /\ l \notin {"write", "count"} /\ pc[w] \notin Out
  BY <1>1, <1>10 DEF Labels, Free, Out
<1> QED
  BY <1>1, <1>2, <1>3, <1>5, <1>6, <1>7, <1>8, <1>9, <1>10, <1>11, <1>12, <1>13, <1>14,
     Advanced

\* The completion of a chunk by its own worker preserves the invariant.
LEMMA FinishInv ==
  ASSUME IInv, NEW w \in Workers, Finish(w)
  PROVE  IInv'
<1>1. phase = "run" /\ pc[w] = "finish" /\ pc' = [pc EXCEPT ![w] = "top"]
  BY DEF Finish, At, Goto
<1>2. PICK i \in Active : Holds(w, i) /\ Complete(i)
  BY DEF Finish
<1>3. /\ i \in Ids /\ chunks[i].owner = w
      /\ chunks[i].written = chunks[i].done /\ Left(chunks[i]) = 0
  BY <1>1, <1>2 DEF Holds, IInv, UnsettledIsHeld, Unsettled, FinishedIsFull
<1> QED
  BY <1>1, <1>2, <1>3, Completed DEF Finish, Complete, Labels, Out

-----------------------------------------------------------------------------
(* Leaving with an error, and retirement. *)

\* A woken worker's chunk has been drained, so the net completes it.
LEMMA UnwindInv ==
  ASSUME IInv, NEW w \in Workers, Unwind(w)
  PROVE  IInv'
<1>1. phase = "run" /\ pc[w] \in {"perm", "spent", "noise"}
  BY DEF Unwind, At
<1>2. UNCHANGED <<nextID, limit, ctxVars, fileVars, flushVars, runVars>>
  BY DEF Unwind
<1>3. Deregister(w) /\ ForgetAttempts(w)
  BY DEF Unwind
<1>4. CASE pc[w] # "perm"
  <2>1. PICK i \in Active :
          /\ Holds(w, i)
          /\ IF Drained(chunks[i])
               THEN Goto(w, "gone") /\ chunks' = Without(i) /\ shown' = Closed(i)
               ELSE Goto(w, "broken") /\ UNCHANGED <<chunks, shown>>
    BY <1>4 DEF Unwind, CatchRetired
  <2>2. chunks[i].owner = w /\ ChunkOK(chunks[i])
    BY <2>1 DEF Holds, IInv, TypeOK, SchedulerTypeOK, TableOK
  <2>3. w \in retiring
    BY <1>1 DEF Unwind, IInv, WokenIsRetiring, Out
  <2>4. Left(chunks[i]) = 0
    BY <2>2, <2>3 DEF IInv, RetiringIsDrained
  <2>5. chunks[i].written = chunks[i].done
    BY <1>1, <1>4, <2>2 DEF IInv, UnsettledIsHeld, Unsettled, Active
  <2>6. Drained(chunks[i])
    BY <2>2, <2>4, <2>5 DEF Drained, Cursor, ChunkOK, ChunkType
  <2>7. pc' = [pc EXCEPT ![w] = "gone"] /\ chunks' = Without(i) /\ shown' = Closed(i)
    BY <2>1, <2>6 DEF Goto
  <2> QED
    BY <1>1, <1>2, <1>3, <2>2, <2>4, <2>5, <2>7, Completed DEF Labels, Out
<1>5. CASE pc[w] = "perm"
  <2>1. pc' = [pc EXCEPT ![w] = "failing"] /\ UNCHANGED <<chunks, shown>>
    BY <1>5 DEF Unwind, Goto
  <2>2. /\ "failing" \in Labels \ {"broken", "write", "count"} /\ "failing" \in Out
        /\ "failing" \in Unsettled /\ "failing" \notin Free /\ "failing" # "finish"
    BY DEF Labels, Out, Unsettled, Free
  <2> QED
    BY <1>1, <1>2, <1>3, <2>1, <2>2, Aside, ForgetTypes
<1> QED
  BY <1>4, <1>5

\* A worker between run's two looks at its context still has its chunk, as it was.
LEMMA EscapeInv ==
  ASSUME IInv, NEW w \in Workers, Escape(w)
  PROVE  IInv'
<1>1. /\ phase = "run" /\ pc[w] \in {"perm", "spent", "noise"}
      /\ pc' = [pc EXCEPT ![w] = "escaped"] /\ ForgetAttempts(w)
      /\ UNCHANGED <<chunks, nextID, limit, shown, live, retiring>>
      /\ UNCHANGED <<ctxVars, fileVars, flushVars, runVars>>
  BY DEF Escape, At, Goto, schedVars
<1>2. /\ "escaped" \in Labels \ {"broken", "write", "count"} /\ pc[w] \notin Out
      /\ "escaped" \in Unsettled /\ "escaped" \notin Free /\ "escaped" # "finish"
  BY <1>1 DEF Labels, Out, Unsettled, Free
<1> QED
  BY <1>1, <1>2, Aside, ForgetTypes

\* Whatever the second look finds, the worker leaves its chunk as it is.
LEMMA AbsorbNoiseInv ==
  ASSUME IInv, NEW w \in Workers, AbsorbNoise(w)
  PROVE  IInv'
<1>1. /\ phase = "run" /\ Deregister(w)
      /\ UNCHANGED <<chunks, nextID, limit, shown, last, tries, heard>>
      /\ UNCHANGED <<ctxVars, fileVars, flushVars, runVars>>
  BY DEF AbsorbNoise, At
<1>2. PICK l \in {"gone", "failing"} : pc' = [pc EXCEPT ![w] = l]
  BY DEF AbsorbNoise, Goto
<1>3. /\ l \in Labels \ {"broken", "write", "count"} /\ l \in Out
      /\ l \in Unsettled /\ l \notin Free /\ l # "finish"
  BY <1>2 DEF Labels, Out, Unsettled, Free
<1> QED
  BY <1>1, <1>2, <1>3, Aside DEF IInv, TypeOK

\* Recording a worker's error preserves the invariant.
LEMMA FailInv ==
  ASSUME IInv, NEW w \in Workers, Fail(w)
  PROVE  IInv'
<1> USE DEF Fail, At, Goto, schedVars, fileVars, flushVars, runVars
<1>1. phase = "run" /\ pc[w] = "failing" /\ pc' = [pc EXCEPT ![w] = "gone"]
  BY DEF IInv, WokenIsRetiring
<1>2. failure' \in {"none", "genuine"}
  BY <1>1 DEF IInv, TypeOK, RetirementIsClean
<1>3. TypeOK'
  <2>1. SchedulerTypeOK'
    BY DEF IInv, TypeOK, SchedulerTypeOK, TableOK, ShownOK, WorkersOK, Ids
  <2>2. pc' \in [Workers -> Labels]
    BY <1>1 DEF IInv, TypeOK, Labels
  <2> QED
    BY <1>2, <2>1, <2>2 DEF IInv, TypeOK
<1>4. OneChunkEach' /\ InsideFile'
  BY DEF IInv, OneChunkEach, InsideFile, Active, Pending, Ids
<1>5. FreeHandsEmpty' /\ UnsettledIsHeld'
  BY <1>1, OwnersAreWorkers
  DEF IInv, TypeOK, FreeHandsEmpty, UnsettledIsHeld, Active, Pending, Ids, Free, Unsettled
<1>6. CountedIsLanded'
  BY <1>1, OwnersAreWorkers
  DEF IInv, TypeOK, CountedIsLanded, Active, Pending, Ids, InFlight, Cursor
<1>7. FinishedIsFull'
  BY <1>1, OwnersAreWorkers
  DEF IInv, TypeOK, FinishedIsFull, Active, Pending, Ids, Left, Cursor
<1>8. Covered' /\ QuietStart'
  BY DEF IInv, Covered, QuietStart, Active, Pending, Ids, Missing, Bytes
<1>9. RetiringIsDrained' /\ WokenIsRetiring'
  BY <1>1 DEF IInv, TypeOK, RetiringIsDrained, WokenIsRetiring, Active, Pending, Ids,
     Left, Cursor, Out
<1>10. SidecarSound' /\ SuccessMeansWhole' /\ RetirementIsClean'
  BY <1>2 DEF IInv, SidecarSound, Covers, SuccessMeansWhole, RetirementIsClean, Bytes
<1> QED
  BY <1>3, <1>4, <1>5, <1>6, <1>7, <1>8, <1>9, <1>10 DEF IInv

\* demote cuts the chunks of the retiring at their claim cursors.
LEMMA RetireInv ==
  ASSUME IInv, NEW g \in Workers, NEW keep \in 1 .. Parts - 1, Retire(g, keep)
  PROVE  IInv'
<1> USE DEF workerVars, fileVars, flushVars, runVars
<1>1. /\ phase = "run" /\ Demote(keep) /\ keep \in Nat
      /\ waking' = [waking EXCEPT ![g] = Victims(keep)]
      /\ UNCHANGED <<workerVars, woken, failure, parent, fileVars, flushVars, runVars>>
  BY PartsAssumption DEF Retire, At
<1>2. TableOK /\ SchedulerTypeOK /\ SchedulerTypeOK'
  BY <1>1, DemoteTypes DEF IInv, TypeOK, SchedulerTypeOK
<1> DEFINE T == Surrendered(keep)
           N == FreshIds(Cardinality(T))
<1>3. T \subseteq Active /\ T \subseteq Ids
  BY DEF Surrendered, Active
<1>4. PICK from \in Bijection(N, T) : chunks' = Moved(from)
  BY <1>1 DEF Demote
<1>5. N \cap Ids = {}
  BY <1>2, <1>3, FiniteIds, FreshIdsAreFresh
<1>6. MovedAsSaid(N, T, from)
  BY <1>2, <1>3, <1>4, <1>5, MovedTable
<1>7. retiring' = retiring \cup Victims(keep) /\ live' = live /\ Victims(keep) \subseteq Workers
  BY <1>1, <1>2 DEF Demote, Victims, NonRetiring, SchedulerTypeOK, WorkersOK
<1>8. \A j \in Active : chunks[j].owner \in retiring' => j \in T \/ Left(chunks[j]) = 0
  <2> SUFFICES ASSUME NEW j \in Active, chunks[j].owner \in retiring', j \notin T
               PROVE  Left(chunks[j]) = 0
    OBVIOUS
  <2>1. Left(chunks[j]) \in Nat
    BY <1>2, MidBounds DEF Active, TableOK
  <2>2. CASE Victims(keep) = {}
    BY <1>7, <2>2 DEF IInv, RetiringIsDrained
  <2>3. CASE Victims(keep) # {}
    BY <1>7, <2>1, <2>3 DEF Surrendered
  <2> QED
    BY <2>2, <2>3
<1> HIDE DEF T, N
<1>9. /\ Ids' = Ids \cup N
      /\ \A j \in Ids \ T : chunks'[j] = chunks[j]
      /\ \A j \in T : chunks'[j] = [chunks[j] EXCEPT !.end = Cursor(chunks[j])]
      /\ \A j \in N : /\ from[j] \in T
                      /\ chunks'[j] = NewChunk(Cursor(chunks[from[j]]),
                                               chunks[from[j]].end, 0, NoOne)
      /\ \A j \in T : \E i \in N : from[i] = j
  BY <1>4, <1>6 DEF MovedAsSaid, Ids
<1>10. \A j \in Ids : /\ ChunkOK(chunks[j]) /\ Cursor(chunks[j]) \in Nat
                      /\ Cursor(chunks[j]) <= chunks[j].end
                      /\ chunks[j].end \in Nat /\ chunks[j].end <= Total
  BY <1>2 DEF TableOK, ChunkOK, ChunkType, Cursor, IInv, InsideFile
<1>11. \A j \in T : Cut(chunks[j], chunks'[j]) /\ chunks'[j].end = Cursor(chunks[j])
  <2> TAKE j \in T
  <2> DEFINE e == Cursor(chunks[j])
  <2>1. ChunkOK(chunks[j]) /\ e \in Nat /\ Cursor(chunks[j]) <= e /\ e <= chunks[j].end
    BY <1>3, <1>10
  <2>2. chunks'[j] = [chunks[j] EXCEPT !.end = e]
    BY <1>9
  <2> HIDE DEF e
  <2>3. /\ chunks'[j].end = e /\ chunks'[j].off = chunks[j].off
        /\ chunks'[j].done = chunks[j].done /\ chunks'[j].written = chunks[j].written
        /\ chunks'[j].owner = chunks[j].owner
    BY <2>1, <2>2, WithEnd
  <2> QED
    BY <2>1, <2>3 DEF Cut, e
<1>12. \A j \in Ids : Cut(chunks[j], chunks'[j])
  BY <1>9, <1>10, <1>11 DEF Cut
<1>13. \A j \in N : /\ chunks'[j].owner = NoOne /\ chunks'[j].done = 0
                    /\ chunks'[j].written = 0
                    /\ chunks'[j].off = Cursor(chunks[from[j]])
                    /\ chunks'[j].end = chunks[from[j]].end
  <2> TAKE j \in N
  <2>1. from[j] \in Ids
    BY <1>3, <1>9
  <2>2. Cursor(chunks[from[j]]) \in Nat /\ chunks[from[j]].end \in Nat
        /\ Cursor(chunks[from[j]]) + 0 <= chunks[from[j]].end
    BY <2>1, <1>10
  <2> QED
    BY <2>2, <1>9, NewChunkOK
<1>14. Active' = Active /\ \A j \in Active : Cut(chunks[j], chunks'[j])
  BY <1>9, <1>12, <1>13 DEF Active, Pending, Cut
<1>15. TypeOK'
  BY <1>1, <1>2, <1>7 DEF IInv, TypeOK
<1>16. OneChunkEach'
  BY <1>14 DEF IInv, OneChunkEach, Cut
<1>17. InsideFile'
  <2>1. \A j \in Ids : chunks'[j].end <= Total
    BY <1>3, <1>9, <1>10, <1>11, TotalAssumption
  <2>2. \A j \in N : chunks'[j].end <= Total
    BY <1>3, <1>9, <1>10, <1>13
  <2> QED
    BY <1>1, <1>9, <2>1, <2>2 DEF IInv, InsideFile
<1>18. FreeHandsEmpty'
  BY <1>1, <1>14 DEF IInv, FreeHandsEmpty, Cut
<1>19. UnsettledIsHeld'
  BY <1>1, <1>9, <1>12, <1>13, <1>14 DEF IInv, UnsettledIsHeld, Cut
<1>20. CountedIsLanded'
  BY <1>1, <1>14 DEF IInv, CountedIsLanded, Cut, InFlight, Cursor
<1>21. \A j \in Active : Left(chunks[j]) = 0 => Left(chunks'[j]) = 0
  <2> TAKE j \in Active
  <2>1. ChunkOK(chunks[j]) /\ ChunkOK(chunks'[j])
    BY <1>2, <1>9 DEF SchedulerTypeOK, TableOK, Active
  <2> QED
    BY <2>1, <1>14 DEF Cut, Left, Cursor, ChunkOK, ChunkType
<1>22. FinishedIsFull'
  BY <1>1, <1>14, <1>21 DEF IInv, FinishedIsFull, Cut
<1>23. Covered'
  <2> SUFFICES ASSUME NEW b \in Bytes, b \notin disk
               PROVE  \E j \in Ids' : b \in Missing(chunks'[j])
    BY <1>1 DEF Covered, Bytes
  <2>1. PICK k \in Ids : b \in Missing(chunks[k])
    BY <1>1 DEF IInv, Covered
  <2>2. CASE k \notin T
    BY <1>9, <2>1, <2>2
  <2>3. CASE k \in T /\ b < Cursor(chunks[k])
    BY <1>9, <1>10, <1>11, <2>1, <2>3 DEF Missing, Cut, ChunkOK, ChunkType
  <2>4. CASE k \in T /\ ~(b < Cursor(chunks[k]))
    <3>1. PICK i \in N : from[i] = k
      BY <1>9, <2>4
    <3>2. b \in Missing(chunks'[i])
      BY <1>10, <1>13, <2>1, <2>4, <3>1 DEF Missing, ChunkOK, ChunkType
    <3> QED
      BY <1>9, <3>1, <3>2
  <2> QED
    BY <2>2, <2>3, <2>4
<1>24. QuietStart'
  BY <1>1 DEF IInv, QuietStart
<1>25. RetiringIsDrained'
  <2> SUFFICES ASSUME NEW j \in Active, chunks[j].owner \in retiring'
               PROVE  Left(chunks'[j]) = 0
    BY <1>14 DEF RetiringIsDrained, Cut
  <2>1. CASE j \in T
    BY <2>1, <1>3, <1>10, <1>11 DEF Cut, Left, Cursor, ChunkOK, ChunkType
  <2>2. CASE Left(chunks[j]) = 0
    BY <2>2, <1>21
  <2> QED
    BY <1>8, <2>1, <2>2
<1>26. WokenIsRetiring'
  BY <1>1, <1>7 DEF IInv, WokenIsRetiring, TypeOK
<1>27. SidecarSound' /\ SuccessMeansWhole' /\ RetirementIsClean'
  BY <1>1 DEF IInv, SidecarSound, Covers, SuccessMeansWhole, RetirementIsClean, Bytes
<1> QED
  BY <1>15, <1>16, <1>17, <1>18, <1>19, <1>20, <1>22, <1>23, <1>24, <1>25, <1>26,
     <1>27 DEF IInv

\* A victim is cancelled only while it is marked, or too late to matter.
LEMMA WakeInv ==
  ASSUME IInv, NEW g \in Workers, Wake(g)
  PROVE  IInv'
<1> USE DEF schedVars, workerVars, fileVars, flushVars, runVars
<1>1. PICK v \in waking[g] :
        /\ waking' = [waking EXCEPT ![g] = @ \ {v}]
        /\ woken' = IF pc[v] = "gone" \/ RunCancelled THEN woken ELSE woken \cup {v}
  BY DEF Wake
<1>2. v \in Workers /\ (v \in retiring \/ pc[v] \in Out)
  BY <1>1 DEF IInv, TypeOK, WokenIsRetiring
<1>3. woken' \subseteq woken \cup {v} /\ phase = "run"
  BY <1>1 DEF Wake
<1>4. TypeOK'
  <2>1. SchedulerTypeOK'
    BY DEF Wake, IInv, TypeOK, SchedulerTypeOK, TableOK, ShownOK, WorkersOK, Ids
  <2> QED
    BY <1>1, <1>2, <1>3, <2>1 DEF Wake, IInv, TypeOK
<1>5. OneChunkEach' /\ InsideFile' /\ FreeHandsEmpty' /\ UnsettledIsHeld'
  BY DEF Wake, IInv, OneChunkEach, InsideFile, FreeHandsEmpty, UnsettledIsHeld, Active,
         Pending, Ids
<1>6. CountedIsLanded' /\ FinishedIsFull' /\ RetiringIsDrained'
  BY DEF Wake, IInv, CountedIsLanded, FinishedIsFull, RetiringIsDrained, Active,
         Pending, Ids, InFlight, Left, Cursor
<1>7. Covered' /\ QuietStart'
  BY <1>3 DEF Wake, IInv, Covered, QuietStart, Ids, Missing, Bytes
<1>8. WokenIsRetiring'
  BY <1>1, <1>2, <1>3 DEF Wake, IInv, TypeOK, WokenIsRetiring
<1>9. SidecarSound' /\ SuccessMeansWhole' /\ RetirementIsClean'
  BY DEF Wake, IInv, SidecarSound, Covers, SuccessMeansWhole, RetirementIsClean, Bytes
<1> QED
  BY <1>4, <1>5, <1>6, <1>7, <1>8, <1>9 DEF IInv

-----------------------------------------------------------------------------
(* The caller, the flusher and the files. *)

\* What the workers' half of the invariant says depends on these alone.
LEMMA WorkersHalfAside ==
  ASSUME IInv, UNCHANGED <<schedVars, workerVars, waking, woken, disk>>
  PROVE  /\ SchedulerTypeOK' /\ OneChunkEach' /\ FreeHandsEmpty'
         /\ UnsettledIsHeld' /\ CountedIsLanded' /\ FinishedIsFull'
         /\ RetiringIsDrained' /\ WokenIsRetiring'
<1> USE DEF schedVars, workerVars
<1>1. SchedulerTypeOK'
  BY DEF IInv, TypeOK, SchedulerTypeOK, TableOK, ShownOK, WorkersOK, Ids
<1>2. OneChunkEach' /\ FreeHandsEmpty' /\ UnsettledIsHeld'
  BY DEF IInv, OneChunkEach, FreeHandsEmpty, UnsettledIsHeld, Active, Pending, Ids
<1>3. CountedIsLanded' /\ FinishedIsFull' /\ RetiringIsDrained'
  BY DEF IInv, CountedIsLanded, FinishedIsFull, RetiringIsDrained, Active, Pending, Ids,
         InFlight, Left, Cursor
<1>4. WokenIsRetiring'
  BY DEF IInv, WokenIsRetiring
<1> QED
  BY <1>1, <1>2, <1>3, <1>4

\* The caller's cancellation preserves the invariant.
LEMMA ParentCancelInv == ASSUME IInv, ParentCancel PROVE IInv'
<1> USE DEF ParentCancel, fileVars, flushVars, runVars
<1>1. TypeOK'
  BY WorkersHalfAside DEF IInv, TypeOK, workerVars
<1>2. InsideFile' /\ Covered' /\ QuietStart'
  BY DEF IInv, InsideFile, Covered, QuietStart, Active, Pending, Ids, Missing, Bytes,
         schedVars, workerVars
<1>3. SidecarSound' /\ SuccessMeansWhole' /\ RetirementIsClean'
  BY DEF IInv, SidecarSound, Covers, SuccessMeansWhole, RetirementIsClean, Bytes
<1> QED
  BY <1>1, <1>2, <1>3, WorkersHalfAside DEF IInv

\* What the table leaves out, a sidecar of its ranges may leave out.
LEMMA SnapshotSound ==
  ASSUME IInv, phase \notin {"open", "wiped"}
  PROVE  /\ Covers(Snapshot) /\ IsFiniteSet(Snapshot) /\ Snapshot \subseteq RangeType
         /\ \A s \in Snapshot : s.end <= Total
<1> DEFINE entry(c) == [off |-> c.off, end |-> c.end, done |-> Written(c)]
           f == [i \in Ids |-> entry(chunks[i])]
<1>1. TableOK
  BY DEF IInv, TypeOK, SchedulerTypeOK
<1>2. \A i \in Ids : /\ Written(chunks[i]) = chunks[i].written
                     /\ chunks[i].off \in Nat /\ chunks[i].end \in Nat
                     /\ chunks[i].written \in Nat /\ chunks[i].end <= Total
  BY <1>1 DEF TableOK, ChunkOK, ChunkType, Cursor, Written, IInv, InsideFile
<1>3. Snapshot = {entry(chunks[i]) : i \in Ids}
  BY DEF Snapshot
<1>4. Snapshot \subseteq RangeType /\ \A s \in Snapshot : s.end <= Total
  BY <1>2, <1>3 DEF RangeType
<1>5. IsFiniteSet(Snapshot)
  <2>1. f \in Surjection(Ids, Snapshot)
    BY <1>3 DEF Surjection
  <2>2. IsFiniteSet(Ids)
    BY <1>1, FiniteIds
  <2> HIDE DEF f
  <2> QED
    BY <2>1, <2>2, FS_Surjection
<1>6. Covers(Snapshot)
  <2> SUFFICES ASSUME NEW b \in Bytes, b \notin disk
               PROVE  \E s \in Snapshot : s.off + s.done <= b /\ b < s.end
    BY DEF Covers
  <2>1. PICK i \in Ids : b \in Missing(chunks[i])
    BY DEF IInv, Covered
  <2>2. entry(chunks[i]) \in Snapshot
    BY <1>3
  <2>3. chunks[i].off + chunks[i].written <= b /\ b < chunks[i].end
    BY <1>2, <2>1 DEF Missing
  <2> QED
    BY <1>2, <2>2, <2>3
<1> QED
  BY <1>4, <1>5, <1>6

\* Taking a snapshot preserves the invariant: the snapshot is sound.
LEMMA FlushTickInv == ASSUME IInv, FlushTick PROVE IInv'
<1> USE DEF FlushTick, fileVars, ctxVars, runVars
<1>1. snap' = snap \/ snap' = {Snapshot}
  OBVIOUS
<1>2. /\ Covers(Snapshot) /\ IsFiniteSet(Snapshot) /\ Snapshot \subseteq RangeType
      /\ \A s \in Snapshot : s.end <= Total
  BY SnapshotSound
<1>3. TypeOK'
  BY <1>1, <1>2, WorkersHalfAside DEF IInv, TypeOK, workerVars
<1>4. InsideFile'
  BY <1>1, <1>2 DEF IInv, InsideFile, Ids, schedVars
<1>5. Covered' /\ QuietStart'
  BY DEF IInv, Covered, QuietStart, Active, Pending, Ids, Missing, Bytes, schedVars,
         workerVars
<1>6. SidecarSound'
  BY <1>1, <1>2 DEF IInv, SidecarSound, Covers, Bytes
<1>7. SuccessMeansWhole' /\ RetirementIsClean'
  BY DEF IInv, SuccessMeansWhole, RetirementIsClean, Bytes
<1> QED
  BY <1>3, <1>4, <1>5, <1>6, <1>7, WorkersHalfAside DEF IInv

\* Saving the snapshot, or failing to, preserves the invariant.
LEMMA FlushSaveInv == ASSUME IInv, FlushSave PROVE IInv'
<1> USE DEF FlushSave, ctxVars, runVars
<1>1. side' \cup snap' \subseteq side \cup snap /\ snap' = {} /\ phase = "run"
  OBVIOUS
<1>2. TypeOK'
  BY <1>1, WorkersHalfAside DEF IInv, TypeOK, workerVars
<1>3. InsideFile'
  BY <1>1 DEF IInv, InsideFile, Ids, schedVars
<1>4. Covered' /\ QuietStart'
  BY DEF IInv, Covered, QuietStart, Active, Pending, Ids, Missing, Bytes, schedVars,
         workerVars
<1>5. SidecarSound'
  BY <1>1 DEF IInv, SidecarSound, Covers, Bytes
<1>6. SuccessMeansWhole' /\ RetirementIsClean'
  BY DEF IInv, SuccessMeansWhole, RetirementIsClean, Bytes
<1> QED
  BY <1>2, <1>3, <1>4, <1>5, <1>6, WorkersHalfAside DEF IInv

-----------------------------------------------------------------------------
(* multipart *)

\* With no chunk in hand and nobody started, little is left to say.
LEMMA Quiet ==
  ASSUME SchedulerTypeOK', Active' = {},
         \A i \in Ids' : chunks'[i].written = chunks'[i].done /\ chunks'[i].end <= Total,
         pc' \in [Workers -> Labels],
         \A w \in Workers : pc'[w] # "broken" /\ waking'[w] = {},
         woken' = {}, failure' = "none"
  PROVE  /\ OneChunkEach' /\ FreeHandsEmpty' /\ UnsettledIsHeld' /\ CountedIsLanded'
         /\ FinishedIsFull' /\ RetiringIsDrained' /\ WokenIsRetiring'
         /\ RetirementIsClean'
<1>1. OneChunkEach' /\ FreeHandsEmpty' /\ CountedIsLanded' /\ FinishedIsFull'
      /\ RetiringIsDrained'
  BY DEF OneChunkEach, FreeHandsEmpty, CountedIsLanded, FinishedIsFull, RetiringIsDrained
<1>2. UnsettledIsHeld'
  BY DEF UnsettledIsHeld
<1>3. WokenIsRetiring' /\ RetirementIsClean'
  BY DEF WokenIsRetiring, RetirementIsClean
<1> QED
  BY <1>1, <1>2, <1>3

\* A scheduler just made is well typed and has no chunk.
LEMMA EmptyTable ==
  ASSUME chunks' = <<>>, nextID' = 0, shown' = <<>>,
         live' = {}, retiring' = {}, limit' = 0
  PROVE  SchedulerTypeOK' /\ Active' = {} /\ Ids' = {}
<1>1. Ids' = {} /\ chunks' = [i \in {} |-> chunks'[i]] /\ DOMAIN shown' = {}
  BY DEF Ids
<1> QED
  BY <1>1 DEF SchedulerTypeOK, TableOK, ShownOK, WorkersOK, Active

\* A new download finds the files as they were and remembers nothing.
LEMMA ForgetInv == ASSUME IInv, Forget, UNCHANGED fileVars PROVE IInv'
<1> USE DEF Forget, fileVars
<1>1. SchedulerTypeOK' /\ Active' = {} /\ Ids' = {}
  BY EmptyTable
<1>2. pc' \in [Workers -> Labels] /\ \A w \in Workers : pc'[w] = "unborn" /\ waking'[w] = {}
  BY DEF Labels
<1>3. TypeOK'
  <2>1. /\ last' \in [Workers -> BOOLEAN] /\ tries' \in [Workers -> Nat]
        /\ heard' \in [Workers -> BOOLEAN] /\ waking' \in [Workers -> SUBSET Workers]
    OBVIOUS
  <2>2. /\ phase' \in Phases /\ result' = "none" /\ runs' \in Nat /\ ticks' = 0
        /\ woken' = {} /\ failure' = "none" /\ parent' = FALSE
    BY DEF IInv, TypeOK, Phases
  <2>3. disk' \subseteq Bytes /\ \A S \in snap' \cup side' : S \subseteq RangeType
    BY DEF IInv, TypeOK
  <2> HIDE DEF Forget, fileVars
  <2> QED
    BY <1>1, <1>2, <2>1, <2>2, <2>3 DEF TypeOK
<1>4. InsideFile'
  BY <1>1 DEF IInv, InsideFile
<1>5. Covered' /\ QuietStart' /\ SuccessMeansWhole'
  BY <1>1, <1>2 DEF Covered, QuietStart, SuccessMeansWhole
<1>6. SidecarSound'
  BY DEF IInv, SidecarSound, Covers, Bytes
<1> QED
  BY <1>1, <1>2, <1>3, <1>4, <1>5, <1>6, Quiet DEF IInv

\* The table is seeded from ranges that miss no byte that the file misses.
LEMMA SeedInv ==
  ASSUME IInv, phase \in {"open", "wiped"}, phase' = "prepare",
         NEW U, IsFiniteSet(U), U \subseteq RangeType,
         \A s \in U : s.off + s.done <= s.end /\ s.end <= Total,
         NEW order \in Bijection(0 .. Cardinality(U) - 1, U), AddPending(order),
         disk' \subseteq disk,
         \A b \in Bytes : b \in disk' \/ \E s \in U : s.off + s.done <= b /\ b < s.end,
         side = {} \/ disk' = disk,
         UNCHANGED <<workerVars, ctxVars, side, flushVars, result, runs>>
  PROVE  IInv'
<1> USE DEF workerVars, ctxVars, flushVars
<1>1. /\ SchedulerTypeOK'
      /\ \A i \in Ids' : /\ order[i] \in U
                         /\ chunks'[i] = NewChunk(order[i].off, order[i].end,
                                                  order[i].done, NoOne)
      /\ \A s \in U : \E i \in Ids' : order[i] = s
  BY SeededTable DEF RangeType
<1>2. \A i \in Ids' :
        /\ chunks'[i].off = order[i].off /\ chunks'[i].end = order[i].end
        /\ chunks'[i].written = order[i].done /\ chunks'[i].done = order[i].done
        /\ chunks'[i].owner = NoOne
  <2> TAKE i \in Ids'
  <2> DEFINE c == chunks'[i]
             d == NewChunk(order[i].off, order[i].end, order[i].done, NoOne)
  <2>1. c = d
    BY <1>1
  <2>2. /\ d.off = order[i].off /\ d.end = order[i].end /\ d.owner = NoOne
        /\ d.written = order[i].done /\ d.done = order[i].done
    BY DEF NewChunk
  <2> QED
    BY <2>1, <2>2
<1>3. Active' = {} /\ \A i \in Ids' : chunks'[i].end <= Total
  BY <1>1, <1>2 DEF Active, Pending
<1>4. /\ snap' = {} /\ result' = "none" /\ woken' = {}
      /\ \A w \in Workers : pc'[w] = "unborn" /\ waking'[w] = {}
      /\ failure' = failure /\ pc' \in [Workers -> Labels]
  BY DEF IInv, QuietStart, TypeOK
<1>5. TypeOK'
  BY <1>1 DEF IInv, TypeOK, Phases
<1>6. InsideFile'
  BY <1>3 DEF IInv, InsideFile
<1>7. Covered'
  <2> SUFFICES ASSUME NEW b \in Bytes, b \notin disk'
               PROVE  \E i \in Ids' : b \in Missing(chunks'[i])
    BY DEF Covered, Bytes
  <2>1. PICK s \in U : s.off + s.done <= b /\ b < s.end
    OBVIOUS
  <2>2. PICK i \in Ids' : order[i] = s
    BY <1>1
  <2>3. s.off \in Nat /\ s.done \in Nat /\ s.end \in Nat /\ b \in Int
    BY DEF RangeType, Bytes
  <2> QED
    BY <1>2, <2>1, <2>2, <2>3 DEF Missing
<1>8. QuietStart'
  BY <1>3, <1>4 DEF QuietStart
<1>9. SidecarSound'
  BY <1>4 DEF IInv, SidecarSound, Covers, Bytes
<1>10. SuccessMeansWhole' /\ RetirementIsClean'
  BY <1>4 DEF IInv, SuccessMeansWhole, RetirementIsClean
<1>11. /\ OneChunkEach' /\ FreeHandsEmpty' /\ UnsettledIsHeld' /\ CountedIsLanded'
       /\ FinishedIsFull' /\ RetiringIsDrained' /\ WokenIsRetiring'
  <2>1. \A w \in Workers : pc'[w] # "broken"
    BY <1>4
  <2> QED
    BY <1>2, <1>3, <1>4, <2>1
    DEF OneChunkEach, FreeHandsEmpty, UnsettledIsHeld, CountedIsLanded, FinishedIsFull,
        RetiringIsDrained, WokenIsRetiring
<1> QED
  BY <1>5, <1>6, <1>7, <1>8, <1>9, <1>10, <1>11 DEF IInv

\* Starting from the unfinished ranges of a loaded sidecar establishes coverage.
LEMMA ResumeInv == ASSUME IInv, Resume PROVE IInv'
<1>1. PICK S \in side :
        /\ Loadable(S)
        /\ \E order \in Bijection(0 .. Cardinality(Unfinished(S)) - 1, Unfinished(S)) :
             AddPending(order)
  BY DEF Resume
<1> DEFINE U == Unfinished(S)
<1>2. PICK order \in Bijection(0 .. Cardinality(U) - 1, U) : AddPending(order)
  BY <1>1
<1>3. IsFiniteSet(S) /\ S \subseteq RangeType /\ \A s \in S : s.end <= Total
  BY DEF IInv, InsideFile, TypeOK
<1>4. U \subseteq S /\ U \subseteq RangeType /\ IsFiniteSet(U)
  BY <1>3, FS_Subset DEF Unfinished
<1>5. \A s \in U : s.off + s.done <= s.end /\ s.end <= Total
  BY <1>3 DEF Unfinished, RangeType
<1>6. \A b \in Bytes : b \in disk \/ \E s \in U : s.off + s.done <= b /\ b < s.end
  <2> SUFFICES ASSUME NEW b \in Bytes, b \notin disk
               PROVE  \E s \in U : s.off + s.done <= b /\ b < s.end
    OBVIOUS
  <2>1. PICK s \in S : s.off + s.done <= b /\ b < s.end
    BY DEF IInv, SidecarSound, Covers
  <2>2. s \in U
    BY <1>3, <2>1 DEF Unfinished, RangeType, Bytes
  <2> QED
    BY <2>1, <2>2
<1>7. /\ phase = "open" /\ phase' = "prepare" /\ disk' = disk
      /\ UNCHANGED <<workerVars, ctxVars, side, flushVars, result, runs>>
  BY DEF Resume, fileVars
<1> HIDE DEF U
<1> QED
  BY <1>2, <1>4, <1>5, <1>6, <1>7, SeedInv

\* Starting from one range over the whole file establishes coverage.
LEMMA StartOverInv == ASSUME IInv, StartOver PROVE IInv'
<1> DEFINE r == [off |-> 0, end |-> Total, done |-> 0]
           U == {r}
           order == [i \in {0} |-> r]
<1>1. IsFiniteSet(U) /\ 0 .. Cardinality(U) - 1 = {0}
  <2>1. IsFiniteSet(U) /\ Cardinality(U) = 1
    BY FS_Singleton
  <2> QED
    BY <2>1
<1>2. order \in Bijection({0}, U)
  <2>1. order \in [{0} -> U] /\ order[0] = r
    OBVIOUS
  <2> HIDE DEF order, r
  <2> QED
    BY <2>1 DEF Bijection, Injection, Surjection, IsInjective
<1>3. U \subseteq RangeType /\ \A s \in U : s.off + s.done <= s.end /\ s.end <= Total
  BY TotalAssumption DEF RangeType
<1>4. \A b \in Bytes : \E s \in U : s.off + s.done <= b /\ b < s.end
  BY TotalAssumption DEF Bytes
<1>5. /\ phase = "wiped" /\ phase' = "prepare" /\ disk' = {} /\ AddPending(order)
      /\ UNCHANGED <<workerVars, ctxVars, side, flushVars, result, runs>>
  BY DEF StartOver
<1>6. side = {}
  BY <1>5 DEF IInv, QuietStart
<1> HIDE DEF U, order
<1> QED
  BY <1>1, <1>2, <1>3, <1>4, <1>5, <1>6, SeedInv

\* Dropping the sidecar preserves the invariant.
LEMMA InvalidateInv == ASSUME IInv, Invalidate PROVE IInv'
<1> USE DEF Invalidate, ctxVars, flushVars
<1>1. TypeOK'
  BY WorkersHalfAside DEF IInv, TypeOK, workerVars, Phases
<1>2. InsideFile' /\ Covered' /\ SidecarSound'
  BY DEF IInv, InsideFile, Covered, SidecarSound, QuietStart, Ids, schedVars
<1>3. QuietStart'
  BY DEF IInv, QuietStart, Active, Pending, Ids, schedVars, workerVars
<1>4. SuccessMeansWhole' /\ RetirementIsClean'
  BY DEF IInv, SuccessMeansWhole, RetirementIsClean, Bytes
<1> QED
  BY <1>1, <1>2, <1>3, <1>4, WorkersHalfAside DEF IInv

\* Halving a pending chunk before the start hands no byte to anybody.
LEMMA PrepareInv == ASSUME IInv, Prepare PROVE IInv'
<1> USE DEF workerVars, ctxVars, fileVars, flushVars, runVars
<1>1. PICK i \in Pending : chunks' = Halved(i, NoOne)
  BY DEF Prepare, PrepareSplit, Largest
<1>2. i \in Ids /\ phase = "prepare" /\ Active = {} /\ SchedulerTypeOK
  BY <1>1 DEF Prepare, Pending, IInv, QuietStart, TypeOK
<1>3. SchedulerTypeOK'
  BY PrepareTypes, <1>2 DEF Prepare
<1> DEFINE m == Mid(chunks[i])
<1>4. /\ Ids' = Ids \cup {nextID} /\ nextID \notin Ids
      /\ chunks'[nextID] = NewChunk(m, chunks[i].end, 0, NoOne)
      /\ chunks'[i] = [chunks[i] EXCEPT !.end = m]
      /\ \A j \in Ids \ {i} : chunks'[j] = chunks[j]
  BY <1>1, <1>2, HalvedTable DEF SchedulerTypeOK, Ids
<1>5. /\ m \in Nat /\ m <= chunks[i].end /\ chunks[i].end \in Nat /\ chunks[i].end <= Total
      /\ Cursor(chunks[i]) <= m /\ ChunkOK(chunks[i]) /\ chunks[i].owner = NoOne
      /\ chunks[i].written = chunks[i].done
  <2>1. ChunkOK(chunks[i]) /\ chunks[i].owner = NoOne /\ chunks[i].end <= Total
    BY <1>1, <1>2 DEF SchedulerTypeOK, TableOK, IInv, InsideFile, Pending
  <2>2. chunks[i].written = chunks[i].done
    BY <1>2 DEF IInv, UnsettledIsHeld
  <2> QED
    BY <2>1, <2>2, MidBounds DEF ChunkOK, ChunkType
<1>6. /\ chunks'[i].off = chunks[i].off /\ chunks'[i].done = chunks[i].done
      /\ chunks'[i].written = chunks[i].done /\ chunks'[i].owner = NoOne
      /\ chunks'[i].end = m
  BY <1>4, <1>5, WithEnd
<1>7. /\ chunks'[nextID].off = m /\ chunks'[nextID].end = chunks[i].end
      /\ chunks'[nextID].done = 0 /\ chunks'[nextID].written = 0
      /\ chunks'[nextID].owner = NoOne
  BY <1>4, <1>5, NewChunkOK
<1> HIDE DEF m
<1>8. \A j \in Ids' : /\ chunks'[j].written = chunks'[j].done
                      /\ chunks'[j].end <= Total /\ chunks'[j].owner = NoOne
  <2> TAKE j \in Ids'
  <2>1. CASE j = i
    BY <2>1, <1>5, <1>6, TotalAssumption
  <2>2. CASE j = nextID
    BY <2>2, <1>5, <1>7
  <2>3. CASE j \in Ids \ {i}
    <3>1. chunks[j].written = chunks[j].done /\ chunks[j].end <= Total /\ chunks[j].owner = NoOne
      BY <1>2, <2>3 DEF IInv, UnsettledIsHeld, InsideFile, Active, Pending
    <3> QED
      BY <3>1, <1>4, <2>3
  <2> QED
    BY <1>4, <2>1, <2>2, <2>3
<1>9. Active' = {}
  BY <1>8 DEF Active, Pending
<1>10. StillMissing
  <2> SUFFICES ASSUME NEW j \in Ids, NEW b \in Missing(chunks[j])
               PROVE  \E k \in Ids' : b \in Missing(chunks'[k])
    BY DEF StillMissing
  <2>1. CASE j \in Ids \ {i}
    BY <1>4, <2>1
  <2>2. CASE j = i
    <3>1. /\ b \in Int /\ chunks[i].off + chunks[i].done <= b /\ b < chunks[i].end
          /\ chunks[i].off \in Nat /\ chunks[i].done \in Nat
      BY <2>2, <1>5 DEF Missing, ChunkOK, ChunkType
    <3>2. b \in Missing(chunks'[i]) \/ b \in Missing(chunks'[nextID])
      BY <3>1, <1>5, <1>6, <1>7 DEF Missing, Cursor
    <3> QED
      BY <3>2, <1>2, <1>4
  <2> QED
    BY <2>1, <2>2
<1>11. TypeOK'
  BY <1>3 DEF Prepare, IInv, TypeOK
<1>12. InsideFile'
  BY <1>8 DEF Prepare, IInv, InsideFile
<1>13. Covered'
  BY <1>2, <1>10 DEF Prepare, IInv, Covered, StillMissing, Bytes
<1>14. QuietStart'
  BY <1>2, <1>9 DEF Prepare, IInv, QuietStart
<1>15. SidecarSound' /\ SuccessMeansWhole'
  BY DEF Prepare, IInv, SidecarSound, Covers, SuccessMeansWhole, Bytes
<1>16. /\ OneChunkEach' /\ FreeHandsEmpty' /\ CountedIsLanded' /\ FinishedIsFull'
       /\ RetiringIsDrained' /\ UnsettledIsHeld'
  BY <1>8, <1>9 DEF OneChunkEach, FreeHandsEmpty, CountedIsLanded, FinishedIsFull,
     RetiringIsDrained, UnsettledIsHeld
<1>17. WokenIsRetiring' /\ RetirementIsClean'
  BY DEF Prepare, PrepareSplit, IInv, WokenIsRetiring, RetirementIsClean
<1> QED
  BY <1>11, <1>12, <1>13, <1>14, <1>15, <1>16, <1>17 DEF IInv

\* Starting the first workers preserves the invariant.
LEMMA LaunchInv == ASSUME IInv, Launch PROVE IInv'
<1> USE DEF Launch, ctxVars, fileVars, flushVars
<1>1. /\ Active = {} /\ result = "none" /\ woken = {} /\ phase = "prepare"
      /\ \A w \in Workers : waking[w] = {}
  BY DEF IInv, QuietStart
<1>2. pc' \in [Workers -> Labels] /\ \A w \in Workers : pc'[w] # "broken"
  BY DEF Labels
<1>3. TypeOK'
  <2>1. SchedulerTypeOK'
    BY DEF IInv, TypeOK, SchedulerTypeOK, TableOK, ShownOK, WorkersOK, Ids, schedVars
  <2> QED
    BY <1>2, <2>1 DEF IInv, TypeOK, Phases
<1>4. Active' = {} /\ Ids' = Ids /\ chunks' = chunks
  BY <1>1 DEF Active, Pending, Ids, schedVars
<1>5. InsideFile' /\ Covered'
  BY <1>1, <1>4 DEF IInv, InsideFile, Covered, Bytes
<1>6. QuietStart' /\ SuccessMeansWhole' /\ RetirementIsClean'
  BY <1>1 DEF QuietStart, SuccessMeansWhole, IInv, RetirementIsClean
<1>7. SidecarSound'
  BY DEF IInv, SidecarSound, Covers, Bytes
<1>8. UnsettledIsHeld'
  BY <1>1, <1>4 DEF IInv, UnsettledIsHeld
<1>9. /\ OneChunkEach' /\ FreeHandsEmpty' /\ CountedIsLanded' /\ FinishedIsFull'
      /\ RetiringIsDrained'
  BY <1>4 DEF OneChunkEach, FreeHandsEmpty, CountedIsLanded, FinishedIsFull,
     RetiringIsDrained
<1>10. WokenIsRetiring'
  BY <1>1, <1>2 DEF WokenIsRetiring
<1> QED
  BY <1>3, <1>5, <1>6, <1>7, <1>8, <1>9, <1>10 DEF IInv

\* runWorkers says "ok" only over an empty table, which misses no byte.
LEMMA JoinInv == ASSUME IInv, Join PROVE IInv'
<1> USE DEF Join, ctxVars, fileVars, flushVars
<1>1. TypeOK'
  BY WorkersHalfAside DEF IInv, TypeOK, workerVars, Phases
<1>2. InsideFile' /\ Covered'
  BY DEF IInv, InsideFile, Covered, Ids, Missing, Bytes, schedVars
<1>3. QuietStart'
  BY DEF QuietStart
<1>4. SuccessMeansWhole'
  <2> SUFFICES ASSUME result' = "ok" PROVE Bytes \subseteq disk
    BY DEF SuccessMeansWhole, IInv, TypeOK, Bytes
  <2>1. Idle /\ phase = "run"
    OBVIOUS
  <2> QED
    BY <2>1 DEF IInv, Covered, Idle
<1>5. SidecarSound' /\ RetirementIsClean'
  BY DEF IInv, SidecarSound, Covers, RetirementIsClean, Bytes
<1> QED
  BY <1>1, <1>2, <1>3, <1>4, <1>5, WorkersHalfAside DEF IInv

\* The last save of a failed run preserves the invariant.
LEMMA SaveOnErrorInv == ASSUME IInv, SaveOnError PROVE IInv'
<1> USE DEF SaveOnError, ctxVars, flushVars
<1>1. side' = side \/ side' = {Snapshot}
  OBVIOUS
<1>2. /\ Covers(Snapshot) /\ IsFiniteSet(Snapshot) /\ Snapshot \subseteq RangeType
      /\ \A s \in Snapshot : s.end <= Total
  BY SnapshotSound
<1>3. TypeOK'
  BY <1>1, <1>2, WorkersHalfAside DEF IInv, TypeOK, workerVars, Phases
<1>4. InsideFile'
  BY <1>1, <1>2 DEF IInv, InsideFile, Ids, schedVars
<1>5. Covered' /\ QuietStart'
  BY DEF IInv, Covered, QuietStart, Ids, Missing, Bytes, schedVars
<1>6. SidecarSound'
  BY <1>1, <1>2 DEF IInv, SidecarSound, Covers, Bytes
<1>7. SuccessMeansWhole' /\ RetirementIsClean'
  BY DEF IInv, SuccessMeansWhole, RetirementIsClean, Bytes
<1> QED
  BY <1>3, <1>4, <1>5, <1>6, <1>7, WorkersHalfAside DEF IInv

-----------------------------------------------------------------------------
(* The theorems. *)

\* The first state satisfies the invariant.
LEMMA InitInv == Init => IInv
<1> SUFFICES ASSUME Init PROVE IInv
  OBVIOUS
<1> USE DEF Init
<1>1. Ids = {} /\ Active = {} /\ chunks = [i \in Ids |-> chunks[i]] /\ DOMAIN shown = {}
  BY DEF Ids, Active, Pending
<1>2. TypeOK
  <2>1. SchedulerTypeOK
    BY <1>1 DEF SchedulerTypeOK, TableOK, ShownOK, WorkersOK
  <2>2. /\ pc \in [Workers -> Labels] /\ last \in [Workers -> BOOLEAN]
        /\ tries \in [Workers -> Nat] /\ heard \in [Workers -> BOOLEAN]
        /\ waking \in [Workers -> SUBSET Workers]
    BY DEF Labels
  <2> QED
    BY <2>1, <2>2 DEF TypeOK, Phases
<1>3. /\ InsideFile /\ Covered /\ QuietStart /\ SidecarSound /\ SuccessMeansWhole
      /\ RetirementIsClean
  BY <1>1 DEF InsideFile, Covered, QuietStart, SidecarSound, SuccessMeansWhole,
     RetirementIsClean
<1>4. /\ OneChunkEach /\ FreeHandsEmpty /\ UnsettledIsHeld /\ CountedIsLanded
      /\ FinishedIsFull /\ RetiringIsDrained /\ WokenIsRetiring
  BY <1>1 DEF OneChunkEach, FreeHandsEmpty, UnsettledIsHeld, CountedIsLanded,
     FinishedIsFull, RetiringIsDrained, WokenIsRetiring
<1> QED
  BY <1>2, <1>3, <1>4 DEF IInv

\* A step that changes nothing.
LEMMA StutterInv == ASSUME IInv, UNCHANGED vars PROVE IInv'
<1> USE DEF vars, ctxVars, fileVars, flushVars, runVars
<1>1. TypeOK'
  BY WorkersHalfAside DEF IInv, TypeOK, workerVars
<1>2. InsideFile' /\ Covered' /\ QuietStart'
  BY DEF IInv, InsideFile, Covered, QuietStart, Active, Pending, Ids, Missing, Bytes,
         schedVars, workerVars
<1>3. SidecarSound' /\ SuccessMeansWhole' /\ RetirementIsClean'
  BY DEF IInv, SidecarSound, Covers, SuccessMeansWhole, RetirementIsClean, Bytes
<1> QED
  BY <1>1, <1>2, <1>3, WorkersHalfAside DEF IInv

\* Every step of the pool preserves the invariant.
LEMMA StepInv == IInv /\ [Next]_vars => IInv'
<1> SUFFICES ASSUME IInv, [Next]_vars PROVE IInv'
  OBVIOUS
<1>1. ASSUME NEW w \in Workers, WorkerStep(w) PROVE IInv'
  <2>1. CASE \E n \in 1 .. BufMax : Read(w, n)
    BY <2>1, ReadInv
  <2> QED
    BY <1>1, <2>1, MovesAside, CallNextInv, WriteAtInv, CountBytesInv, FinishInv,
       EscapeInv, UnwindInv, AbsorbNoiseInv, FailInv, WakeInv DEF WorkerStep
<1>2. CASE \E g, w \in Workers : Spawn(g, w)
  BY <1>2, MovesAside
<1>3. CASE \E g \in Workers, keep \in 1 .. Parts - 1 : Retire(g, keep)
  BY <1>3, RetireInv
<1>4. CASE MainStep
  BY <1>4, ResumeInv, InvalidateInv, StartOverInv, PrepareInv, LaunchInv, JoinInv,
     SaveOnErrorInv DEF MainStep
<1>5. CASE Rerun \/ Crash
  BY <1>5, ForgetInv DEF Rerun, Crash
<1>6. CASE Stop \/ UNCHANGED vars
  BY <1>6, StutterInv DEF Stop
<1> QED
  BY <1>1, <1>2, <1>3, <1>4, <1>5, <1>6, ParentCancelInv, FlushTickInv, FlushSaveInv
  DEF Next

\* The inductive invariant holds in every state of every run of the pool:
\* what each chunk stands for, at every step of the worker that holds it.
THEOREM PoolInvariantHolds == Spec => []IInv
  BY InitInv, StepInv, PTL DEF Spec

\* The scheduler's tables and the pool's variables keep their types; in
\* particular no chunk is ever claimed past its end, however it is cut.
THEOREM PoolTypes == Spec => []TypeOK
<1>1. IInv => TypeOK
  BY DEF IInv
<1> QED
  BY <1>1, PoolInvariantHolds, PTL

\* Whatever is on disk as the sidecar, or about to be, a resume from it skips
\* only bytes that the staging file holds, wherever a crash, a cancellation
\* or a failed write stopped the workers, and however often it did.
THEOREM SidecarAlwaysSound == Spec => []SidecarSound
<1>1. IInv => SidecarSound
  BY DEF IInv
<1> QED
  BY <1>1, PoolInvariantHolds, PTL

\* runWorkers returns nil only when every byte of the object is in the file.
THEOREM SuccessIsWhole == Spec => []SuccessMeansWhole
<1>1. IInv => SuccessMeansWhole
  BY DEF IInv
<1> QED
  BY <1>1, PoolInvariantHolds, PTL

\* worker.run never returns "internal: retired worker left chunk incomplete":
\* demote has drained the chunk of whoever is cancelled for retirement.
THEOREM RetirementNetHolds == Spec => []RetirementIsClean
<1>1. IInv => RetirementIsClean
  BY DEF IInv
<1> QED
  BY <1>1, PoolInvariantHolds, PTL

\* No worker ever holds two chunks, so complete and the retirement net never
\* lose one.
THEOREM NeverTwoChunks == Spec => []OneChunkEach
<1>1. IInv => OneChunkEach
  BY DEF IInv
<1> QED
  BY <1>1, PoolInvariantHolds, PTL

=============================================================================
