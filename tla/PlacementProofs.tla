-------------------------- MODULE PlacementProofs --------------------------
(***************************************************************************)
(* The placement's invariants, for any number of workers and addresses and *)
(* whatever the clocks, dials and rates do.  First what each method of     *)
(* nodePlacement keeps, then one step per action.                          *)
(***************************************************************************)
EXTENDS Placement, FiniteSetTheorems, TLAPS

Place == Addrs \cup {None}

PType == [node : [Addrs -> NodeType], reg : [Workers -> RegType], listed : SUBSET Addrs,
          pending : BOOLEAN, closed : BOOLEAN, cooling : BOOLEAN, moved : BOOLEAN]

AtType == [pc : Labels, pin : Place, conn : Place, fb : Place]

CullerType == [pc : {"wait", "judge", "cancel"}, addrs : SUBSET Addrs,
               fed : SUBSET Addrs, todo : SUBSET Workers]

On(q, a) == {v \in Workers : q.reg[v].addr = a}

Owed(q, a) == IF q.pending /\ a = election THEN 1 ELSE 0

\* Each address counts its workers, and the election's connection.
Counted(q) == \A a \in Addrs : q.node[a].conns = Cardinality(On(q, a)) + Owed(q, a)

\* What a method about worker w leaves of the fields q when it makes them s,
Touches(q, s, w) ==
    /\ s \in PType
    /\ s.closed = q.closed
    /\ \A v \in Workers \ {w} : s.reg[v] = q.reg[v]
    /\ \A a \in Addrs : s.node[a].strikes = q.node[a].strikes
    /\ Counted(q) => Counted(s)

\* and of w's own registration, if it only moves its connection.
Keeps(q, s, w) ==
    /\ Touches(q, s, w)
    /\ s.reg[w].rotate = q.reg[w].rotate /\ s.reg[w].late = q.reg[w].late
    /\ s.reg[w].hit => q.reg[w].hit /\ s.reg[w].addr = q.reg[w].addr

-----------------------------------------------------------------------------
(* The methods *)

\* The parts of the fields.
LEMMA RegOf ==
  ASSUME NEW q \in PType, NEW w \in Workers
  PROVE  q.reg[w] \in RegType
BY DEF PType

\* and of an address's record.
LEMMA NodeOf ==
  ASSUME NEW q \in PType, NEW a \in Addrs
  PROVE  q.node[a] \in NodeType
BY DEF PType

\* What two methods in a row about a worker both keep.
LEMMA KeepsTwice ==
  ASSUME NEW q, NEW s, NEW t, NEW w \in Workers, Keeps(q, s, w), Keeps(s, t, w)
  PROVE  Keeps(q, t, w)
BY DEF Keeps, Touches

\* Nothing done keeps everything.
LEMMA KeepsNothing ==
  ASSUME NEW q \in PType, NEW w \in Workers
  PROVE  Keeps(q, q, w)
BY DEF Keeps, Touches

\* workerLocked makes a registration without an address.
LEMMA RegisteredKeeps ==
  ASSUME NEW q \in PType, NEW w \in Workers
  PROVE  /\ Keeps(q, Registered(q, w), w)
         /\ Registered(q, w).pending = q.pending
         /\ Registered(q, w).reg[w].addr = q.reg[w].addr
<1> DEFINE s == Registered(q, w)
<1>1. CASE q.reg[w].in
  <2>1. s = q
    BY <1>1 DEF Registered
  <2> QED
    BY <2>1, KeepsNothing
<1>2. CASE ~q.reg[w].in
  <2>1. /\ s \in PType
        /\ s.closed = q.closed /\ s.pending = q.pending
        /\ s.node = q.node
        /\ \A v \in Workers \ {w} : s.reg[v] = q.reg[v]
        /\ s.reg[w] = [q.reg[w] EXCEPT !.in = TRUE, !.counter = "fresh"]
    <3> DEFINE new == [q.reg[w] EXCEPT !.in = TRUE, !.counter = "fresh"]
    <3>1. new \in RegType
      BY RegOf DEF RegType
    <3>2. s = [q EXCEPT !.reg[w] = new, !.moved = TRUE]
      BY <1>2 DEF Registered
    <3> HIDE DEF new, s
    <3>3. /\ s \in PType
          /\ s.closed = q.closed /\ s.pending = q.pending
          /\ s.node = q.node
          /\ \A v \in Workers \ {w} : s.reg[v] = q.reg[v]
          /\ s.reg[w] = new
      BY <3>1, <3>2 DEF PType
    <3> QED
      BY <3>3 DEF new
  <2>2. /\ s.reg[w].addr = q.reg[w].addr /\ s.reg[w].hit = q.reg[w].hit
        /\ s.reg[w].rotate = q.reg[w].rotate /\ s.reg[w].late = q.reg[w].late
    BY <2>1, RegOf DEF RegType
  <2>3. \A a \in Addrs : On(s, a) = On(q, a) /\ Owed(s, a) = Owed(q, a)
    BY <2>1, <2>2 DEF On, Owed
  <2> QED
    BY <2>1, <2>2, <2>3 DEF Keeps, Touches, Counted
<1> QED
  BY <1>1, <1>2

\* Moving a connection from one address to another.
LEMMA RecountedType ==
  ASSUME NEW node \in [Addrs -> NodeType], NEW old, NEW a
  PROVE  /\ Recounted(node, old, a) \in [Addrs -> NodeType]
         /\ \A b \in Addrs :
              /\ Recounted(node, old, a)[b].strikes = node[b].strikes
              /\ Recounted(node, old, a)[b].conns =
                   (IF b = old /\ node[b].conns > 0 THEN node[b].conns - 1
                    ELSE node[b].conns) + (IF b = a THEN 1 ELSE 0)
BY DEF Recounted, NodeType

\* The sets of workers by address when one moves.
LEMMA OnMoves ==
  ASSUME NEW q \in PType, NEW s \in PType, NEW w \in Workers, NEW a \in Place,
         \A v \in Workers \ {w} : s.reg[v].addr = q.reg[v].addr,
         s.reg[w].addr = a, a # q.reg[w].addr, NEW b \in Addrs
  PROVE  /\ IsFiniteSet(On(q, b)) /\ IsFiniteSet(On(s, b))
         /\ Cardinality(On(q, b)) \in Nat
         /\ b = a => Cardinality(On(s, b)) = Cardinality(On(q, b)) + 1
         /\ b = q.reg[w].addr =>
              /\ Cardinality(On(q, b)) > 0
              /\ Cardinality(On(s, b)) = Cardinality(On(q, b)) - 1
         /\ b \notin {a, q.reg[w].addr} => Cardinality(On(s, b)) = Cardinality(On(q, b))
<1>1. IsFiniteSet(On(q, b)) /\ IsFiniteSet(On(s, b))
  BY PlacementAssumption, FS_Subset DEF On
<1>2. Cardinality(On(q, b)) \in Nat /\ Cardinality(On(s, b)) \in Nat
  BY <1>1, FS_CardinalityType
<1>3. CASE b = a
  <2>1. On(s, b) = On(q, b) \cup {w} /\ w \notin On(q, b)
    BY <1>3 DEF On
  <2> QED
    BY <2>1, <1>1, <1>2, <1>3, FS_AddElement
<1>4. CASE b = q.reg[w].addr
  <2>1. On(s, b) = On(q, b) \ {w} /\ w \in On(q, b)
    BY <1>4 DEF On
  <2> QED
    BY <2>1, <1>1, <1>2, <1>4, FS_RemoveElement
<1>5. CASE b \notin {a, q.reg[w].addr}
  <2>1. On(s, b) = On(q, b)
    BY <1>5 DEF On
  <2> QED
    BY <2>1, <1>1, <1>2, <1>5
<1> QED
  BY <1>1, <1>2, <1>3, <1>4, <1>5

\* assignLocked moves the worker and its connection.
LEMMA AssignedKeeps ==
  ASSUME NEW q \in PType, NEW w \in Workers, NEW a \in Place, NEW force \in BOOLEAN
  PROVE  /\ Keeps(q, Assigned(q, w, a, force), w)
         /\ Assigned(q, w, a, force).reg[w].addr = a
         /\ Assigned(q, w, a, force).pending = q.pending
<1> DEFINE s == Assigned(q, w, a, force)
           old == q.reg[w].addr
<1>1. CASE old = a /\ ~force
  <2>1. s = q
    BY <1>1 DEF Assigned
  <2> QED
    BY <2>1, <1>1, KeepsNothing
<1>2. CASE ~(old = a /\ ~force)
  <2> DEFINE node == IF old = a THEN q.node ELSE Recounted(q.node, old, a)
  <2>1. node \in [Addrs -> NodeType] /\ \A b \in Addrs : node[b].strikes = q.node[b].strikes
    BY RecountedType DEF PType
  <2> HIDE DEF node
  <2>2. /\ s \in PType
        /\ s.closed = q.closed /\ s.pending = q.pending
        /\ s.node = node
        /\ \A v \in Workers \ {w} : s.reg[v] = q.reg[v]
        /\ s.reg[w].addr = a /\ s.reg[w].hit = (q.reg[w].hit /\ old = a)
        /\ s.reg[w].rotate = q.reg[w].rotate /\ s.reg[w].late = q.reg[w].late
    <3> DEFINE new == [q.reg[w] EXCEPT !.addr = a, !.hit = @ /\ old = a,
                                       !.counter = IF a = None THEN "nil" ELSE "empty"]
    <3>1. new \in RegType
      BY RegOf DEF RegType, Place
    <3>2. s = [q EXCEPT !.node = node, !.reg[w] = new, !.moved = TRUE]
      BY <1>2 DEF Assigned, node
    <3>3. /\ new.addr = a /\ new.hit = (q.reg[w].hit /\ old = a)
          /\ new.rotate = q.reg[w].rotate /\ new.late = q.reg[w].late
      BY RegOf DEF RegType
    <3> HIDE DEF new, s
    <3>4. /\ s \in PType
          /\ s.closed = q.closed /\ s.pending = q.pending
          /\ s.node = node
          /\ \A v \in Workers \ {w} : s.reg[v] = q.reg[v]
          /\ s.reg[w] = new
      BY <3>1, <3>2, <2>1 DEF PType
    <3> QED
      BY <3>3, <3>4
  <2>3. Counted(q) => Counted(s)
    <3> SUFFICES ASSUME Counted(q), NEW b \in Addrs
                 PROVE  s.node[b].conns = Cardinality(On(s, b)) + Owed(s, b)
      BY DEF Counted
    <3>1. Owed(s, b) = Owed(q, b) /\ Owed(q, b) \in Nat
      BY <2>2 DEF Owed
    <3>2. q.node[b].conns = Cardinality(On(q, b)) + Owed(q, b)
      BY DEF Counted
    <3>3. CASE old = a
      <4>1. On(s, b) = On(q, b)
        BY <2>2, <3>3 DEF On
      <4> QED
        BY <4>1, <3>1, <3>2, <3>3, <2>2 DEF node
    <3>4. CASE old # a
      <4>1. s.node[b].conns = (IF b = old /\ q.node[b].conns > 0 THEN q.node[b].conns - 1
                               ELSE q.node[b].conns) + (IF b = a THEN 1 ELSE 0)
        BY <3>4, <2>2, RecountedType DEF node, PType
      <4>2. /\ Cardinality(On(q, b)) \in Nat
            /\ b = a => Cardinality(On(s, b)) = Cardinality(On(q, b)) + 1
            /\ b = old => /\ Cardinality(On(q, b)) > 0
                          /\ Cardinality(On(s, b)) = Cardinality(On(q, b)) - 1
            /\ b \notin {a, old} => Cardinality(On(s, b)) = Cardinality(On(q, b))
        BY <3>4, <2>2, OnMoves
      <4> QED
        BY <4>1, <4>2, <3>1, <3>2, <3>4
    <3> QED
      BY <3>3, <3>4
  <2> QED
    BY <2>1, <2>2, <2>3 DEF Keeps, Touches
<1> QED
  BY <1>1, <1>2

\* releaseAddress leaves the worker nowhere.
LEMMA ReleasedKeeps ==
  ASSUME NEW q \in PType, NEW w \in Workers
  PROVE  /\ Keeps(q, Released(q, w), w)
         /\ Released(q, w).reg[w].addr = None
         /\ Released(q, w).pending = q.pending
<1>1. CASE q.reg[w].addr = None
  BY <1>1, KeepsNothing DEF Released
<1>2. CASE q.reg[w].addr # None
  BY <1>2, AssignedKeeps DEF Released, Place
<1> QED
  BY <1>1, <1>2

\* A registration may change all but its address without being counted anew.
LEMMA FieldTouches ==
  ASSUME NEW q \in PType, NEW w \in Workers, NEW new \in RegType,
         new.addr = q.reg[w].addr
  PROVE  /\ Touches(q, [q EXCEPT !.reg[w] = new], w)
         /\ [q EXCEPT !.reg[w] = new].reg[w] = new
         /\ [q EXCEPT !.reg[w] = new].pending = q.pending
<1> DEFINE s == [q EXCEPT !.reg[w] = new]
<1>1. /\ s \in PType /\ s.closed = q.closed /\ s.pending = q.pending /\ s.node = q.node
      /\ \A v \in Workers \ {w} : s.reg[v] = q.reg[v]
      /\ s.reg[w] = new
  BY DEF PType
<1> HIDE DEF s
<1>2. \A a \in Addrs : On(s, a) = On(q, a) /\ Owed(s, a) = Owed(q, a)
  BY <1>1 DEF On, Owed
<1>3. Touches(q, s, w)
  BY <1>1, <1>2 DEF Touches, Counted
<1> QED
  BY <1>1, <1>3 DEF s

\* The reader's first byte.
LEMMA ReadingKeeps ==
  ASSUME NEW q \in PType, NEW w \in Workers
  PROVE  /\ Keeps(q, Reading(q, w), w)
         /\ Reading(q, w).reg[w].addr = q.reg[w].addr
<1> DEFINE c == IF q.reg[w].counter = "empty" THEN "fed" ELSE q.reg[w].counter
           new == [q.reg[w] EXCEPT !.counter = c]
<1>1. c \in {"nil", "fresh", "empty", "fed"}
  BY RegOf DEF RegType
<1>2. Reading(q, w) = [q EXCEPT !.reg[w] = new]
  BY DEF Reading, PType
<1> HIDE DEF c
<1>3. /\ new \in RegType
      /\ new.addr = q.reg[w].addr /\ new.hit = q.reg[w].hit
      /\ new.rotate = q.reg[w].rotate /\ new.late = q.reg[w].late
  BY <1>1, RegOf DEF RegType
<1> HIDE DEF new
<1> QED
  BY <1>2, <1>3, FieldTouches DEF Keeps

\* A flag of a registration set or cleared.
LEMMA RotateTouches ==
  ASSUME NEW q \in PType, NEW w \in Workers, NEW b \in BOOLEAN
  PROVE  LET s == [q EXCEPT !.reg[w].rotate = b]
         IN  /\ Touches(q, s, w)
             /\ s.reg[w].addr = q.reg[w].addr /\ s.reg[w].hit = q.reg[w].hit
             /\ s.reg[w].late = q.reg[w].late /\ s.reg[w].rotate = b
<1> DEFINE new == [q.reg[w] EXCEPT !.rotate = b]
<1>1. [q EXCEPT !.reg[w].rotate = b] = [q EXCEPT !.reg[w] = new]
  BY DEF PType
<1>2. /\ new \in RegType
      /\ new.addr = q.reg[w].addr /\ new.hit = q.reg[w].hit
      /\ new.rotate = b /\ new.late = q.reg[w].late
  BY RegOf DEF RegType
<1> HIDE DEF new
<1> QED
  BY <1>1, <1>2, FieldTouches

\* The mark of a late dial.
LEMMA LateTouches ==
  ASSUME NEW q \in PType, NEW w \in Workers
  PROVE  LET s == [q EXCEPT !.reg[w].late = TRUE]
         IN  /\ Touches(q, s, w)
             /\ s.reg[w] = [q.reg[w] EXCEPT !.late = TRUE]
             /\ s.reg[w].addr = q.reg[w].addr /\ s.reg[w].hit = q.reg[w].hit
             /\ s.reg[w].rotate = q.reg[w].rotate /\ s.reg[w].late
<1> DEFINE new == [q.reg[w] EXCEPT !.late = TRUE]
<1>1. [q EXCEPT !.reg[w].late = TRUE] = [q EXCEPT !.reg[w] = new]
  BY DEF PType
<1>2. /\ new \in RegType
      /\ new.addr = q.reg[w].addr /\ new.hit = q.reg[w].hit
      /\ new.rotate = q.reg[w].rotate /\ new.late
  BY RegOf DEF RegType
<1> HIDE DEF new
<1>3. [q EXCEPT !.reg[w] = new].reg[w] = new
  BY <1>2, FieldTouches
<1> QED
  BY <1>1, <1>2, <1>3, FieldTouches DEF new

\* The address to avoid.
LEMMA AvoidKeeps ==
  ASSUME NEW q \in PType, NEW w \in Workers, NEW a \in Place
  PROVE  LET s == [q EXCEPT !.reg[w].avoid = a]
         IN  Keeps(q, s, w) /\ s.reg[w].addr = q.reg[w].addr
<1> DEFINE new == [q.reg[w] EXCEPT !.avoid = a]
<1>1. [q EXCEPT !.reg[w].avoid = a] = [q EXCEPT !.reg[w] = new]
  BY DEF PType
<1>2. /\ new \in RegType
      /\ new.addr = q.reg[w].addr /\ new.hit = q.reg[w].hit
      /\ new.rotate = q.reg[w].rotate /\ new.late = q.reg[w].late
  BY RegOf DEF RegType, Place
<1> HIDE DEF new
<1> QED
  BY <1>1, <1>2, FieldTouches DEF Keeps

\* markAvailabilityFailure counts nothing and leaves every registration.
LEMMA ParkedKeeps ==
  ASSUME NEW q \in PType, NEW as, NEW w \in Workers
  PROVE  /\ Keeps(q, Parked(q, as), w)
         /\ Parked(q, as).reg = q.reg
         /\ \A a \in Addrs : Parked(q, as).node[a].conns = q.node[a].conns
<1> DEFINE n == [a \in Addrs |-> IF a \in as THEN [q.node[a] EXCEPT !.parked = TRUE]
                                 ELSE q.node[a]]
           s == Parked(q, as)
<1>1. /\ n \in [Addrs -> NodeType]
      /\ \A a \in Addrs : n[a].conns = q.node[a].conns /\ n[a].strikes = q.node[a].strikes
  BY NodeOf DEF NodeType
<1>2. s = [q EXCEPT !.node = n]
  BY DEF Parked
<1> HIDE DEF n, s
<1>3. /\ s \in PType /\ s.closed = q.closed /\ s.pending = q.pending /\ s.node = n
      /\ s.reg = q.reg
  BY <1>1, <1>2 DEF PType
<1>4. \A a \in Addrs : On(s, a) = On(q, a) /\ Owed(s, a) = Owed(q, a)
  BY <1>3 DEF On, Owed
<1>5. Keeps(q, s, w)
  BY <1>1, <1>3, <1>4 DEF Keeps, Touches, Counted
<1> QED
  BY <1>1, <1>3, <1>5 DEF s

\* removeWorker of a worker that has released its address.
LEMMA RemovedTouches ==
  ASSUME NEW q \in PType, NEW w \in Workers, q.reg[w].addr = None
  PROVE  /\ Touches(q, Removed(q, w), w)
         /\ Removed(q, w).reg[w].addr = None /\ ~Removed(q, w).reg[w].in
         /\ Removed(q, w).reg[w].hit => q.reg[w].hit
<1>1. CASE ~q.reg[w].in
  BY <1>1, KeepsNothing DEF Removed, Keeps
<1>2. CASE q.reg[w].in
  <2> DEFINE new == [Absent EXCEPT !.late = q.reg[w].late]
             t == [q EXCEPT !.reg[w] = new]
             s == Removed(q, w)
  <2>1. /\ new \in RegType /\ new.addr = q.reg[w].addr
        /\ new.addr = None /\ ~new.in /\ ~new.hit
    BY RegOf DEF RegType, Absent
  <2> HIDE DEF new
  <2>2. Touches(q, t, w) /\ t.reg[w] = new
    BY <2>1, FieldTouches
  <2>3. q.node \in [Addrs -> NodeType]
    BY DEF PType
  <2>4. Recounted(q.node, None, None) = q.node
    <3>1. \A a \in Addrs :
             [q.node[a] EXCEPT !.conns =
                (IF a = None /\ @ > 0 THEN @ - 1 ELSE @) + (IF a = None THEN 1 ELSE 0)]
             = q.node[a]
      BY NodeOf, PlacementAssumption DEF NodeType
    <3>2. Recounted(q.node, None, None) = [a \in Addrs |-> q.node[a]]
      BY <3>1 DEF Recounted
    <3> QED
      BY <3>2, <2>3
  <2>5. s = [t EXCEPT !.moved = TRUE]
    <3>1. Removed(q, w) = [q EXCEPT !.node = Recounted(q.node, None, None),
                                    !.reg[w] = new, !.moved = TRUE]
      BY <1>2 DEF Removed, new
    <3>2. Removed(q, w) = [q EXCEPT !.node = q.node, !.reg[w] = new, !.moved = TRUE]
      BY <3>1, <2>4
    <3> QED
      BY <3>2 DEF PType
  <2> HIDE DEF t, s
  <2>6. t \in PType
    BY <2>2 DEF Touches
  <2>7. /\ s \in PType /\ s.closed = t.closed /\ s.pending = t.pending
        /\ s.node = t.node /\ s.reg = t.reg
    BY <2>5, <2>6 DEF PType
  <2>8. \A a \in Addrs : On(s, a) = On(t, a) /\ Owed(s, a) = Owed(t, a)
    BY <2>7 DEF On, Owed
  <2>9. Touches(q, s, w)
    BY <2>2, <2>7, <2>8 DEF Touches, Counted
  <2> QED
    BY <2>1, <2>2, <2>7, <2>9 DEF s
<1> QED
  BY <1>1, <1>2

\* workerLocked, then assignLocked.
LEMMA PlacedKeeps ==
  ASSUME NEW q \in PType, NEW w \in Workers, NEW a \in Place, NEW force \in BOOLEAN
  PROVE  /\ Keeps(q, Assigned(Registered(q, w), w, a, force), w)
         /\ Assigned(Registered(q, w), w, a, force).reg[w].addr = a
<1> DEFINE r == Registered(q, w)
<1>1. Keeps(q, r, w) /\ r \in PType
  BY RegisteredKeeps DEF Keeps, Touches
<1> HIDE DEF r
<1>2. /\ Keeps(r, Assigned(r, w, a, force), w)
      /\ Assigned(r, w, a, force).reg[w].addr = a
  BY <1>1, AssignedKeeps
<1>3. Keeps(q, Assigned(r, w, a, force), w)
  BY <1>1, <1>2, KeepsTwice
<1> QED
  BY <1>2, <1>3 DEF r

\* markDialWinner and gotConn put the worker on the address, unless the placement
\* has closed.
LEMMA WonKeeps ==
  ASSUME NEW q \in PType, NEW w \in Workers, NEW a \in Place
  PROVE  /\ Keeps(q, Won(q, w, a), w)
         /\ q.closed \/ a = None => Won(q, w, a) = q
         /\ ~q.closed /\ a # None => Won(q, w, a).reg[w].addr = a
<1>1. CASE q.closed \/ a = None
  BY <1>1, KeepsNothing DEF Won
<1>2. CASE ~(q.closed \/ a = None)
  <2>1. TRUE \in BOOLEAN
    OBVIOUS
  <2>2. Won(q, w, a) = Assigned(Registered(q, w), w, a, TRUE)
    BY <1>2 DEF Won
  <2>3. /\ Keeps(q, Assigned(Registered(q, w), w, a, TRUE), w)
        /\ Assigned(Registered(q, w), w, a, TRUE).reg[w].addr = a
    BY <2>1, PlacedKeeps
  <2> QED
    BY <1>2, <2>2, <2>3
<1> QED
  BY <1>1, <1>2

\* gotConn, the same for a request's connection, or for none of the pool.
LEMMA GotConnKeeps ==
  ASSUME NEW q \in PType, NEW w \in Workers, NEW a \in Place
  PROVE  /\ Keeps(q, GotConn(q, w, a), w)
         /\ ~q.closed => GotConn(q, w, a).reg[w].addr = a
<1>1. CASE q.closed
  BY <1>1, KeepsNothing DEF GotConn
<1>2. CASE ~q.closed
  <2>1. FALSE \in BOOLEAN
    OBVIOUS
  <2>2. GotConn(q, w, a) = Assigned(Registered(q, w), w, a, FALSE)
    BY <1>2 DEF GotConn
  <2>3. /\ Keeps(q, Assigned(Registered(q, w), w, a, FALSE), w)
        /\ Assigned(Registered(q, w), w, a, FALSE).reg[w].addr = a
    BY <2>1, PlacedKeeps
  <2> QED
    BY <1>2, <2>2, <2>3
<1> QED
  BY <1>1, <1>2

\* attachInitial hands the election's connection over to the worker.
LEMMA AttachedKeeps ==
  ASSUME NEW q \in PType, NEW w \in Workers
  PROVE  /\ Keeps(q, Attached(q, w), w)
         /\ ~q.closed => Attached(q, w).reg[w].addr = election
<1> DEFINE q1 == IF q.pending
                 THEN [q EXCEPT !.node = Recounted(q.node, election, None), !.pending = FALSE]
                 ELSE q
<1>1. Keeps(q, q1, w)
  <2>1. CASE ~q.pending
    BY <2>1, KeepsNothing
  <2>2. CASE q.pending
    <3> DEFINE n == Recounted(q.node, election, None)
    <3>1. q.node \in [Addrs -> NodeType]
      BY DEF PType
    <3>2. /\ n \in [Addrs -> NodeType]
          /\ \A b \in Addrs :
              /\ n[b].strikes = q.node[b].strikes
              /\ n[b].conns = IF b = election /\ q.node[b].conns > 0
                              THEN q.node[b].conns - 1 ELSE q.node[b].conns
      BY <3>1, RecountedType, NodeOf, PlacementAssumption DEF NodeType
    <3>3. q1 = [q EXCEPT !.node = n, !.pending = FALSE]
      BY <2>2
    <3> HIDE DEF n, q1
    <3>4. /\ q1 \in PType /\ q1.closed = q.closed /\ ~q1.pending /\ q1.node = n
          /\ q1.reg = q.reg
      BY <3>2, <3>3 DEF PType
    <3>5. Counted(q) => Counted(q1)
      <4> SUFFICES ASSUME Counted(q), NEW b \in Addrs
                   PROVE  q1.node[b].conns = Cardinality(On(q1, b)) + Owed(q1, b)
        BY DEF Counted
      <4>1. On(q1, b) = On(q, b) /\ Owed(q1, b) = 0
        BY <3>4 DEF On, Owed
      <4>2. IsFiniteSet(On(q, b))
        BY PlacementAssumption, FS_Subset DEF On
      <4>3. Cardinality(On(q, b)) \in Nat
        BY <4>2, FS_CardinalityType
      <4>4. q.node[b].conns = Cardinality(On(q, b)) + (IF b = election THEN 1 ELSE 0)
        BY <2>2 DEF Counted, Owed
      <4> QED
        BY <4>1, <4>3, <4>4, <3>2, <3>4
    <3> QED
      BY <3>2, <3>4, <3>5 DEF Keeps, Touches
  <2> QED
    BY <2>1, <2>2
<1>2. Attached(q, w) = IF q.closed THEN q1 ELSE Assigned(Registered(q1, w), w, election, FALSE)
  BY DEF Attached
<1> HIDE DEF q1
<1>3. q1 \in PType
  BY <1>1 DEF Keeps, Touches
<1>4. election \in Place /\ FALSE \in BOOLEAN
  BY PlacementAssumption DEF Place
<1>5. CASE q.closed
  BY <1>1, <1>2, <1>5
<1>6. CASE ~q.closed
  <2>1. Attached(q, w) = Assigned(Registered(q1, w), w, election, FALSE)
    BY <1>2, <1>6
  <2>2. /\ Keeps(q1, Assigned(Registered(q1, w), w, election, FALSE), w)
        /\ Assigned(Registered(q1, w), w, election, FALSE).reg[w].addr = election
    BY <1>3, <1>4, PlacedKeeps
  <2>3. Keeps(q1, Attached(q, w), w) /\ Attached(q, w).reg[w].addr = election
    BY <2>1, <2>2
  <2> QED
    BY <1>1, <1>6, <2>3, KeepsTwice
<1> QED
  BY <1>5, <1>6

-----------------------------------------------------------------------------
(* The inductive invariant *)

\* What holds of one worker: where its connection is counted, that it will leave an
\* address that was culled under it, and that it is registered by itself or by a
\* late dial.  It has been on the election's address since attachInitial, and only an
\* attempt is cancelled.
Settled(w) ==
    LET r == p.reg[w]
    IN  /\ r.hit =>
             /\ r.addr # None
             /\ at[w].pc # "first" => r.rotate
             /\ at[w].pc \in InAttempt => w \in slow \cup culler.todo
        /\ ~r.late =>
             /\ at[w].pc = "read" => r.addr = at[w].conn
             /\ at[w].pc = "away" => r.addr = None
             /\ at[w].pc \in {"attached", "first"} => r.addr = election
        /\ at[w].pc \in {"out", "gone"} => (r.addr = None /\ ~r.in) \/ r.late
        /\ w \in slow \cup culler.todo => at[w].pc \in InAttempt

\* Only the culler's own round cancels, and close comes after the last worker left.
Quiet ==
    /\ culler.pc # "cancel" => culler.todo = {}
    /\ p.closed => \A w \in Workers : at[w].pc \in {"out", "gone"}

\* A step that registers no one, moves no one and recounts no address.
BooksKept ==
    /\ \A w \in Workers : Entry(p'.reg[w]) = Entry(p.reg[w])
    /\ \A a \in Addrs : p'.node[a].conns = p.node[a].conns

Inv == TypeOK /\ Counted(p) /\ NeverAllStruck /\ Quiet /\ \A w \in Workers : Settled(w)

StrayType == [worker : Workers, pin : Place, fb : Place]

\* TypeOK, by variable.
LEMMA Typed ==
  TypeOK <=> /\ p \in PType /\ at \in [Workers -> AtType] /\ slow \subseteq Workers
             /\ stray \subseteq StrayType /\ culler \in CullerType /\ may \in Scenarios
BY DEF TypeOK, PType, AtType, StrayType, CullerType, Place

\* Where a reservation or a dial may lead.
LEMMA Places ==
  ASSUME NEW q \in PType
  PROVE  /\ \A x : Best(q, x) \subseteq Place
         /\ \A a, b \in Place :
            \A o \in DialOutcomes(a, b) \cup Abandoned(a, b) : o.winner \in Place
<1>1. q.listed \subseteq Addrs
  BY DEF PType
<1>2. \A x : Best(q, x) \subseteq Place
  BY <1>1 DEF Best, Place
<1>3. \A a, b \in Place :
      \A o \in DialOutcomes(a, b) \cup Abandoned(a, b) : o.winner \in Place
  BY DEF DialOutcomes, Abandoned, Dialled, Place
<1> QED
  BY <1>2, <1>3

\* The invariant after a step of worker w that touches no one else.
LEMMA WorkerStep ==
  ASSUME Inv, NEW w \in Workers, Touches(p, p', w),
         at' \in [Workers -> AtType], \A v \in Workers \ {w} : at'[v] = at[v],
         slow' \subseteq Workers, stray' \subseteq StrayType, may' = may,
         culler' \in CullerType, culler'.pc = culler.pc,
         culler'.todo \subseteq culler.todo,
         \A v \in Workers \ {w} :
            v \in slow \cup culler.todo <=> v \in slow' \cup culler'.todo,
         p.closed => at'[w].pc \in {"out", "gone"},
         Settled(w)'
  PROVE  Inv'
<1>1. TypeOK'
  <2>1. TypeOK' <=> /\ p' \in PType /\ at' \in [Workers -> AtType] /\ slow' \subseteq Workers
             /\ stray' \subseteq StrayType /\ culler' \in CullerType /\ may' \in Scenarios
    BY DEF TypeOK, PType, AtType, StrayType, CullerType, Place
  <2> QED
    BY <2>1, Typed DEF Inv, Touches
<1>2. Counted(p)'
  BY DEF Inv, Touches, Counted, On, Owed
<1>3. NeverAllStruck'
  BY DEF Inv, Touches, NeverAllStruck
<1>4. Quiet'
  BY DEF Inv, Touches, Quiet
<1>5. ASSUME NEW v \in Workers PROVE Settled(v)'
  BY DEF Inv, Touches, Settled
<1> QED
  BY <1>1, <1>2, <1>3, <1>4, <1>5 DEF Inv

\* What dropping its transport makes of a worker.
LEMMA Dropped ==
  ASSUME Inv, NEW w \in Workers, NEW q, NEW l \in {"top", "checked"},
         Touches(p, q, w), q.reg[w].hit => q.reg[w].addr # None, Drop(w, q, l)
  PROVE  /\ Touches(p, p', w) /\ at' \in [Workers -> AtType]
         /\ at'[w].pc = l /\ \A v \in Workers \ {w} : at'[v] = at[v]
         /\ ~p'.reg[w].hit
<1>1. q \in PType
  BY DEF Touches
<1>2. p' = Released(q, w)
  BY DEF Drop
<1>3. Keeps(q, p', w) /\ p'.reg[w].addr = None
  BY <1>1, <1>2, ReleasedKeeps
<1>4. Touches(p, p', w)
  BY <1>3 DEF Keeps, Touches
<1>5. at \in [Workers -> AtType]
  BY Typed DEF Inv
<1>6. /\ at' \in [Workers -> AtType] /\ at'[w].pc = l
      /\ \A v \in Workers \ {w} : at'[v] = at[v]
  BY <1>5 DEF Drop, NoClient, AtType, Labels, Place
<1>7. ~p'.reg[w].hit
  BY <1>3 DEF Keeps
<1> QED
  BY <1>4, <1>6, <1>7

-----------------------------------------------------------------------------
(* The steps of a worker *)

\* A step of a worker in an attempt, or between two, happens before close.
LEMMA OpenBefore ==
  ASSUME Inv, NEW w \in Workers, at[w].pc \notin {"out", "gone"}
  PROVE  ~p.closed
BY DEF Inv, Quiet

\* Every variable's type, for the steps below.
LEMMA Types ==
  ASSUME Inv
  PROVE  /\ p \in PType /\ at \in [Workers -> AtType] /\ slow \subseteq Workers
         /\ stray \subseteq StrayType /\ culler \in CullerType
BY Typed DEF Inv

\* newWorker registers the worker nowhere.
LEMMA SpawnStep == ASSUME Inv, NEW w \in Workers, Spawn(w) PROVE Inv'
<1>1. Keeps(p, p', w)
  BY Types, RegisteredKeeps DEF Spawn
<1>2. /\ at' \in [Workers -> AtType] /\ at'[w].pc = "top"
      /\ \A v \in Workers \ {w} : at'[v] = at[v]
  BY Types DEF Spawn, Goto, AtType, Labels
<1>3. Settled(w)'
  BY <1>1, <1>2 DEF Inv, Settled, Keeps, Spawn, InAttempt
<1> QED
  BY <1>1, <1>2, <1>3, Types, WorkerStep DEF Spawn, Keeps

\* A rotation flagged between attempts releases the address: no flag is left behind.
LEMMA CheckStep == ASSUME Inv, NEW w \in Workers, Check(w) PROVE Inv'
<1>1. at[w].pc = "top" /\ ~p.closed
  BY OpenBefore DEF Check
<1>2. CASE p.reg[w].rotate
  <2> DEFINE q == [p EXCEPT !.reg[w].rotate = FALSE]
  <2>1. FALSE \in BOOLEAN /\ p \in PType
    BY Types
  <2>2. Touches(p, q, w) /\ q.reg[w].addr = p.reg[w].addr /\ q.reg[w].hit = p.reg[w].hit
    BY <2>1, RotateTouches
  <2>3. Drop(w, q, "checked")
    BY <1>2 DEF Check
  <2> HIDE DEF q
  <2>4. q.reg[w].hit => q.reg[w].addr # None
    BY <2>2 DEF Inv, Settled
  <2>5. /\ Touches(p, p', w) /\ at' \in [Workers -> AtType]
        /\ at'[w].pc = "checked" /\ \A v \in Workers \ {w} : at'[v] = at[v]
        /\ ~p'.reg[w].hit
    BY <2>2, <2>3, <2>4, Dropped
  <2>6. Settled(w)'
    BY <1>1, <2>5 DEF Inv, Settled, Check, Request, InAttempt
  <2> QED
    BY <1>1, <2>5, <2>6, Types, WorkerStep DEF Check
<1>3. CASE ~p.reg[w].rotate
  <2>1. /\ at' \in [Workers -> AtType] /\ at'[w].pc = "checked"
        /\ \A v \in Workers \ {w} : at'[v] = at[v]
    BY <1>3, Types DEF Check, Goto, AtType, Labels
  <2>2. p' = p /\ Touches(p, p', w)
    BY <1>3, Types, KeepsNothing DEF Check, Keeps
  <2>3. Settled(w)'
    BY <1>1, <2>1, <2>2 DEF Inv, Settled, InAttempt, Check
  <2> QED
    BY <1>1, <2>1, <2>2, <2>3, Types, WorkerStep DEF Check
<1> QED
  BY <1>2, <1>3

\* The worker takes the election's response, and its address.
LEMMA TakeInitialStep == ASSUME Inv, NEW w \in Workers, TakeInitial(w) PROVE Inv'
<1>1. at[w].pc = "checked" /\ ~p.closed
  BY OpenBefore DEF TakeInitial
<1>2. Keeps(p, p', w) /\ p'.reg[w].addr = election
  BY <1>1, Types, AttachedKeeps DEF TakeInitial
<1>3. /\ at' \in [Workers -> AtType] /\ at'[w].pc = "attached"
      /\ \A v \in Workers \ {w} : at'[v] = at[v]
  BY Types DEF TakeInitial, Goto, AtType, Labels
<1>4. Settled(w)'
  BY <1>1, <1>2, <1>3 DEF Inv, Settled, Keeps, InAttempt, TakeInitial
<1> QED
  BY <1>1, <1>2, <1>3, <1>4, Types, WorkerStep DEF TakeInitial, Keeps

\* reserve moves the worker between attempts, where a flag is still looked at.
LEMMA ReserveStep == ASSUME Inv, NEW w \in Workers, Reserve(w) PROVE Inv'
<1>1. at[w].pc = "checked" /\ ~p.closed
  BY OpenBefore DEF Reserve
<1>2. Keeps(p, p', w) /\ at' \in [Workers -> AtType] /\ at'[w].pc \in {"top", "bound"}
      /\ \A v \in Workers \ {w} : at'[v] = at[v]
  <2>1. CASE /\ p.reg[w].addr # None
             /\ at' = [at EXCEPT ![w] = [NoClient("bound") EXCEPT !.pin = p.reg[w].addr]]
             /\ p' = p
    <3>1. p.reg[w].addr \in Place
      BY Types, RegOf DEF RegType, Place
    <3> QED
      BY <2>1, <3>1, Types, KeepsNothing DEF NoClient, AtType, Labels, Place
  <2>2. ASSUME p.reg[w].addr = None,
               NEW other \in Best(p, p.reg[w].avoid),
               NEW n \in IF other = None THEN Best(p, None) ELSE {other},
               p' = Assigned([p EXCEPT !.reg[w].avoid = None], w, n, FALSE),
               at' = [at EXCEPT ![w] =
                        [NoClient(IF n = None THEN "top" ELSE "bound") EXCEPT !.pin = n]]
        PROVE  /\ Keeps(p, p', w) /\ at' \in [Workers -> AtType]
               /\ at'[w].pc \in {"top", "bound"}
               /\ \A v \in Workers \ {w} : at'[v] = at[v]
    <3>1. n \in Place /\ None \in Place
      BY <2>2, Types, Places DEF Place
    <3> DEFINE q == [p EXCEPT !.reg[w].avoid = None]
    <3>2. Keeps(p, q, w)
      BY <3>1, Types, AvoidKeeps
    <3>3. p' = Assigned(q, w, n, FALSE) /\ FALSE \in BOOLEAN
      BY <2>2
    <3> HIDE DEF q
    <3>4. q \in PType
      BY <3>2 DEF Keeps, Touches
    <3>5. Keeps(q, Assigned(q, w, n, FALSE), w)
      BY <3>1, <3>3, <3>4, AssignedKeeps
    <3>6. Keeps(p, p', w)
      BY <3>2, <3>3, <3>5, KeepsTwice
    <3>7. /\ at' \in [Workers -> AtType] /\ at'[w].pc \in {"top", "bound"}
          /\ \A v \in Workers \ {w} : at'[v] = at[v]
      BY <2>2, <3>1, Types DEF NoClient, AtType, Labels, Place
    <3> QED
      BY <3>6, <3>7
  <2> QED
    BY <2>1, <2>2 DEF Reserve
<1>3. Settled(w)'
  BY <1>1, <1>2 DEF Inv, Settled, Keeps, InAttempt, Reserve
<1> QED
  BY <1>1, <1>2, <1>3, Types, WorkerStep DEF Reserve, Keeps

\* The attempt begins: with a flag it goes back, without one the worker was not hit, so
\* that nobody on a culled address enters an attempt uncancelled.
LEMMA RequestStep == ASSUME Inv, NEW w \in Workers, Request(w) PROVE Inv'
<1>1. at[w].pc \in {"checked", "bound"} /\ ~p.closed
  BY OpenBefore DEF Request
<1>2. CASE p.reg[w].rotate
  <2> DEFINE q == [p EXCEPT !.reg[w].rotate = FALSE]
  <2>1. FALSE \in BOOLEAN /\ p \in PType
    BY Types
  <2>2. Touches(p, q, w) /\ q.reg[w].addr = p.reg[w].addr /\ q.reg[w].hit = p.reg[w].hit
    BY <2>1, RotateTouches
  <2>3. Drop(w, q, "top")
    BY <1>2 DEF Request
  <2> HIDE DEF q
  <2>4. q.reg[w].hit => q.reg[w].addr # None
    BY <2>2 DEF Inv, Settled
  <2>5. /\ Touches(p, p', w) /\ at' \in [Workers -> AtType]
        /\ at'[w].pc = "top" /\ \A v \in Workers \ {w} : at'[v] = at[v]
        /\ ~p'.reg[w].hit
    BY <2>2, <2>3, <2>4, Dropped
  <2>6. Settled(w)'
    BY <1>1, <2>5 DEF Inv, Settled, Check, Request, InAttempt
  <2> QED
    BY <1>1, <2>5, <2>6, Types, WorkerStep DEF Request
<1>3. CASE ~p.reg[w].rotate
  <2>1. Send(w) /\ ~p.reg[w].hit
    BY <1>1, <1>3 DEF Request, Inv, Settled
  <2>2. /\ Keeps(p, p', w) /\ at' \in [Workers -> AtType]
        /\ at'[w].pc \in {"read", "dial"}
        /\ at'[w].pc = "read" => p'.reg[w].addr = at'[w].conn
        /\ \A v \in Workers \ {w} : at'[v] = at[v]
    <3>1. at[w].conn \in Place
      BY Types DEF AtType
    <3>2. CASE /\ p' = Reading(GotConn(p, w, at[w].conn), w)
               /\ Goto(w, "read")
      <4>1. /\ Keeps(p, GotConn(p, w, at[w].conn), w)
            /\ GotConn(p, w, at[w].conn).reg[w].addr = at[w].conn
        BY <1>1, <3>1, Types, GotConnKeeps
      <4>2. /\ Keeps(GotConn(p, w, at[w].conn), p', w)
            /\ p'.reg[w].addr = at[w].conn
        BY <3>2, <4>1, ReadingKeeps DEF Keeps, Touches
      <4>3. Keeps(p, p', w)
        BY <4>1, <4>2, KeepsTwice
      <4>4. /\ at' \in [Workers -> AtType] /\ at'[w].pc = "read"
            /\ at'[w].conn = at[w].conn
            /\ \A v \in Workers \ {w} : at'[v] = at[v]
        BY <3>2, Types DEF Goto, AtType, Labels
      <4> QED
        BY <4>2, <4>3, <4>4
    <3>3. ASSUME p' = p, NEW fb \in Best(p, at[w].pin),
                 at' = [at EXCEPT ![w] = [@ EXCEPT !.pc = "dial", !.conn = None, !.fb = fb]]
          PROVE  /\ Keeps(p, p', w) /\ at' \in [Workers -> AtType] /\ at'[w].pc = "dial"
                 /\ \A v \in Workers \ {w} : at'[v] = at[v]
      <4>1. fb \in Place /\ None \in Place
        BY Types, Places DEF Place
      <4> QED
        BY <3>3, <4>1, Types, KeepsNothing DEF AtType, Labels
    <3> QED
      BY <2>1, <3>2, <3>3 DEF Send
  <2>3. Settled(w)'
    BY <1>1, <2>1, <2>2 DEF Inv, Settled, Keeps, InAttempt, Request
  <2> QED
    BY <1>1, <2>2, <2>3, Types, WorkerStep DEF Request, Keeps
<1> QED
  BY <1>2, <1>3

\* The election's response is read with its attempt cancelled if it was flagged.
LEMMA FirstStep == ASSUME Inv, NEW w \in Workers, First(w) PROVE Inv'
<1>1. at[w].pc = "attached" /\ ~p.closed
  BY OpenBefore DEF First
<1> DEFINE q == [p EXCEPT !.reg[w].rotate = FALSE]
<1>2. FALSE \in BOOLEAN /\ p \in PType
  BY Types
<1>3. /\ Touches(p, q, w) /\ q.reg[w].addr = p.reg[w].addr
      /\ q.reg[w].hit = p.reg[w].hit /\ q.reg[w].late = p.reg[w].late
  BY <1>2, RotateTouches
<1>4. p' = Reading(q, w)
  BY DEF First
<1> HIDE DEF q
<1>5. Keeps(q, p', w) /\ p'.reg[w].addr = q.reg[w].addr
  BY <1>3, <1>4, ReadingKeeps DEF Touches
<1>6. Touches(p, p', w)
  BY <1>3, <1>5 DEF Keeps, Touches
<1>7. /\ at' \in [Workers -> AtType] /\ at'[w].pc = "first"
      /\ \A v \in Workers \ {w} : at'[v] = at[v]
  BY Types DEF First, Goto, AtType, Labels
<1>8. Settled(w)'
  BY <1>1, <1>3, <1>5, <1>7 DEF First, Inv, Settled, Keeps, InAttempt
<1> QED
  BY <1>1, <1>6, <1>7, <1>8, Types, WorkerStep DEF First

\* A cull still to cancel the worker's attempt forgets it when that has ended.
LEMMA EndedTypes ==
  ASSUME Inv, NEW w \in Workers, Ended(w)
  PROVE  /\ slow' \subseteq Workers /\ culler' \in CullerType /\ culler'.pc = culler.pc
         /\ culler'.todo \subseteq culler.todo
         /\ \A v \in Workers \ {w} :
              v \in slow \cup culler.todo <=> v \in slow' \cup culler'.todo
         /\ w \notin slow' \cup culler'.todo
BY Types DEF Ended, CullerType

\* A dial that is left behind.
LEMMA LeftTypes ==
  ASSUME Inv, NEW w \in Workers, LeftDial(w)
  PROVE  stray' \subseteq StrayType
<1>1. [worker |-> w, pin |-> at[w].pin, fb |-> at[w].fb] \in StrayType
  BY Types DEF AtType, StrayType
<1> QED
  BY <1>1, Types DEF LeftDial

\* The dial's end puts the worker where it connected, or nowhere.
LEMMA DialEndStep == ASSUME Inv, NEW w \in Workers, DialEnd(w) PROVE Inv'
<1>1. at[w].pc = "dial" /\ ~p.closed
  BY OpenBefore DEF DialEnd
<1>2. PICK o \in DialOutcomes(at[w].pin, at[w].fb) :
        LET won == Won(Parked(p, ParkedBy(o, at[w].pin)), w, o.winner)
        IN  \/ /\ o.winner # None
               /\ p' = Reading(GotConn(won, w, o.winner), w)
               /\ at' = [at EXCEPT ![w] =
                            [@ EXCEPT !.pc = "read", !.conn = o.winner, !.fb = None]]
               /\ UNCHANGED <<slow, culler>>
            \/ Drop(w, Parked(won, {won.reg[w].addr}), "top") /\ Ended(w)
            \/ Drop(w, won, "top") /\ Ended(w)
  BY DEF DialEnd
<1> DEFINE parked == Parked(p, ParkedBy(o, at[w].pin))
           won == Won(parked, w, o.winner)
<1>3. o.winner \in Place /\ None \in Place
  <2>1. at[w].pin \in Place /\ at[w].fb \in Place
    BY Types DEF AtType
  <2> QED
    BY <2>1, Types, Places DEF Place
<1>4. Keeps(p, parked, w)
  BY Types, ParkedKeeps
<1>5. Keeps(p, won, w)
  <2> HIDE DEF parked
  <2>1. Keeps(parked, won, w)
    BY <1>3, <1>4, WonKeeps DEF Keeps, Touches
  <2> QED
    BY <1>4, <2>1, KeepsTwice
<1>6. \/ /\ o.winner # None
         /\ p' = Reading(GotConn(won, w, o.winner), w)
         /\ at' = [at EXCEPT ![w] =
                      [@ EXCEPT !.pc = "read", !.conn = o.winner, !.fb = None]]
         /\ UNCHANGED <<slow, culler>>
      \/ Drop(w, Parked(won, {won.reg[w].addr}), "top") /\ Ended(w)
      \/ Drop(w, won, "top") /\ Ended(w)
  BY <1>2
<1> HIDE DEF parked, won
<1>7. won \in PType /\ won.closed = p.closed
  BY <1>5 DEF Keeps, Touches
<1>8. CASE /\ o.winner # None
           /\ p' = Reading(GotConn(won, w, o.winner), w)
           /\ at' = [at EXCEPT ![w] =
                        [@ EXCEPT !.pc = "read", !.conn = o.winner, !.fb = None]]
           /\ UNCHANGED <<slow, culler>>
  <2>1. /\ Keeps(won, GotConn(won, w, o.winner), w)
        /\ GotConn(won, w, o.winner).reg[w].addr = o.winner
    BY <1>1, <1>3, <1>7, GotConnKeeps
  <2>2. Keeps(GotConn(won, w, o.winner), p', w) /\ p'.reg[w].addr = o.winner
    BY <1>8, <2>1, ReadingKeeps DEF Keeps, Touches
  <2>3. Keeps(p, p', w)
    BY <1>5, <2>1, <2>2, KeepsTwice
  <2>4. /\ at' \in [Workers -> AtType] /\ at'[w].pc = "read" /\ at'[w].conn = o.winner
        /\ \A v \in Workers \ {w} : at'[v] = at[v]
    BY <1>3, <1>8, Types DEF AtType, Labels
  <2>5. Settled(w)'
    BY <1>1, <1>8, <2>2, <2>3, <2>4 DEF Inv, Settled, Keeps, InAttempt
  <2> QED
    BY <1>1, <1>8, <2>3, <2>4, <2>5, Types, WorkerStep DEF DialEnd, Keeps
<1>9. ASSUME NEW q, Keeps(p, q, w), Drop(w, q, "top"), Ended(w)
      PROVE  Inv'
  <2>1. q.reg[w].hit => q.reg[w].addr # None
    BY <1>9 DEF Inv, Settled, Keeps
  <2>2. /\ Touches(p, p', w) /\ at' \in [Workers -> AtType]
        /\ at'[w].pc = "top" /\ \A v \in Workers \ {w} : at'[v] = at[v]
        /\ ~p'.reg[w].hit
    BY <1>9, <2>1, Dropped DEF Keeps
  <2>3. Settled(w)'
    BY <1>9, <2>2, EndedTypes DEF Settled
  <2> QED
    BY <1>1, <1>9, <2>2, <2>3, Types, EndedTypes, WorkerStep DEF DialEnd
<1>10. CASE Drop(w, Parked(won, {won.reg[w].addr}), "top") /\ Ended(w)
  <2>1. Keeps(won, Parked(won, {won.reg[w].addr}), w)
    BY <1>7, ParkedKeeps
  <2>2. Keeps(p, Parked(won, {won.reg[w].addr}), w)
    BY <1>5, <2>1, KeepsTwice
  <2> QED
    BY <1>9, <1>10, <2>2
<1>11. CASE Drop(w, won, "top") /\ Ended(w)
  BY <1>5, <1>9, <1>11
<1> QED
  BY <1>6, <1>8, <1>10, <1>11

\* A request that leaves the pool leaves the address.
LEMMA RedirectStep == ASSUME Inv, NEW w \in Workers, Redirect(w) PROVE Inv'
<1>1. at[w].pc = "read" /\ ~p.closed
  BY OpenBefore DEF Redirect
<1>2. None \in Place
  BY DEF Place
<1>3. Keeps(p, p', w) /\ p'.reg[w].addr = None
  BY <1>1, <1>2, Types, GotConnKeeps DEF Redirect
<1>4. /\ at' \in [Workers -> AtType] /\ at'[w].pc = "away"
      /\ \A v \in Workers \ {w} : at'[v] = at[v]
  BY Types DEF Redirect, Goto, AtType, Labels
<1>5. Settled(w)'
  BY <1>1, <1>3, <1>4 DEF Inv, Settled, Keeps, InAttempt, Redirect
<1> QED
  BY <1>1, <1>3, <1>4, <1>5, Types, WorkerStep DEF Redirect, Keeps

\* A stall releases the address.
LEMMA StallStep == ASSUME Inv, NEW w \in Workers, Stall(w) PROVE Inv'
<1>1. at[w].pc \in InAttempt /\ ~p.closed
  BY OpenBefore DEF Stall, InAttempt
<1> DEFINE q == [p EXCEPT !.reg[w].avoid = p.reg[w].addr]
<1>2. p.reg[w].addr \in Place
  BY Types, RegOf DEF RegType, Place
<1>3. Keeps(p, q, w)
  BY <1>2, Types, AvoidKeeps
<1>4. Drop(w, q, "top") /\ Ended(w) /\ LeftDial(w) /\ may' = may
  BY DEF Stall
<1> HIDE DEF q
<1>5. q.reg[w].hit => q.reg[w].addr # None
  BY <1>3 DEF Inv, Settled, Keeps
<1>6. /\ Touches(p, p', w) /\ at' \in [Workers -> AtType]
      /\ at'[w].pc = "top" /\ \A v \in Workers \ {w} : at'[v] = at[v]
      /\ ~p'.reg[w].hit
  BY <1>3, <1>4, <1>5, Dropped DEF Keeps
<1>7. Settled(w)'
  BY <1>4, <1>6, EndedTypes DEF Settled
<1> QED
  BY <1>1, <1>4, <1>6, <1>7, EndedTypes, LeftTypes, WorkerStep

\* A cancelled attempt releases the address that was culled.
LEMMA SlowReturnStep == ASSUME Inv, NEW w \in Workers, SlowReturn(w) PROVE Inv'
<1>0. ~p.closed
  BY OpenBefore DEF SlowReturn, Inv, Settled, InAttempt
<1>1. Touches(p, p, w) /\ (p.reg[w].hit => p.reg[w].addr # None)
  BY Types, KeepsNothing DEF Keeps, Inv, Settled
<1>2. Drop(w, p, "top") /\ Ended(w) /\ LeftDial(w) /\ may' = may
  BY DEF SlowReturn
<1>3. /\ Touches(p, p', w) /\ at' \in [Workers -> AtType]
      /\ at'[w].pc = "top" /\ \A v \in Workers \ {w} : at'[v] = at[v]
      /\ ~p'.reg[w].hit
  BY <1>1, <1>2, Dropped
<1>4. Settled(w)'
  BY <1>2, <1>3, EndedTypes DEF Settled
<1> QED
  BY <1>0, <1>2, <1>3, <1>4, EndedTypes, LeftTypes, WorkerStep

\* An attempt that ends by itself may leave a flag, which the next Check finds.
LEMMA DoneStep == ASSUME Inv, NEW w \in Workers, Done(w) PROVE Inv'
<1>1. at[w].pc \in {"read", "away", "first"} /\ ~p.closed
  BY OpenBefore DEF Done
<1>2. Keeps(p, p', w) /\ (at[w].pc = "first" => p'.reg[w].addr = None)
  BY Types, ReleasedKeeps, KeepsNothing DEF Done
<1>3. /\ at' \in [Workers -> AtType] /\ at'[w].pc = "top"
      /\ \A v \in Workers \ {w} : at'[v] = at[v]
  BY Types DEF Done, Goto, AtType, Labels
<1>4. Ended(w) /\ UNCHANGED <<stray, may>>
  BY DEF Done
<1>5. Settled(w)'
  BY <1>1, <1>2, <1>3, <1>4, EndedTypes DEF Inv, Settled, Keeps, InAttempt
<1> QED
  BY <1>1, <1>2, <1>3, <1>4, <1>5, Types, EndedTypes, WorkerStep DEF Keeps

\* A worker that leaves takes its connection and its registration with it.
LEMMA LeaveStep == ASSUME Inv, NEW w \in Workers, Leave(w) PROVE Inv'
<1> DEFINE q == Released(p, w)
<1>1. Keeps(p, q, w) /\ q.reg[w].addr = None
  BY Types, ReleasedKeeps
<1>2. p' = Removed(q, w)
  BY DEF Leave
<1> HIDE DEF q
<1>3. /\ Touches(q, p', w) /\ p'.reg[w].addr = None /\ ~p'.reg[w].in
      /\ p'.reg[w].hit => q.reg[w].hit
  BY <1>1, <1>2, RemovedTouches DEF Keeps, Touches
<1>4. Touches(p, p', w)
  BY <1>1, <1>3 DEF Keeps, Touches
<1>5. /\ at' \in [Workers -> AtType] /\ at'[w].pc = "gone"
      /\ \A v \in Workers \ {w} : at'[v] = at[v]
  BY Types DEF Leave, NoClient, AtType, Labels, Place
<1>6. Ended(w) /\ LeftDial(w) /\ may' = may
  BY DEF Leave
<1>7. Settled(w)'
  BY <1>1, <1>3, <1>5, <1>6, EndedTypes DEF Inv, Settled, Keeps
<1> QED
  BY <1>4, <1>5, <1>6, <1>7, EndedTypes, LeftTypes, WorkerStep

\* An abandoned dial's report: the worker is late from then on.
LEMMA LateReportStep == ASSUME Inv, NEW s \in stray, LateReport(s) PROVE Inv'
<1> DEFINE w == s.worker
<1>1. w \in Workers /\ s.pin \in Place /\ s.fb \in Place
  BY Types DEF StrayType
<1>2. PICK o \in DialOutcomes(s.pin, s.fb) \cup Abandoned(s.pin, s.fb) :
        LET q == Parked(p, ParkedBy(o, s.pin))
        IN  p' = IF o.winner = None THEN q
                 ELSE Won([q EXCEPT !.reg[w].late = TRUE], w, o.winner)
  BY DEF LateReport
<1> DEFINE q == Parked(p, ParkedBy(o, s.pin))
           r == [q EXCEPT !.reg[w].late = TRUE]
<1>3. o.winner \in Place
  BY <1>1, Types, Places
<1>4. p' = q \/ p' = Won(r, w, o.winner)
  BY <1>2
<1> HIDE DEF w
<1>5. Keeps(p, q, w)
  BY <1>1, Types, ParkedKeeps
<1> HIDE DEF q
<1>6. /\ Touches(q, r, w) /\ r.reg[w].addr = q.reg[w].addr /\ r.reg[w].hit = q.reg[w].hit
      /\ r.reg[w].rotate = q.reg[w].rotate /\ r.reg[w].late
  BY <1>1, <1>5, LateTouches DEF Keeps, Touches
<1> HIDE DEF r
<1>7. Keeps(r, Won(r, w, o.winner), w)
  BY <1>1, <1>3, <1>6, WonKeeps DEF Touches
<1>8. /\ Touches(p, p', w) /\ p'.reg[w].rotate = p.reg[w].rotate
      /\ p'.reg[w].hit => p.reg[w].hit /\ p'.reg[w].addr = p.reg[w].addr
      /\ p' = q \/ p'.reg[w].late
  <2>1. CASE p' = q
    BY <1>5, <2>1 DEF Keeps
  <2>2. CASE p' = Won(r, w, o.winner)
    BY <1>5, <1>6, <1>7, <2>2 DEF Keeps, Touches
  <2> QED
    BY <1>4, <2>1, <2>2
<1>9. p' = q => p'.reg[w] = p.reg[w]
  BY ParkedKeeps, Types, <1>1 DEF q
<1>10. UNCHANGED <<at, slow, culler, may>> /\ stray' \subseteq StrayType
  BY Types DEF LateReport
<1>11. Settled(w)'
  BY <1>1, <1>8, <1>9, <1>10 DEF Inv, Settled
<1>12. p.closed => at'[w].pc \in {"out", "gone"}
  BY <1>1, <1>10 DEF Inv, Quiet
<1> QED
  BY <1>1, <1>8, <1>10, <1>11, <1>12, Types, WorkerStep

-----------------------------------------------------------------------------
(* The steps of the clocks, the resolver, the culler and close *)

\* A step that registers, moves and cancels no one.
LEMMA StillStep ==
  ASSUME Inv, p' \in PType, p'.reg = p.reg, p'.pending = p.pending,
         \A a \in Addrs : p'.node[a].conns = p.node[a].conns,
         NeverAllStruck', Quiet', UNCHANGED <<at, slow, stray, may>>,
         culler' \in CullerType, culler'.todo = culler.todo
  PROVE  Inv'
<1>1. TypeOK'
  <2>1. TypeOK' <=> /\ p' \in PType /\ at' \in [Workers -> AtType] /\ slow' \subseteq Workers
             /\ stray' \subseteq StrayType /\ culler' \in CullerType /\ may' \in Scenarios
    BY DEF TypeOK, PType, AtType, StrayType, CullerType, Place
  <2> QED
    BY <2>1, Typed DEF Inv
<1>2. Counted(p)'
  BY DEF Inv, Counted, On, Owed
<1>3. ASSUME NEW v \in Workers PROVE Settled(v)'
  BY DEF Inv, Settled
<1> QED
  BY <1>1, <1>2, <1>3 DEF Inv

\* A resolution changes what is listed.
LEMMA RefreshStep == ASSUME Inv, NEW w \in Workers, Refresh(w) PROVE Inv'
<1>1. PICK answer \in Answers : p' = [p EXCEPT !.listed = answer \cup {election}]
  BY DEF Refresh
<1>2. answer \cup {election} \subseteq Addrs
  BY PlacementAssumption
<1>3. /\ p' \in PType /\ p'.reg = p.reg /\ p'.pending = p.pending /\ p'.node = p.node
      /\ p'.closed = p.closed
  BY <1>1, <1>2, Types DEF PType
<1>4. NeverAllStruck' /\ Quiet'
  BY <1>3 DEF Refresh, Inv, NeverAllStruck, Quiet
<1> QED
  BY <1>3, <1>4, Types, StillStep DEF Refresh

\* An address is unparked.
LEMMA UnparkStep == ASSUME Inv, NEW a \in Addrs, Unpark(a) PROVE Inv'
<1> DEFINE new == [p.node[a] EXCEPT !.parked = FALSE]
<1>1. new \in NodeType /\ new.conns = p.node[a].conns /\ new.strikes = p.node[a].strikes
  BY Types, NodeOf DEF NodeType
<1>2. p' = [p EXCEPT !.node[a] = new]
  BY Types DEF Unpark, PType
<1> HIDE DEF new
<1>3. /\ p' \in PType /\ p'.reg = p.reg /\ p'.pending = p.pending /\ p'.closed = p.closed
      /\ \A b \in Addrs : /\ p'.node[b].conns = p.node[b].conns
                          /\ p'.node[b].strikes = p.node[b].strikes
  BY <1>1, <1>2, Types DEF PType
<1>4. NeverAllStruck' /\ Quiet'
  BY <1>3 DEF Unpark, Inv, NeverAllStruck, Quiet
<1> QED
  BY <1>3, <1>4, Types, StillStep DEF Unpark

\* The cooldown ends.
LEMMA CooldownStep == ASSUME Inv, Cooldown PROVE Inv'
<1>1. /\ p' \in PType /\ p'.reg = p.reg /\ p'.pending = p.pending /\ p'.node = p.node
      /\ p'.closed = p.closed
  BY Types DEF Cooldown, PType
<1>2. NeverAllStruck' /\ Quiet'
  BY <1>1 DEF Cooldown, Inv, NeverAllStruck, Quiet
<1> QED
  BY <1>1, <1>2, Types, StillStep DEF Cooldown

\* The placement closes when nobody is left.
LEMMA CloseStep == ASSUME Inv, Close PROVE Inv'
<1>1. /\ p' \in PType /\ p'.reg = p.reg /\ p'.pending = p.pending /\ p'.node = p.node
  BY Types DEF Close, PType
<1>2. NeverAllStruck' /\ Quiet'
  BY <1>1 DEF Close, Inv, NeverAllStruck, Quiet
<1> QED
  BY <1>1, <1>2, Types, StillStep DEF Close

\* The culler has cancelled everyone it collected.
LEMMA CancelledStep == ASSUME Inv, Cancelled PROVE Inv'
<1>1. culler' \in CullerType /\ culler'.todo = {} /\ culler.todo = {}
  BY Types DEF Cancelled, Waiting, CullerType
<1>2. NeverAllStruck' /\ Quiet'
  BY <1>1 DEF Cancelled, Inv, NeverAllStruck, Quiet, Waiting
<1> QED
  BY <1>1, <1>2, Types, StillStep DEF Cancelled

\* It cancels one of them, who is cancelled or about to be all along.
LEMMA CancelOneStep == ASSUME Inv, NEW w \in Workers, CancelOne(w) PROVE Inv'
<1>1. Touches(p, p', w) /\ p' = p
  BY Types, KeepsNothing DEF CancelOne, Keeps
<1>2. /\ slow' \subseteq Workers /\ culler' \in CullerType /\ culler'.pc = culler.pc
      /\ culler'.todo \subseteq culler.todo
      /\ \A v \in Workers : v \in slow \cup culler.todo <=> v \in slow' \cup culler'.todo
  BY Types DEF CancelOne, CullerType
<1>3. Settled(w)'
  BY <1>1, <1>2 DEF Inv, Settled, CancelOne
<1>4. p.closed => at'[w].pc \in {"out", "gone"}
  BY DEF CancelOne, Inv, Quiet
<1> QED
  BY <1>1, <1>2, <1>3, <1>4, Types, WorkerStep DEF CancelOne

Node(c, k, s, h, b, l) ==
    [conns |-> c, parked |-> k, strikes |-> s, healthy |-> h, below |-> b, last |-> l]

\* An address's record, by field.
LEMMA NodeParts ==
  ASSUME NEW n \in NodeType
  PROVE  \E c \in Nat, k \in BOOLEAN, s \in 0 .. 2, h \in 0 .. 1, b \in 0 .. 2,
            l \in {"none", "fast", "slow"} : n = Node(c, k, s, h, b, l)
BY DEF NodeType, Node

\* resetCullEvidence of one address.
LEMMA ResetType ==
  ASSUME NEW n \in NodeType, NEW m,
         \/ m = [n EXCEPT !.below = 0, !.healthy = 0, !.last = "none"]
         \/ m = [n EXCEPT !.last = "none"]
  PROVE  m \in NodeType /\ m.conns = n.conns /\ m.strikes = n.strikes
<1>1. PICK c \in Nat, k \in BOOLEAN, s \in 0 .. 2, h \in 0 .. 1, b \in 0 .. 2,
           l \in {"none", "fast", "slow"} : n = Node(c, k, s, h, b, l)
  BY NodeParts
<1>2. m = Node(c, k, s, 0, 0, "none") \/ m = Node(c, k, s, h, b, "none")
  BY <1>1 DEF Node
<1> QED
  BY <1>1, <1>2 DEF Node, NodeType

\* cullLocked's change of the address it strikes.
LEMMA StruckType ==
  ASSUME NEW n \in NodeType, NEW k \in BOOLEAN, NEW s \in 0 .. 2, NEW m,
         m = [n EXCEPT !.strikes = s, !.below = 0, !.healthy = 0, !.last = "none",
                       !.parked = k]
  PROVE  m \in NodeType /\ m.conns = n.conns
<1>1. PICK c \in Nat, k1 \in BOOLEAN, s1 \in 0 .. 2, h \in 0 .. 1, b \in 0 .. 2,
           l \in {"none", "fast", "slow"} : n = Node(c, k1, s1, h, b, l)
  BY NodeParts
<1>2. m = Node(c, k, s, 0, 0, "none")
  BY <1>1 DEF Node
<1> QED
  BY <1>1, <1>2 DEF Node, NodeType

\* A sample, which no judgment need follow.
LEMMA TickStep == ASSUME Inv, Tick PROVE Inv' /\ BooksKept
<1>1. UNCHANGED <<at, slow, stray, may>> /\ culler.pc = "wait"
  BY DEF Tick
<1>2. CASE p' = [EvidenceReset(p) EXCEPT !.moved = FALSE] /\ UNCHANGED culler
  <2> DEFINE n == [a \in Addrs |->
                     IF a \in p.listed
                     THEN [p.node[a] EXCEPT !.below = 0, !.healthy = 0, !.last = "none"]
                     ELSE [p.node[a] EXCEPT !.last = "none"]]
  <2>1. /\ n \in [Addrs -> NodeType]
        /\ \A a \in Addrs : n[a].conns = p.node[a].conns /\ n[a].strikes = p.node[a].strikes
    <3> SUFFICES ASSUME NEW a \in Addrs
                 PROVE  /\ n[a] \in NodeType
                        /\ n[a].conns = p.node[a].conns /\ n[a].strikes = p.node[a].strikes
      OBVIOUS
    <3>1. p.node[a] \in NodeType
      BY Types, NodeOf
    <3>2. \/ n[a] = [p.node[a] EXCEPT !.below = 0, !.healthy = 0, !.last = "none"]
          \/ n[a] = [p.node[a] EXCEPT !.last = "none"]
      OBVIOUS
    <3> HIDE DEF n
    <3> QED
      BY <3>1, <3>2, ResetType
  <2>2. EvidenceReset(p) = [p EXCEPT !.node = n]
    BY DEF EvidenceReset
  <2> HIDE DEF n
  <2>3. /\ p' \in PType /\ p'.reg = p.reg /\ p'.pending = p.pending /\ p'.node = n
        /\ p'.closed = p.closed
    BY <1>2, <2>1, <2>2, Types DEF PType
  <2>4. NeverAllStruck' /\ Quiet'
    BY <1>1, <1>2, <2>1, <2>3 DEF Inv, NeverAllStruck, Quiet
  <2> QED
    BY <1>1, <1>2, <2>1, <2>3, <2>4, Types, StillStep DEF BooksKept
<1>3. CASE /\ culler' = [culler EXCEPT !.pc = "judge", !.addrs = Sampled, !.fed = Delivering]
           /\ UNCHANGED p
  <2>1. Sampled \subseteq Addrs /\ Delivering \subseteq Addrs
    BY Types, RegOf DEF Sampled, Delivering, RegType
  <2>2. culler' \in CullerType /\ culler'.todo = culler.todo
    BY <1>3, <2>1, Types DEF CullerType
  <2>3. NeverAllStruck' /\ Quiet'
    BY <1>1, <1>3, <2>2 DEF Inv, NeverAllStruck, Quiet
  <2> QED
    BY <1>1, <1>3, <2>2, <2>3, Types, StillStep DEF BooksKept
<1> QED
  BY <1>2, <1>3 DEF Tick

\* A window's evidence never strikes.
LEMMA EvidenceType ==
  ASSUME NEW n \in NodeType, NEW rate \in {"healthy", "tail", "slow"}, NEW e,
         e = Evidence(n, rate)
  PROVE  e \in NodeType /\ e.conns = n.conns /\ (n.strikes = 0 => e.strikes = 0)
<1>1. PICK c \in Nat, k \in BOOLEAN, s \in 0 .. 2, h \in 0 .. 1, b \in 0 .. 2,
           l \in {"none", "fast", "slow"} : n = Node(c, k, s, h, b, l)
  BY NodeParts
<1> DEFINE below == IF rate # "slow" THEN 0 ELSE IF b = 0 THEN 1 ELSE 2
<1>2. below \in 0 .. 2 /\ 0 \in 0 .. 2 /\ 0 \in 0 .. 1 /\ 1 \in 0 .. 1
  OBVIOUS
<1>3. \/ e = Node(c, k, s, 1, 0, l)
      \/ e = Node(c, k, 0, 0, 0, l)
      \/ e = Node(c, k, s, 0, below, l)
      \/ e = Node(c, k, s, h, below, l)
  <2>1. CASE Probing(n) /\ rate = "healthy" /\ n.healthy = 0
    <3>1. e = [n EXCEPT !.below = 0, !.healthy = 1]
      BY <2>1 DEF Evidence
    <3> QED
      BY <1>1, <3>1 DEF Node
  <2>2. CASE Probing(n) /\ rate = "healthy" /\ n.healthy # 0
    <3>1. e = [n EXCEPT !.below = 0, !.healthy = 0, !.strikes = 0]
      BY <2>2 DEF Evidence
    <3> QED
      BY <1>1, <3>1 DEF Node
  <2>3. CASE ~(Probing(n) /\ rate = "healthy")
    <3> DEFINE healthy == IF Probing(n) THEN 0 ELSE n.healthy
               low == IF rate # "slow" THEN 0 ELSE IF n.below = 0 THEN 1 ELSE 2
    <3>1. e = [n EXCEPT !.healthy = healthy, !.below = low]
      BY <2>3 DEF Evidence
    <3>2. (healthy = 0 \/ healthy = h) /\ low = below
      BY <1>1 DEF Node
    <3> HIDE DEF healthy, low, below
    <3> QED
      BY <1>1, <3>1, <3>2 DEF Node
  <2> QED
    BY <2>1, <2>2, <2>3
<1> HIDE DEF below
<1>4. PICK s2 \in {s, 0}, h2 \in 0 .. 1, b2 \in 0 .. 2 : e = Node(c, k, s2, h2, b2, l)
  BY <1>2, <1>3
<1> QED
  BY <1>1, <1>4 DEF Node, NodeType

\* What the window found is kept.
LEMMA FoundType ==
  ASSUME NEW n \in NodeType, NEW found \in {"none", "fast", "slow"}, NEW m,
         m = [n EXCEPT !.last = found]
  PROVE  m \in NodeType /\ m.conns = n.conns /\ m.strikes = n.strikes
<1>1. PICK c \in Nat, k \in BOOLEAN, s \in 0 .. 2, h \in 0 .. 1, b \in 0 .. 2,
           l \in {"none", "fast", "slow"} : n = Node(c, k, s, h, b, l)
  BY NodeParts
<1>2. m = Node(c, k, s, h, b, found)
  BY <1>1 DEF Node
<1> QED
  BY <1>1, <1>2 DEF Node, NodeType

\* cullLocked strikes one address while another has no strike, and everyone on the
\* struck one is flagged, everyone in an attempt there to be cancelled.
LEMMA CullStep ==
  ASSUME Inv, NEW q \in PType, NEW best \in Addrs, NEW c \in Addrs, best # c,
         MayCull(q, c, best), culler.pc = "judge",
         q.reg = p.reg, q.pending = p.pending, q.closed = p.closed,
         \A a \in Addrs : q.node[a].conns = p.node[a].conns,
         p' = Culled(q, c),
         culler' = [Waiting EXCEPT !.pc = "cancel",
                      !.todo = {w \in Workers : p.reg[w].addr = c /\ at[w].pc \in InAttempt}],
         UNCHANGED <<at, slow, stray, may>>
  PROVE  Inv' /\ BooksKept
<1> DEFINE n == [q.node[c] EXCEPT !.strikes = IF @ = 0 THEN 1 ELSE 2, !.below = 0,
                                  !.healthy = 0, !.last = "none",
                                  !.parked = @ \/ q.node[c].strikes = 0]
           r == [w \in Workers |-> IF q.reg[w].addr = c
                   THEN [q.reg[w] EXCEPT !.rotate = TRUE, !.hit = TRUE] ELSE q.reg[w]]
<1>1. n \in NodeType /\ n.conns = q.node[c].conns
  <2> DEFINE parked == q.node[c].parked \/ q.node[c].strikes = 0
             strikes == IF q.node[c].strikes = 0 THEN 1 ELSE 2
  <2>1. parked \in BOOLEAN /\ strikes \in 0 .. 2
    OBVIOUS
  <2>2. n = [q.node[c] EXCEPT !.strikes = strikes, !.below = 0, !.healthy = 0,
                              !.last = "none", !.parked = parked]
    OBVIOUS
  <2>3. q.node[c] \in NodeType
    BY NodeOf
  <2> HIDE DEF parked, strikes, n
  <2> QED
    BY <2>1, <2>2, <2>3, StruckType
<1>2. /\ r \in [Workers -> RegType]
      /\ \A w \in Workers :
           /\ r[w].addr = q.reg[w].addr /\ r[w].late = q.reg[w].late
           /\ r[w].in = q.reg[w].in
           /\ Entry(r[w]) = Entry(q.reg[w])
           /\ r[w].addr = c => r[w].rotate
           /\ r[w].addr # c => r[w] = q.reg[w]
  <2> SUFFICES ASSUME NEW w \in Workers
               PROVE  /\ r[w] \in RegType
                      /\ r[w].addr = q.reg[w].addr /\ r[w].late = q.reg[w].late
                      /\ r[w].in = q.reg[w].in
                      /\ Entry(r[w]) = Entry(q.reg[w])
                      /\ r[w].addr = c => r[w].rotate
                      /\ r[w].addr # c => r[w] = q.reg[w]
    OBVIOUS
  <2>1. CASE q.reg[w].addr = c
    <3>1. r[w] = [q.reg[w] EXCEPT !.rotate = TRUE, !.hit = TRUE]
      BY <2>1
    <3> HIDE DEF r
    <3> QED
      BY <2>1, <3>1, RegOf DEF RegType, Entry
  <2>2. CASE q.reg[w].addr # c
    <3>1. r[w] = q.reg[w]
      BY <2>2
    <3> HIDE DEF r
    <3> QED
      BY <2>2, <3>1, RegOf
  <2> QED
    BY <2>1, <2>2
<1>3. p' = [q EXCEPT !.node[c] = n, !.cooling = TRUE, !.reg = r]
  BY DEF Culled
<1> HIDE DEF n, r
<1>4. /\ p' \in PType /\ p'.reg = r /\ p'.pending = p.pending /\ p'.closed = p.closed
      /\ \A a \in Addrs : p'.node[a].conns = p.node[a].conns
      /\ p'.node[best] = q.node[best]
  <2> DEFINE nodes == [q.node EXCEPT ![c] = n]
  <2>1. /\ nodes \in [Addrs -> NodeType]
        /\ \A a \in Addrs : nodes[a].conns = q.node[a].conns
        /\ nodes[best] = q.node[best]
    BY <1>1 DEF PType
  <2>2. p' = [q EXCEPT !.node = nodes, !.cooling = TRUE, !.reg = r]
    BY <1>3 DEF PType
  <2> HIDE DEF nodes
  <2> QED
    BY <1>2, <2>1, <2>2 DEF PType
<1>5. culler' \in CullerType
  BY Types DEF Waiting, CullerType
<1>6. culler'.pc = "cancel"
      /\ culler'.todo = {w \in Workers : p.reg[w].addr = c /\ at[w].pc \in InAttempt}
  BY Types DEF Waiting, CullerType
<1>7. TypeOK'
  <2>1. TypeOK' <=> /\ p' \in PType /\ at' \in [Workers -> AtType] /\ slow' \subseteq Workers
             /\ stray' \subseteq StrayType /\ culler' \in CullerType /\ may' \in Scenarios
    BY DEF TypeOK, PType, AtType, StrayType, CullerType, Place
  <2> QED
    BY <1>4, <1>5, <2>1, Typed DEF Inv
<1>8. Counted(p)'
  BY <1>2, <1>4 DEF Inv, Counted, On, Owed
<1>9. NeverAllStruck'
  BY <1>4 DEF NeverAllStruck, MayCull
<1>10. Quiet'
  BY <1>4, <1>6 DEF Inv, Quiet
<1>11. ASSUME NEW w \in Workers PROVE Settled(w)'
  <2>1. Settled(w) /\ culler.todo = {} /\ p.reg[w] = q.reg[w]
    BY DEF Inv, Quiet
  <2>2. c # None
    BY PlacementAssumption
  <2>3. p'.reg[w] = r[w] /\ at'[w] = at[w]
    BY <1>4
  <2>4. CASE p.reg[w].addr = c
    BY <1>2, <1>6, <2>1, <2>2, <2>3, <2>4 DEF Settled
  <2>5. CASE p.reg[w].addr # c
    BY <1>2, <1>6, <2>1, <2>3, <2>5 DEF Settled
  <2> QED
    BY <2>4, <2>5
<1>12. BooksKept
  BY <1>2, <1>4 DEF BooksKept
<1> QED
  BY <1>7, <1>8, <1>9, <1>10, <1>11, <1>12 DEF Inv

\* A judged window leaves the evidence, or culls.
LEMMA JudgeStep == ASSUME Inv, Judge PROVE Inv' /\ BooksKept
<1> DEFINE Verdicts(best, rate) ==
             [a \in Addrs |->
                IF a = best THEN [p.node[a] EXCEPT !.last = Found("healthy")]
                ELSE IF a \in culler.addrs
                     THEN [Evidence(p.node[a], rate[a]) EXCEPT !.last = Found(rate[a])]
                     ELSE p.node[a]]
<1>1. PICK best \in culler.fed :
      \E rate \in [culler.addrs \ {best} -> {"healthy", "tail", "slow"}] :
         LET q == [p EXCEPT !.node = Verdicts(best, rate)]
         IN  \/ p' = q /\ culler' = Waiting
             \/ \E c \in DOMAIN rate :
                   /\ MayCull(q, c, best)
                   /\ p' = Culled(q, c)
                   /\ culler' = [Waiting EXCEPT !.pc = "cancel",
                        !.todo = {w \in Workers : p.reg[w].addr = c /\ at[w].pc \in InAttempt}]
  BY DEF Judge
<1>2. PICK rate \in [culler.addrs \ {best} -> {"healthy", "tail", "slow"}] :
         LET q == [p EXCEPT !.node = Verdicts(best, rate)]
         IN  \/ p' = q /\ culler' = Waiting
             \/ \E c \in DOMAIN rate :
                   /\ MayCull(q, c, best)
                   /\ p' = Culled(q, c)
                   /\ culler' = [Waiting EXCEPT !.pc = "cancel",
                        !.todo = {w \in Workers : p.reg[w].addr = c /\ at[w].pc \in InAttempt}]
  BY <1>1
<1> DEFINE n == Verdicts(best, rate)
           q == [p EXCEPT !.node = n]
<1>3. culler.fed \subseteq Addrs /\ culler.addrs \subseteq Addrs
  BY Types DEF CullerType
<1>4. culler.pc = "judge" /\ UNCHANGED <<at, slow, stray, may>>
  BY DEF Judge
<1>5. /\ n \in [Addrs -> NodeType]
      /\ \A a \in Addrs : /\ n[a].conns = p.node[a].conns
                          /\ p.node[a].strikes = 0 => n[a].strikes = 0
  <2> SUFFICES ASSUME NEW a \in Addrs
               PROVE  /\ n[a] \in NodeType /\ n[a].conns = p.node[a].conns
                      /\ p.node[a].strikes = 0 => n[a].strikes = 0
    OBVIOUS
  <2>1. p.node[a] \in NodeType
    BY Types, NodeOf
  <2>2. CASE a = best
    <3>1. n[a] = [p.node[a] EXCEPT !.last = Found("healthy")]
      BY <2>2
    <3>2. Found("healthy") \in {"none", "fast", "slow"}
      BY DEF Found
    <3> HIDE DEF n
    <3> QED
      BY <2>1, <3>1, <3>2, FoundType
  <2>3. CASE a # best /\ a \in culler.addrs
    <3> DEFINE r == rate[a]
    <3>1. n[a] = [Evidence(p.node[a], r) EXCEPT !.last = Found(r)]
      BY <2>3
    <3>2. r \in {"healthy", "tail", "slow"}
      BY <2>3
    <3>3. Found(r) \in {"none", "fast", "slow"}
      BY DEF Found
    <3> DEFINE e == Evidence(p.node[a], r)
    <3> HIDE DEF n, r
    <3>4. /\ e \in NodeType /\ e.conns = p.node[a].conns
          /\ p.node[a].strikes = 0 => e.strikes = 0
      BY <2>1, <3>2, EvidenceType
    <3>5. n[a] = [e EXCEPT !.last = Found(r)]
      BY <3>1
    <3> HIDE DEF e
    <3> QED
      BY <3>3, <3>4, <3>5, FoundType
  <2>4. CASE a # best /\ a \notin culler.addrs
    <3>1. n[a] = p.node[a]
      BY <2>4
    <3> QED
      BY <2>1, <3>1
  <2> QED
    BY <2>2, <2>3, <2>4
<1>6. \/ p' = q /\ culler' = Waiting
      \/ \E c \in DOMAIN rate :
            /\ MayCull(q, c, best)
            /\ p' = Culled(q, c)
            /\ culler' = [Waiting EXCEPT !.pc = "cancel",
                 !.todo = {w \in Workers : p.reg[w].addr = c /\ at[w].pc \in InAttempt}]
  BY <1>2
<1> HIDE DEF n
<1>7. /\ q \in PType /\ q.reg = p.reg /\ q.pending = p.pending /\ q.closed = p.closed
      /\ q.node = n
  BY <1>5, Types DEF PType
<1> HIDE DEF q
<1>8. CASE p' = q /\ culler' = Waiting
  <2>1. culler' \in CullerType /\ culler'.todo = culler.todo /\ culler.todo = {}
    BY <1>4, <1>8, Types DEF Waiting, CullerType, Inv, Quiet
  <2>2. NeverAllStruck'
    BY <1>5, <1>7, <1>8 DEF Inv, NeverAllStruck
  <2>3. Quiet'
    BY <1>4, <1>7, <1>8, <2>1 DEF Inv, Quiet
  <2> QED
    BY <1>4, <1>5, <1>7, <1>8, <2>1, <2>2, <2>3, StillStep DEF BooksKept
<1>9. ASSUME NEW c \in DOMAIN rate,
             MayCull(q, c, best), p' = Culled(q, c),
             culler' = [Waiting EXCEPT !.pc = "cancel",
               !.todo = {w \in Workers : p.reg[w].addr = c /\ at[w].pc \in InAttempt}]
      PROVE  Inv' /\ BooksKept
  <2>1. c \in Addrs /\ best \in Addrs /\ best # c
    BY <1>3
  <2> QED
    BY <1>4, <1>5, <1>7, <1>9, <2>1, CullStep
<1> QED
  BY <1>6, <1>8, <1>9

-----------------------------------------------------------------------------
(* The theorems *)

\* newNodePlacement.
LEMMA InitInv == Init => Inv
<1> SUFFICES ASSUME Init PROVE Inv
  OBVIOUS
<1> DEFINE open == "initial" \in may
           owed == IF open THEN 1 ELSE 0
           n == [a \in Addrs |-> [Idle EXCEPT !.conns = IF open /\ a = election THEN 1 ELSE 0]]
<1>1. open \in BOOLEAN
  OBVIOUS
<1>2. /\ p = [node |-> n, reg |-> [w \in Workers |-> Absent], listed |-> Addrs,
             pending |-> open, closed |-> FALSE, cooling |-> FALSE, moved |-> TRUE]
  BY DEF Init
<1> HIDE DEF open
<1>3. \A a \in Addrs : n[a] = Node(IF open /\ a = election THEN 1 ELSE 0,
                                   FALSE, 0, 0, 0, "none")
  BY DEF Idle, Node
<1>4. /\ n \in [Addrs -> NodeType]
      /\ \A a \in Addrs : n[a].conns = (IF open /\ a = election THEN 1 ELSE 0)
                          /\ n[a].strikes = 0
  <2>1. ASSUME NEW a \in Addrs
        PROVE  /\ n[a] \in NodeType /\ n[a].strikes = 0
               /\ n[a].conns = (IF open /\ a = election THEN 1 ELSE 0)
    <3> DEFINE c == IF open /\ a = election THEN 1 ELSE 0
    <3>1. n[a] = Node(c, FALSE, 0, 0, 0, "none") /\ c \in Nat
      BY <1>3
    <3> HIDE DEF n, c
    <3>2. n[a] \in NodeType /\ n[a].strikes = 0 /\ n[a].conns = c
      BY <3>1 DEF Node, NodeType
    <3> QED
      BY <3>2 DEF c
  <2> QED
    BY <2>1
<1> HIDE DEF n
<1>5. Absent \in RegType /\ Absent.addr = None /\ ~Absent.hit /\ ~Absent.in /\ ~Absent.late
  BY DEF Absent, RegType
<1>6. p \in PType /\ p.node = n /\ p.pending = open /\ p.closed = FALSE
      /\ \A w \in Workers : p.reg[w] = Absent
  BY <1>1, <1>2, <1>4, <1>5 DEF PType
<1>7. /\ at \in [Workers -> AtType] /\ \A w \in Workers : at[w].pc = "out"
  BY DEF Init, NoClient, AtType, Labels, Place
<1>8. /\ culler \in CullerType /\ culler.todo = {} /\ culler.pc = "wait"
      /\ slow = {} /\ stray = {} /\ may \in Scenarios
  BY DEF Init, CullerType
<1>9. TypeOK
  BY <1>6, <1>7, <1>8, Typed
<1>10. Counted(p)
  <2> SUFFICES ASSUME NEW a \in Addrs
               PROVE  p.node[a].conns = Cardinality(On(p, a)) + Owed(p, a)
    BY DEF Counted
  <2>1. a # None
    BY PlacementAssumption
  <2>2. On(p, a) = {}
    BY <1>5, <1>6, <2>1 DEF On
  <2>3. Cardinality(On(p, a)) = 0
    BY <2>2, FS_EmptySet
  <2> QED
    BY <1>4, <1>6, <2>3 DEF Owed
<1>11. NeverAllStruck
  BY <1>4, <1>6, PlacementAssumption DEF NeverAllStruck
<1>12. Quiet
  BY <1>6, <1>8 DEF Quiet
<1>13. ASSUME NEW w \in Workers PROVE Settled(w)
  BY <1>5, <1>6, <1>7, <1>8 DEF Settled
<1> QED
  BY <1>9, <1>10, <1>11, <1>12, <1>13 DEF Inv

\* No step leaves the invariant.
LEMMA NextInv == Inv /\ [Next]_vars => Inv'
<1> SUFFICES ASSUME Inv, [Next]_vars PROVE Inv'
  OBVIOUS
<1>1. ASSUME NEW w \in Workers, Attempt(w) PROVE Inv'
  BY <1>1, SpawnStep, CheckStep, TakeInitialStep, ReserveStep, RequestStep, FirstStep,
     DialEndStep, RedirectStep, StallStep, SlowReturnStep, DoneStep, LeaveStep, RefreshStep
     DEF Attempt
<1>2. ASSUME NEW s \in stray, LateReport(s) PROVE Inv'
  BY <1>2, LateReportStep
<1>3. CASE Cull
  BY <1>3, TickStep, JudgeStep, CancelOneStep, CancelledStep DEF Cull
<1>4. CASE Next
  BY <1>1, <1>2, <1>3, <1>4, UnparkStep, CooldownStep, CloseStep DEF Next
<1>5. CASE UNCHANGED vars
  BY <1>5 DEF vars, Inv, TypeOK, Counted, On, Owed, NeverAllStruck, Quiet, Settled
<1> QED
  BY <1>4, <1>5

\* The invariant holds in every run.
THEOREM Invariant == Spec => []Inv
BY InitInv, NextInv, PTL DEF Spec

\* Every variable keeps its type: no connection is given back that was not counted,
\* whatever the order of moves, failures, culls and late dials.
THEOREM PlacementTypes == Spec => []TypeOK
<1>1. Inv => TypeOK
  BY DEF Inv
<1> QED
  BY <1>1, Invariant, PTL

\* Every address counts exactly the registered workers on it and the election's own
\* connection, and only a late dial registers a worker that has left.
THEOREM LoadIsReal == Spec => []ConnsMatch
<1>1. Inv => ConnsMatch
  BY DEF Inv, Counted, On, Owed, ConnsMatch, OnAddr, Settled
<1> QED
  BY <1>1, Invariant, PTL

\* Whatever the culler judges, some address has no strike.
THEOREM SomeUnstruck == Spec => []NeverAllStruck
<1>1. Inv => NeverAllStruck
  BY DEF Inv
<1> QED
  BY <1>1, Invariant, PTL

\* A cull reaches every worker on the address, wherever between two attempts it is.
THEOREM CullReaches == Spec => []CulledMoves
<1>1. Inv => CulledMoves
  BY DEF Inv, Settled, CulledMoves, InAttempt
<1> QED
  BY <1>1, Invariant, PTL

\* Bytes are credited to the address they come from unless a late dial moved the worker.
THEOREM CreditIsHonest == Spec => []AttributionHonest
<1>1. Inv => AttributionHonest
  BY DEF Inv, Settled, AttributionHonest
<1> QED
  BY <1>1, Invariant, PTL

\* Whatever steps a closed placement still takes, its books stand.
LEMMA ClosedStep == ASSUME Inv, [Next]_vars, p.closed PROVE BooksKept
<1>1. ASSUME p'.reg = p.reg, \A a \in Addrs : p'.node[a].conns = p.node[a].conns
      PROVE  BooksKept
  BY <1>1 DEF BooksKept
<1>2. ASSUME NEW w \in Workers PROVE ~Attempt(w)
  <2>1. at[w].pc \in {"out", "gone"} /\ w \notin slow
    BY DEF Inv, Quiet, Settled, InAttempt
  <2> QED
    BY <2>1 DEF Attempt, Spawn, Check, TakeInitial, Reserve, Request, First, DialEnd,
       Redirect, Stall, SlowReturn, Done, Leave, Refresh, InAttempt
<1>3. ASSUME NEW s \in stray, LateReport(s) PROVE BooksKept
  <2> DEFINE w == s.worker
  <2>1. w \in Workers
    BY Types DEF StrayType
  <2>2. PICK o \in DialOutcomes(s.pin, s.fb) \cup Abandoned(s.pin, s.fb) :
          LET q == Parked(p, ParkedBy(o, s.pin))
          IN  p' = IF o.winner = None THEN q
                   ELSE Won([q EXCEPT !.reg[w].late = TRUE], w, o.winner)
    BY <1>3 DEF LateReport
  <2> DEFINE q == Parked(p, ParkedBy(o, s.pin))
             r == [q EXCEPT !.reg[w].late = TRUE]
  <2>3. p' = q \/ p' = Won(r, w, o.winner)
    BY <2>2
  <2> HIDE DEF w
  <2>4. /\ q \in PType /\ q.closed /\ q.reg = p.reg
        /\ \A a \in Addrs : q.node[a].conns = p.node[a].conns
    BY <2>1, Types, ParkedKeeps DEF Keeps, Touches
  <2> HIDE DEF q
  <2>5. /\ r.closed /\ r.node = q.node
        /\ r.reg = [q.reg EXCEPT ![w] = [q.reg[w] EXCEPT !.late = TRUE]]
    BY <2>4 DEF PType
  <2> HIDE DEF r
  <2>6. CASE p' = q
    BY <1>1, <2>4, <2>6
  <2>7. CASE p' = Won(r, w, o.winner)
    <3>1. p' = r
      BY <2>5, <2>7 DEF Won
    <3>2. p.reg \in [Workers -> RegType]
      BY Types DEF PType
    <3>3. p'.reg = [p.reg EXCEPT ![w] = [p.reg[w] EXCEPT !.late = TRUE]]
      BY <2>4, <2>5, <3>1
    <3>4. ASSUME NEW v \in Workers PROVE Entry(p'.reg[v]) = Entry(p.reg[v])
      BY <2>1, <3>2, <3>3 DEF RegType, Entry
    <3> QED
      BY <2>4, <2>5, <3>1, <3>4 DEF BooksKept
  <2> QED
    BY <2>3, <2>6, <2>7
<1>4. ASSUME NEW a \in Addrs, Unpark(a) PROVE BooksKept
  <2>1. p'.reg = p.reg /\ \A b \in Addrs : p'.node[b].conns = p.node[b].conns
    BY <1>4, Types DEF Unpark, PType, NodeType
  <2> QED
    BY <1>1, <2>1
<1>5. CASE Cooldown
  BY <1>1, <1>5, Types DEF Cooldown, PType
<1>6. CASE Cull
  <2>1. CASE Tick
    BY <2>1, TickStep
  <2>2. CASE Judge
    BY <2>2, JudgeStep
  <2>3. CASE Cancelled \/ \E w \in Workers : CancelOne(w)
    BY <1>1, <2>3 DEF Cancelled, CancelOne
  <2> QED
    BY <1>6, <2>1, <2>2, <2>3 DEF Cull
<1>7. ~Close
  BY DEF Close
<1>8. CASE UNCHANGED vars
  BY <1>1, <1>8 DEF vars
<1> QED
  BY <1>2, <1>3, <1>4, <1>5, <1>6, <1>7, <1>8 DEF Next

\* After close no dial that still reports and no window the culler still judges
\* registers a worker, moves one or counts one.
THEOREM ClosedStays == Spec => ClosedIsFinal
<1>1. Inv /\ [Next]_vars =>
        [p.closed => /\ \A w \in Workers : Entry(p'.reg[w]) = Entry(p.reg[w])
                     /\ \A a \in Addrs : p'.node[a].conns = p.node[a].conns]_vars
  BY ClosedStep DEF BooksKept
<1> QED
  BY <1>1, Invariant, PTL DEF Spec, ClosedIsFinal

=============================================================================
