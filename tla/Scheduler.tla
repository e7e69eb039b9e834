----------------------------- MODULE Scheduler -----------------------------
(***************************************************************************)
(* The byte-range scheduler of scheduler.go.  Every operator below that    *)
(* primes a variable is one critical section under scheduler.mu; the       *)
(* module WorkerPool says which goroutine runs which of them, and when.    *)
(*                                                                         *)
(* A chunk is a record.  "owner" is NoOne while the chunk sits in the      *)
(* slice s.pending, and the worker it was granted to once it is in the map *)
(* s.active; a completed chunk leaves the table.  s.pending is only ever   *)
(* appended to with fresh ids and popped at its head, so it is ordered by  *)
(* id and its head is the least pending id.                                *)
(***************************************************************************)
EXTENDS Integers, FiniteSets, Functions, FiniteSetsExt

CONSTANTS
    Total,      \* bytes of the file, r.total
    MinSize,    \* Concurrency.MinPartSize
    Parts       \* Concurrency.Parts: worker ids are 0 .. Parts-1

ASSUME TotalAssumption == Total \in Nat \ {0}
ASSUME MinSizeAssumption == MinSize \in Nat \ {0}
ASSUME PartsAssumption == Parts \in Nat \ {0}

VARIABLES
    chunks,     \* id -> chunk: s.pending and s.active
    nextID,     \* s.nextID
    live,       \* s.live: workers between registration and deregistration
    retiring,   \* s.retiring: workers selected by demote
    limit,      \* s.limit, 0 while unlimited
    shown       \* id -> what the Reporter was told of a chunk not yet done

schedVars == <<chunks, nextID, live, retiring, limit, shown>>

NoOne == -1
Workers == 0 .. Parts - 1
Bytes == 0 .. Total - 1

ChunkType == [off: Nat, end: Nat, done: Nat, written: Nat,
              owner: Workers \cup {NoOne}]

-----------------------------------------------------------------------------
(* One chunk. *)

\* The next byte the owner should request: everything before it is claimed.
Cursor(c) == c.off + c.done

\* The unclaimed remainder.
Left(c) == c.end - Cursor(c)

\* Half of the remainder stays with c.
Mid(c) == Cursor(c) + Left(c) \div 2

Unclaimed(c) == Cursor(c) .. c.end - 1
InFlight(c) == c.off + c.written .. Cursor(c) - 1
Missing(c) == c.off + c.written .. c.end - 1

NewChunk(off, end, done, w) ==
    [off |-> off, end |-> end, done |-> done, written |-> done, owner |-> w]

-----------------------------------------------------------------------------
(* The tables. *)

Ids == DOMAIN chunks
Pending == {i \in Ids : chunks[i].owner = NoOne}
Active == Ids \ Pending
Holds(w, i) == i \in Ids /\ chunks[i].owner = w

Largest(S) == {i \in S : \A j \in S : Left(chunks[j]) <= Left(chunks[i])}
NonRetiring == live \ retiring
Idle == Ids = {}

Put(f, i, v) == [j \in DOMAIN f \cup {i} |-> IF j = i THEN v ELSE f[j]]

\* A plausible slip: the split chunk is not shortened.
HalvedUnshrunk(i, w) ==
    Put(chunks, nextID, NewChunk(Mid(chunks[i]), chunks[i].end, 0, w))

\* splitLocked: chunk i keeps the lower half, the upper half gets the next id.
Halved(i, w) ==
    [j \in Ids \cup {nextID} |->
        CASE j = nextID -> NewChunk(Mid(chunks[i]), chunks[i].end, 0, w)
          [] j = i      -> [chunks[i] EXCEPT !.end = Mid(chunks[i])]
          [] OTHER      -> chunks[j]]

-----------------------------------------------------------------------------
(* What the Reporter is told.  onGrant and onResize run under s.mu;        *)
(* ChunkProgress and ChunkDone run in the chunk's own worker, which holds  *)
(* no lock, right after the byte counter or the active set changed.        *)

Announce(c) ==
    [len |-> c.end - c.off, got |-> c.written]

\* A plausible slip: the length reported is what is left, not the whole.
ShrunkToLeft(i, newEnd) == [shown[i] EXCEPT !.len = newEnd - Cursor(chunks[i])]

Shrunk(i, newEnd) == [shown[i] EXCEPT !.len = newEnd - chunks[i].off]

-----------------------------------------------------------------------------
(* next *)

\* A plausible slip: the limit is forgotten and only retirement is checked.
MustLeaveRetiringOnly(w) == w \in retiring

\* A retiring worker and one beyond the flow limit are turned away; the
\* caller is registered before either test, so it counts itself.
MustLeave(w) ==
    \/ w \in retiring
    \/ limit > 0 /\ Cardinality((live \cup {w}) \ retiring) > limit

Register(w) == live' = live \cup {w} /\ UNCHANGED retiring

\* A plausible slip: the retirement mark outlives the worker.
DeregisterLiveOnly(w) == live' = live \ {w} /\ UNCHANGED retiring

Deregister(w) == live' = live \ {w} /\ retiring' = retiring \ {w}

GrantPending(w) ==
    /\ ~MustLeave(w)
    /\ \E i \in Pending :
         /\ \A j \in Pending : i <= j
         /\ chunks' = [chunks EXCEPT ![i].owner = w]
         /\ shown' = Put(shown, i, Announce(chunks[i]))
    /\ Register(w)
    /\ UNCHANGED <<nextID, limit>>

\* Splitting the largest in-flight remainder; map order breaks ties.
GrantSplit(w) ==
    /\ ~MustLeave(w)
    /\ Pending = {}
    /\ \E i \in Largest(Active) :
         /\ Left(chunks[i]) >= 2 * MinSize
         /\ chunks' = Halved(i, w)
         /\ shown' = Put([shown EXCEPT ![i] = Shrunk(i, Mid(chunks[i]))],
                         nextID, Announce(Halved(i, w)[nextID]))
    /\ nextID' = nextID + 1
    /\ Register(w)
    /\ UNCHANGED limit

TurnAway(w) ==
    /\ \/ MustLeave(w)
       \/ Pending = {} /\ \A i \in Active : Left(chunks[i]) < 2 * MinSize
    /\ Deregister(w)
    /\ UNCHANGED <<chunks, nextID, limit, shown>>

-----------------------------------------------------------------------------
(* claim, complete, exit *)

\* A plausible slip: the stolen tail is not cut off the buffer.
ClaimWholeBuffer(i, n) == n

\* The owner of chunk i, holding n fetched bytes, takes what the chunk still has.
Claimable(i, n) == IF n <= Left(chunks[i]) THEN n ELSE Left(chunks[i])

Claim(i, n) ==
    /\ chunks' = [chunks EXCEPT ![i].done = @ + Claimable(i, n)]
    /\ UNCHANGED <<nextID, live, retiring, limit, shown>>

\* written.Add followed by ChunkProgress: the claimed bytes are in the file.
Count(i) ==
    /\ chunks' = [chunks EXCEPT ![i].written = chunks[i].done]
    /\ shown' = [shown EXCEPT ![i].got = @ + chunks[i].done - chunks[i].written]
    /\ UNCHANGED <<nextID, live, retiring, limit>>

\* A plausible slip: the chunk stays in the active set.
WithoutNone(i) == chunks

\* complete followed by ChunkDone.
Without(i) == Restrict(chunks, Ids \ {i})
Closed(i) == Restrict(shown, DOMAIN shown \ {i})

Complete(i) ==
    /\ chunks' = Without(i)
    /\ shown' = Closed(i)
    /\ UNCHANGED <<nextID, live, retiring, limit>>

-----------------------------------------------------------------------------
(* demote *)

\* A plausible slip: one survivor too few.
VictimsOneTooMany(keep) ==
    {w \in NonRetiring :
        Cardinality({v \in NonRetiring : v > w}) <= Cardinality(NonRetiring) - keep}

\* The excess non-retiring live workers, highest ids first.
Victims(keep) ==
    {w \in NonRetiring :
        Cardinality({v \in NonRetiring : v > w}) < Cardinality(NonRetiring) - keep}

\* A plausible slip: victims are marked but keep their remainders.
SurrenderedNone(keep) == {}

\* Chunks whose remainder a retiring owner must give up.
Surrendered(keep) ==
    IF Victims(keep) = {} THEN {}
    ELSE {i \in Active : /\ chunks[i].owner \in retiring \cup Victims(keep)
                         /\ Left(chunks[i]) > 0}

\* Each remainder becomes a fresh pending chunk; the map s.active is walked
\* in any order, so "from" is any numbering of the remainders.
Moved(from) ==
    [j \in Ids \cup DOMAIN from |->
        CASE j \in DOMAIN from ->
                NewChunk(Cursor(chunks[from[j]]), chunks[from[j]].end, 0, NoOne)
          [] j \in Range(from) -> [chunks[j] EXCEPT !.end = Cursor(chunks[j])]
          [] OTHER -> chunks[j]]

FreshIds(k) == nextID .. nextID + k - 1

Demote(keep) ==
    /\ limit' = IF limit = 0 \/ keep < limit THEN keep ELSE limit
    /\ retiring' = retiring \cup Victims(keep)
    /\ \E from \in Bijection(FreshIds(Cardinality(Surrendered(keep))), Surrendered(keep)) :
         /\ chunks' = Moved(from)
         /\ shown' = [i \in DOMAIN shown |->
                        IF i \in Range(from) THEN Shrunk(i, Cursor(chunks[i]))
                                             ELSE shown[i]]
    /\ nextID' = nextID + Cardinality(Surrendered(keep))
    /\ UNCHANGED live

-----------------------------------------------------------------------------
(* addPending, prepare, snapshot *)

\* The table a run starts from: one pending chunk per entry of order, an
\* enumeration 0 .. n-1 of the ranges with their already written prefixes.
Seeded(order) ==
    [i \in DOMAIN order |-> NewChunk(order[i].off, order[i].end, order[i].done, NoOne)]

AddPending(order) ==
    /\ chunks' = Seeded(order)
    /\ nextID' = Cardinality(DOMAIN order)
    /\ live' = {} /\ retiring' = {} /\ limit' = 0 /\ shown' = <<>>

\* One round of prepare's loop: the first largest pending chunk is halved.
CanPrepare(n) ==
    /\ Cardinality(Pending) < n
    /\ \E i \in Pending : Left(chunks[i]) >= 2 * MinSize

PrepareSplit(n) ==
    /\ CanPrepare(n)
    /\ \E i \in Largest(Pending) :
         /\ \A j \in Largest(Pending) : i <= j
         /\ chunks' = Halved(i, NoOne)
    /\ nextID' = nextID + 1
    /\ UNCHANGED <<live, retiring, limit, shown>>

\* What prepare returns: how many workers are started at once.
Prepared(n) ==
    IF Pending = {} THEN 1
    ELSE IF Cardinality(Pending) < n THEN Cardinality(Pending) ELSE n

\* A plausible slip: record the claim cursor instead of the landed bytes.
WrittenByCursor(c) == IF c.done <= c.end - c.off THEN c.done ELSE c.end - c.off

\* snapshot: the incomplete ranges and how much of each is in the file.
Written(c) == IF c.written <= c.end - c.off THEN c.written ELSE c.end - c.off

Snapshot ==
    {[off |-> chunks[i].off, end |-> chunks[i].end, done |-> Written(chunks[i])] :
        i \in Ids}

-----------------------------------------------------------------------------
\* A chunk is claimed no further than its end, however often it is shortened,
\* and counted no further than it is claimed.
ChunkOK(c) == c \in ChunkType /\ c.written <= c.done /\ Cursor(c) <= c.end

\* The chunk ids are among those handed out so far.
TableOK ==
    /\ nextID \in Nat
    /\ chunks = [i \in Ids |-> chunks[i]]
    /\ \A i \in Ids : i \in 0 .. nextID - 1 /\ ChunkOK(chunks[i])

ShownOK == \A i \in DOMAIN shown : shown[i] \in [len: Nat, got: Nat]

WorkersOK == live \subseteq Workers /\ retiring \subseteq live /\ limit \in Nat

\* All the scheduler's variables have the types scheduler.go gives them.
SchedulerTypeOK == TableOK /\ ShownOK /\ WorkersOK

=============================================================================
