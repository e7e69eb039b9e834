------------------------------ MODULE Placement ------------------------------
(***************************************************************************)
(* Which of a host's addresses each worker's connection goes to (nodes.go) *)
(* and how a slow address is found and left (cull.go).  Workers reserve an *)
(* address, dial it against a fallback, move after stalls and failures;    *)
(* the culler compares the addresses' rates, strikes a slow one, flags its *)
(* workers and, after the unlock, cancels their attempts one by one.  A    *)
(* dial whose attempt was given up may still report.                       *)
(*                                                                         *)
(* Addresses are numbered in the resolver's order.  Clocks are actions     *)
(* (Unpark, Cooldown, Tick) and rates are any rates.  A window must be     *)
(* stable over the last sampling interval, where the code asks it of the   *)
(* last two: the culler judges here whenever it judges there.              *)
(***************************************************************************)
EXTENDS Integers, FiniteSets, DialOutcome

CONSTANTS
    Workers,
    Addrs,          \* the addresses the host resolved to at first
    election,       \* the one that answered the election, which comes first
    Answers,        \* the sets of addresses a later resolution may return
    Scenarios       \* which of the rarer events may happen in one run, a set of sets

\* "clock" is half a minute passing, which parking and cooldowns end with; "verdicts"
\* is no event: it keeps the history of what the windows judged found.
Events == {"initial", "late", "redirect", "refresh", "fail", "stall", "cull", "clock",
           "verdicts"}

ASSUME PlacementAssumption ==
    /\ IsFiniteSet(Workers)
    /\ Addrs \subseteq Nat
    /\ None \notin Addrs
    /\ election \in Addrs
    /\ \A a \in Addrs : election <= a
    /\ Answers \subseteq SUBSET Addrs
    /\ Scenarios \subseteq SUBSET Events

VARIABLES
    p,              \* nodePlacement's fields, all guarded by its mutex
    at,             \* worker -> its step, its transport's pin and connection, its fallback
    slow,           \* workers whose attempt was cancelled with errSlowNode
    stray,          \* the abandoned dials that have not reported yet
    culler,         \* the sampler goroutine
    may             \* the events of this run, a member of Scenarios

vars == <<p, at, slow, stray, culler, may>>

Labels == {"out", "top", "checked", "bound", "attached", "dial", "read", "away",
           "first", "gone"}
\* Between beginAttempt and the function it returns: a cull finds a cancel.
InAttempt == {"dial", "read", "away", "first"}

\* A node holds the nodeAddress fields and, as history, what it was found to be
\* in the last window judged.
Idle == [conns |-> 0, parked |-> FALSE, strikes |-> 0, healthy |-> 0, below |-> 0,
         last |-> "none"]

\* A registration holds the placedWorker fields.  Of the byte counter it says
\* whether there is none ("nil"), it is the one made at registration ("fresh"),
\* or it belongs to a connection that has counted no byte or may have.  Two fields
\* are history: hit, the worker was on its address when that was culled; late, a
\* dial reported after the worker gave it up.
Absent == [in |-> FALSE, addr |-> None, counter |-> "nil", avoid |-> None,
           rotate |-> FALSE, hit |-> FALSE, late |-> FALSE]

-----------------------------------------------------------------------------
(* The methods of nodePlacement, as functions of its fields *)

Eligible(n) == n.strikes < 2 /\ ~n.parked
Probing(n) == n.strikes > 0 /\ n.conns > 0

\* bestLocked: of the listed addresses that may be used, one with the fewest
\* connections and, of these, the first; {None} if there is none.
Best(q, exclude) ==
    LET open == {a \in q.listed \ {exclude} : Eligible(q.node[a]) /\ ~Probing(q.node[a])}
        least == {a \in open : \A b \in open : q.node[a].conns <= q.node[b].conns}
    IN  IF open = {} THEN {None} ELSE {a \in least : \A b \in least : a <= b}

\* workerLocked
Registered(q, w) ==
    IF q.reg[w].in THEN q
    ELSE [q EXCEPT !.reg[w] = [@ EXCEPT !.in = TRUE, !.counter = "fresh"], !.moved = TRUE]

\* The connection counts after one leaves old and one reaches a; either may be None.
Recounted(node, old, a) ==
    [b \in Addrs |->
        [node[b] EXCEPT !.conns =
            (IF b = old /\ @ > 0 THEN @ - 1 ELSE @) + (IF b = a THEN 1 ELSE 0)]]

\* assignLocked, on a registered worker.
Assigned(q, w, a, force) ==
    LET old == q.reg[w].addr
    IN  IF old = a /\ ~force THEN q
        ELSE [q EXCEPT
                !.node = IF old = a THEN @ ELSE Recounted(@, old, a),
                !.reg[w] = [q.reg[w] EXCEPT !.addr = a, !.hit = @ /\ old = a,
                                               !.counter = IF a = None THEN "nil" ELSE "empty"],
                !.moved = TRUE]

\* releaseAddress
Released(q, w) == IF q.reg[w].addr = None THEN q ELSE Assigned(q, w, None, FALSE)

\* removeWorker
Removed(q, w) ==
    IF ~q.reg[w].in THEN q
    ELSE [q EXCEPT !.node = Recounted(@, q.reg[w].addr, None),
                   !.reg[w] = [Absent EXCEPT !.late = q.reg[w].late], !.moved = TRUE]

\* markAvailabilityFailure, for each of these addresses.
Parked(q, as) == [q EXCEPT !.node = [a \in Addrs |->
                    IF a \in as THEN [q.node[a] EXCEPT !.parked = TRUE] ELSE q.node[a]]]

\* A plausible slip: a winner is recorded after the placement has closed.
WonEvenClosed(q, w, a) ==
    IF a = None THEN q ELSE Assigned(Registered(q, w), w, a, TRUE)

\* markDialWinner
Won(q, w, a) ==
    IF q.closed \/ a = None THEN q ELSE Assigned(Registered(q, w), w, a, TRUE)

\* gotConn, for a remote of the pool or, a = None, one outside it.
GotConn(q, w, a) == IF q.closed THEN q ELSE Assigned(Registered(q, w), w, a, FALSE)

\* observedReader counts the body's bytes from here on.
Reading(q, w) == [q EXCEPT !.reg[w].counter = IF @ = "empty" THEN "fed" ELSE @]

\* A plausible slip: the election's provisional connection is not handed over.
AttachedTwice(q, w) ==
    LET q1 == [q EXCEPT !.pending = FALSE]
    IN  IF q.closed THEN q1 ELSE Assigned(Registered(q1, w), w, election, FALSE)

\* attachInitial
Attached(q, w) ==
    LET q1 == IF q.pending
              THEN [q EXCEPT !.node = Recounted(@, election, None), !.pending = FALSE] ELSE q
    IN  IF q.closed THEN q1 ELSE Assigned(Registered(q1, w), w, election, FALSE)

-----------------------------------------------------------------------------
(* A worker's attempts *)

Goto(w, l) == at' = [at EXCEPT ![w].pc = l]

NoClient(l) == [pc |-> l, pin |-> None, conn |-> None, fb |-> None]

\* dropPlacementTransport, given the fields of the placement so far.
Drop(w, q, l) == p' = Released(q, w) /\ at' = [at EXCEPT ![w] = NoClient(l)]

\* The attempt is over: a cull that has not cancelled it yet no longer can.
Ended(w) ==
    /\ slow' = slow \ {w}
    /\ culler' = [culler EXCEPT !.todo = @ \ {w}]

\* Its dial, if it was in one, ends unseen or goes on to report; one does in a run.
LeftDial(w) ==
    \/ stray' = stray
    \/ /\ "late" \in may
       /\ at[w].pc = "dial"
       /\ stray = {} /\ \A v \in Workers : ~p.reg[v].late
       /\ stray' = {[worker |-> w, pin |-> at[w].pin, fb |-> at[w].fb]}

\* newWorker
Spawn(w) ==
    /\ at[w].pc = "out"
    /\ ~p.closed
    /\ p' = Registered(p, w)
    /\ Goto(w, "top")
    /\ UNCHANGED <<slow, stray, culler, may>>

\* attempt: a rotation flagged between attempts drops the transport.
Check(w) ==
    /\ at[w].pc = "top"
    /\ IF p.reg[w].rotate
       THEN Drop(w, [p EXCEPT !.reg[w].rotate = FALSE], "checked")
       ELSE Goto(w, "checked") /\ p' = p
    /\ UNCHANGED <<slow, stray, culler, may>>

\* initialRangeAttempt: attachInitial.
TakeInitial(w) ==
    /\ at[w].pc = "checked"
    /\ p.pending
    /\ p' = Attached(p, w)
    /\ Goto(w, "attached")
    /\ UNCHANGED <<slow, stray, culler, may>>

\* ensureClient and reserve: an address the worker has already is kept; the one
\* it stalled on is avoided if there is another.
Reserve(w) ==
    /\ at[w].pc = "checked"
    /\ at[w].pin = None
    /\ \/ /\ p.reg[w].addr # None
          /\ at' = [at EXCEPT ![w] = [NoClient("bound") EXCEPT !.pin = p.reg[w].addr]]
          /\ p' = p
       \/ /\ p.reg[w].addr = None
          /\ \E other \in Best(p, p.reg[w].avoid) :
             \E n \in IF other = None THEN Best(p, None) ELSE {other} :
               /\ p' = Assigned([p EXCEPT !.reg[w].avoid = None], w, n, FALSE)
               /\ at' = [at EXCEPT ![w] =
                           [NoClient(IF n = None THEN "top" ELSE "bound") EXCEPT !.pin = n]]
    /\ UNCHANGED <<slow, stray, culler, may>>

\* The transport sends the request: over its idle connection, for which GotConn
\* fires, or after a dial, whose fallback nothing reserves.
Send(w) ==
    \/ /\ at[w].conn # None
       /\ p' = Reading(GotConn(p, w, at[w].conn), w)
       /\ Goto(w, "read")
    \/ /\ p' = p
       /\ \E fb \in Best(p, at[w].pin) :
            at' = [at EXCEPT ![w] = [@ EXCEPT !.pc = "dial", !.conn = None, !.fb = fb]]

\* A plausible slip: the attempt registers its cancel and leaves the rotation to
\* the next Check, which may be a whole chunk away.
RequestDeaf(w) ==
    /\ at[w].pc \in {"checked", "bound"}
    /\ at[w].pin # None
    /\ Send(w)
    /\ UNCHANGED <<slow, stray, culler, may>>

\* beginAttempt and client.Do: a rotation flagged before the attempt registered
\* cancels it at once.
Request(w) ==
    /\ at[w].pc \in {"checked", "bound"}
    /\ at[w].pin # None
    /\ IF p.reg[w].rotate
       THEN Drop(w, [p EXCEPT !.reg[w].rotate = FALSE], "top")
       ELSE Send(w)
    /\ UNCHANGED <<slow, stray, culler, may>>

\* The same around the election's response, whose body may be read to its end
\* although the attempt is cancelled.
First(w) ==
    /\ at[w].pc = "attached"
    /\ p' = Reading([p EXCEPT !.reg[w].rotate = FALSE], w)
    /\ slow' = IF p.reg[w].rotate THEN slow \cup {w} ELSE slow
    /\ Goto(w, "first")
    /\ UNCHANGED <<stray, culler, may>>

\* The race reports to the attempt waiting for it.  With a connection, TLS and
\* the request follow (GotConn), or the handshake fails and parks the worker's
\* address (rotationError); with none, the worker gives its reservation back.
DialEnd(w) ==
    /\ at[w].pc = "dial"
    /\ \E o \in DialOutcomes(at[w].pin, at[w].fb) :
         LET won == Won(Parked(p, ParkedBy(o, at[w].pin)), w, o.winner)
         IN  \/ /\ o.winner # None
                /\ o.winner = at[w].pin \/ "fail" \in may
                /\ p' = Reading(GotConn(won, w, o.winner), w)
                /\ at' = [at EXCEPT ![w] =
                             [@ EXCEPT !.pc = "read", !.conn = o.winner, !.fb = None]]
                /\ UNCHANGED <<slow, culler>>
             \/ /\ o.winner # None
                /\ "fail" \in may
                /\ w \notin slow
                /\ Drop(w, Parked(won, {won.reg[w].addr}), "top")
                /\ Ended(w)
             \/ /\ o.winner = None
                /\ "fail" \in may
                /\ Drop(w, won, "top")
                /\ Ended(w)
    /\ UNCHANGED <<stray, may>>

\* A plausible slip: a connection outside the pool leaves the attribution alone.
RedirectUnseen(w) ==
    /\ "redirect" \in may
    /\ at[w].pc = "read"
    /\ Goto(w, "away")
    /\ UNCHANGED <<p, slow, stray, culler, may>>

\* The request is redirected to another host: GotConn fires for a foreign remote.
Redirect(w) ==
    /\ "redirect" \in may
    /\ at[w].pc = "read"
    /\ p' = GotConn(p, w, None)
    /\ Goto(w, "away")
    /\ UNCHANGED <<slow, stray, culler, may>>

\* classify of errStall: rotateAfterStall.
Stall(w) ==
    /\ "stall" \in may
    /\ at[w].pc \in InAttempt /\ w \notin slow
    /\ Drop(w, [p EXCEPT !.reg[w].avoid = p.reg[w].addr], "top")
    /\ Ended(w)
    /\ LeftDial(w)
    /\ UNCHANGED may

\* classify of errSlowNode.
SlowReturn(w) ==
    /\ w \in slow
    /\ Drop(w, p, "top")
    /\ Ended(w)
    /\ LeftDial(w)
    /\ UNCHANGED may

\* The body or an error ends the attempt and the transport stays; after the
\* election's response the address is released.
Done(w) ==
    /\ at[w].pc \in {"read", "away", "first"}
    /\ p' = IF at[w].pc = "first" THEN Released(p, w) ELSE p
    /\ Goto(w, "top")
    /\ Ended(w)
    /\ UNCHANGED <<stray, may>>

\* No chunk is left, an error is final or the context is done: closePlacement.
Leave(w) ==
    /\ at[w].pc \notin {"out", "gone"}
    /\ p' = Removed(Released(p, w), w)
    /\ at' = [at EXCEPT ![w] = NoClient("gone")]
    /\ Ended(w)
    /\ LeftDial(w)
    /\ UNCHANGED may

\* An abandoned race reports: a winner is recorded for its worker, whatever that does now.
LateReport(s) ==
    /\ \E o \in DialOutcomes(s.pin, s.fb) \cup Abandoned(s.pin, s.fb) :
         LET q == Parked(p, ParkedBy(o, s.pin))
         IN  p' = IF o.winner = None THEN q
                  ELSE Won([q EXCEPT !.reg[s.worker].late = TRUE], s.worker, o.winner)
    /\ stray' = stray \ {s}
    /\ UNCHANGED <<at, slow, culler, may>>

-----------------------------------------------------------------------------
(* Clocks and the resolver *)

\* unavailableUntil passes.
Unpark(a) ==
    /\ "clock" \in may
    /\ p.node[a].parked
    /\ p' = [p EXCEPT !.node[a].parked = FALSE]
    /\ UNCHANGED <<at, slow, stray, culler, may>>

\* nodeCullCooldown passes since lastCull.
Cooldown ==
    /\ "clock" \in may
    /\ p.cooling
    /\ p' = [p EXCEPT !.cooling = FALSE]
    /\ UNCHANGED <<at, slow, stray, culler, may>>

\* refresh, by a worker out of rotations: the election's address is always listed.
Refresh(w) ==
    /\ "refresh" \in may
    /\ at[w].pc = "top"
    /\ \E answer \in Answers : p' = [p EXCEPT !.listed = answer \cup {election}]
    /\ UNCHANGED <<at, slow, stray, culler, may>>

-----------------------------------------------------------------------------
(* The culler: sampleLoop and evaluateWindow *)

\* resetCullEvidence, of the listed addresses.
EvidenceReset(q) ==
    [q EXCEPT !.node = [a \in Addrs |->
        IF a \in q.listed THEN [q.node[a] EXCEPT !.below = 0, !.healthy = 0, !.last = "none"]
        ELSE [q.node[a] EXCEPT !.last = "none"]]]

\* The addresses a sample finds connections on.
Sampled == {p.reg[w].addr : w \in Workers} \ {None}

\* Those of them that may have delivered bytes.
Delivering == {p.reg[w].addr : w \in {v \in Workers : p.reg[v].counter = "fed"}} \ {None}

\* nodeRates: membership stood still since the last sample, and every counter has
\* an address.
Stable == ~p.moved /\ \A w \in Workers : p.reg[w].counter # "fresh"

\* snapshot and nodeRates.  A window with two addresses goes on to judgment; it
\* may also be refused for its data, or because the ramp has not finished.
Tick ==
    /\ "cull" \in may
    /\ culler.pc = "wait"
    /\ \/ /\ p' = [EvidenceReset(p) EXCEPT !.moved = FALSE]
          /\ UNCHANGED culler
       \/ /\ Stable
          /\ \E a, b \in Sampled : a # b
          /\ culler' = [culler EXCEPT !.pc = "judge", !.addrs = Sampled, !.fed = Delivering]
          /\ UNCHANGED p
    /\ UNCHANGED <<at, slow, stray, may>>

\* A plausible slip: the windows that restored an address go on counting for it.
EvidenceKept(n, rate) ==
    IF Probing(n) /\ rate = "healthy"
    THEN IF n.healthy = 0 THEN [n EXCEPT !.below = 0, !.healthy = 1]
         ELSE [n EXCEPT !.below = 0, !.healthy = 2, !.strikes = 0]
    ELSE [n EXCEPT !.healthy = IF Probing(n) THEN 0 ELSE @,
                   !.below = IF rate # "slow" THEN 0 ELSE IF @ = 0 THEN 1 ELSE 2]

\* judgeLocked: the evidence after one more window, with this rate in it.
Evidence(n, rate) ==
    IF Probing(n) /\ rate = "healthy"
    THEN IF n.healthy = 0 THEN [n EXCEPT !.below = 0, !.healthy = 1]
         ELSE [n EXCEPT !.below = 0, !.healthy = 0, !.strikes = 0]
    ELSE [n EXCEPT !.healthy = IF Probing(n) THEN 0 ELSE @,
                   !.below = IF rate # "slow" THEN 0 ELSE IF @ = 0 THEN 1 ELSE 2]

\* A plausible slip: the alternative may itself have been culled.
MayCullOnto(q, c, b) ==
    q.node[c].conns > 0 /\ q.node[b].conns > 0 /\ Eligible(q.node[b])

\* cullLocked's condition: the address is in use, and there is a live, eligible,
\* never culled one to move its workers to.
MayCull(q, c, b) ==
    q.node[c].conns > 0 /\ q.node[b].conns > 0 /\ q.node[b].strikes = 0 /\ Eligible(q.node[b])

\* The rest of cullLocked: the strike (a third is no more than a second), and the
\* flag on every worker there.
Culled(q, c) ==
    [q EXCEPT
       !.node[c] = [q.node[c] EXCEPT !.strikes = IF @ = 0 THEN 1 ELSE 2, !.below = 0,
                                     !.healthy = 0, !.last = "none",
                                     !.parked = @ \/ q.node[c].strikes = 0],
       !.cooling = TRUE,
       !.reg = [w \in Workers |-> IF q.reg[w].addr = c
                  THEN [q.reg[w] EXCEPT !.rotate = TRUE, !.hit = TRUE] ELSE q.reg[w]]]

Found(rate) == IF "verdicts" \notin may \/ rate = "tail" THEN "none"
               ELSE IF rate = "slow" THEN "slow" ELSE "fast"

Waiting == [culler EXCEPT !.pc = "wait", !.addrs = {}, !.fed = {}]

\* evaluateWindow on such a window.  Rates are relative to the best address's,
\* which is not judged; the slowest of those confirmed slow is culled.
Judge ==
    /\ culler.pc = "judge"
    /\ \E best \in culler.fed :
       \E rate \in [culler.addrs \ {best} -> {"healthy", "tail", "slow"}] :
         LET q == [p EXCEPT !.node = [a \in Addrs |->
                     IF a = best THEN [p.node[a] EXCEPT !.last = Found("healthy")]
                     ELSE IF a \in culler.addrs
                          THEN [Evidence(p.node[a], rate[a]) EXCEPT !.last = Found(rate[a])]
                          ELSE p.node[a]]]
             confirmed == {a \in DOMAIN rate : rate[a] = "slow" /\ q.node[a].below = 2}
         IN  /\ \A a \in DOMAIN rate : rate[a] = "healthy" => a \in culler.fed
             /\ \/ /\ confirmed = {} \/ p.cooling
                   /\ p' = q /\ culler' = Waiting
                \/ \E c \in confirmed :
                   /\ ~p.cooling /\ ~MayCull(q, c, best)
                   /\ p' = q /\ culler' = Waiting
                \/ \E c \in confirmed :
                   /\ ~p.cooling /\ MayCull(q, c, best)
                   /\ p' = Culled(q, c)
                   /\ culler' = [Waiting EXCEPT !.pc = "cancel",
                        !.todo = {w \in Workers : p.reg[w].addr = c /\ at[w].pc \in InAttempt}]
    /\ UNCHANGED <<at, slow, stray, may>>

\* The cancels collected under the lock run one by one after it.
CancelOne(w) ==
    /\ w \in culler.todo
    /\ slow' = slow \cup {w}
    /\ culler' = [culler EXCEPT !.todo = @ \ {w}]
    /\ UNCHANGED <<p, at, stray, may>>

Cancelled ==
    /\ culler.pc = "cancel" /\ culler.todo = {}
    /\ culler' = Waiting
    /\ UNCHANGED <<p, at, slow, stray, may>>

\* close, after every worker is gone.  It marks the placement first and then stops
\* the culler, which meanwhile may finish its window and even begin another.
Close ==
    /\ ~p.closed
    /\ \A w \in Workers : at[w].pc \in {"out", "gone"}
    /\ p' = [p EXCEPT !.closed = TRUE]
    /\ UNCHANGED <<at, slow, stray, culler, may>>

-----------------------------------------------------------------------------

\* newNodePlacement: the election's response may still be open for a worker.
Init ==
    /\ may \in Scenarios
    /\ p = [node |-> [a \in Addrs |-> [Idle EXCEPT !.conns =
                        IF "initial" \in may /\ a = election THEN 1 ELSE 0]],
            reg |-> [w \in Workers |-> Absent],
            listed |-> Addrs, pending |-> "initial" \in may, closed |-> FALSE,
            cooling |-> FALSE, moved |-> TRUE]
    /\ at = [w \in Workers |-> NoClient("out")]
    /\ slow = {}
    /\ stray = {}
    /\ culler = [pc |-> "wait", addrs |-> {}, fed |-> {}, todo |-> {}]

Attempt(w) ==
    \/ Spawn(w) \/ Check(w) \/ TakeInitial(w) \/ Reserve(w) \/ Request(w) \/ First(w)
    \/ DialEnd(w) \/ Redirect(w) \/ Stall(w) \/ SlowReturn(w) \/ Done(w) \/ Leave(w)
    \/ Refresh(w)

Cull == Tick \/ Judge \/ (\E w \in Workers : CancelOne(w)) \/ Cancelled

Next ==
    \/ \E w \in Workers : Attempt(w)
    \/ \E s \in stray : LateReport(s)
    \/ \E a \in Addrs : Unpark(a)
    \/ Cooldown
    \/ Cull
    \/ Close

Spec == Init /\ [][Next]_vars

-----------------------------------------------------------------------------

NodeType == [conns : Nat, parked : BOOLEAN, strikes : 0 .. 2, healthy : 0 .. 1,
             below : 0 .. 2, last : {"none", "fast", "slow"}]
RegType == [in : BOOLEAN, addr : Addrs \cup {None},
            counter : {"nil", "fresh", "empty", "fed"}, avoid : Addrs \cup {None},
            rotate : BOOLEAN, hit : BOOLEAN, late : BOOLEAN]

\* Every variable has its type (the fields of nodePlacement, placedWorker and
\* nodeAddress); no connection is released that was not counted, and a restored
\* address starts its next probation without healthy windows.
TypeOK ==
    /\ p \in [node : [Addrs -> NodeType], reg : [Workers -> RegType], listed : SUBSET Addrs,
              pending : BOOLEAN, closed : BOOLEAN, cooling : BOOLEAN, moved : BOOLEAN]
    /\ at \in [Workers -> [pc : Labels, pin : Addrs \cup {None}, conn : Addrs \cup {None},
                           fb : Addrs \cup {None}]]
    /\ slow \subseteq Workers
    /\ stray \subseteq [worker : Workers, pin : Addrs \cup {None}, fb : Addrs \cup {None}]
    /\ culler \in [pc : {"wait", "judge", "cancel"}, addrs : SUBSET Addrs,
                fed : SUBSET Addrs, todo : SUBSET Workers]
    /\ may \in Scenarios

OnAddr(a) == {w \in Workers : p.reg[w].addr = a}

\* The load bestLocked balances by is real: an address counts one connection for
\* every registered worker on it and one for the election until that is handed
\* over, through every move, and only a late dial can register a worker that has left.
ConnsMatch ==
    /\ \A a \in Addrs : p.node[a].conns =
          Cardinality(OnAddr(a)) + (IF p.pending /\ a = election THEN 1 ELSE 0)
    /\ \A w \in Workers : at[w].pc \in {"out", "gone"} =>
          \/ p.reg[w].addr = None /\ ~p.reg[w].in
          \/ p.reg[w].late

\* Some address of the pool has never been culled or has been restored, so that
\* culling alone never leaves reserve without an address (cullLocked's condition).
NeverAllStruck == \E a \in Addrs : p.node[a].strikes = 0

\* A worker on a culled address moves: its attempt is cancelled or about to be,
\* or it drops its transport before the next one, wherever between two attempts
\* the cull found it (beginAttempt's promise, nodes.go:457-461).
CulledMoves ==
    \A w \in Workers : p.reg[w].hit =>
        IF at[w].pc \in InAttempt THEN w \in slow \cup culler.todo ELSE p.reg[w].rotate

\* The bytes of a body are credited to the address they come from, and to none
\* when that is outside the pool (gotConn's comment), unless a late dial has
\* moved the worker meanwhile.
AttributionHonest ==
    \A w \in Workers : ~p.reg[w].late =>
        /\ at[w].pc = "read" => p.reg[w].addr = at[w].conn
        /\ at[w].pc = "away" => p.reg[w].addr = None
        /\ at[w].pc = "first" => p.reg[w].addr = election

\* What a placement has on its books of a worker.
Entry(r) == [in |-> r.in, addr |-> r.addr, counter |-> r.counter, avoid |-> r.avoid]

\* Once the placement has closed nothing registers with it, moves in it or is
\* counted, though dials of the run may still report and the culler, whom close
\* has yet to stop, may still judge.
ClosedIsFinal ==
    [][p.closed =>
         /\ \A w \in Workers : Entry(p'.reg[w]) = Entry(p.reg[w])
         /\ \A a \in Addrs : p'.node[a].conns = p.node[a].conns]_vars

-----------------------------------------------------------------------------
(* What comments of the code say and the code does not do *)

\* A worker sent to this address after its cull reads from it.
Probed(a) == \E w \in Workers : at[w].pc = "read" /\ at[w].conn = a /\ ~p.reg[w].rotate

\* cull.go:225-226, "A probing address that samples healthy twice is restored":
\* while its probe reads, fast in two windows judged in a row, the best of them
\* or not, leaves it without a strike.
ProbeRestored ==
    [][Judge => \A a \in culler.addrs :
          /\ Probing(p.node[a]) /\ Probed(a)
          /\ p.node[a].last = "fast" /\ p'.node[a].last = "fast"
          => p'.node[a].strikes = 0]_vars

=============================================================================
