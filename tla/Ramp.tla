-------------------------------- MODULE Ramp --------------------------------
(***************************************************************************)
(* The adaptive-concurrency governor rampState (download.go) and what it   *)
(* does to the pool.  Its critical sections only decide; spawn and demote  *)
(* run after rs.mu is released, in the worker that decided, so that other  *)
(* workers' windows and 429s, registrations and exits come in between.     *)
(*                                                                         *)
(* The pool is seen as the life of each worker and the scheduler's flow    *)
(* limit (next and demote of scheduler.go, without the byte ranges).  A    *)
(* window of bytes stands for itself: its rate against the baseline is one *)
(* of three outcomes.                                                      *)
(***************************************************************************)
EXTENDS Integers, FiniteSets, FiniteSetsExt

CONSTANTS
    Parts,      \* Concurrency.Parts
    Floors      \* the worker counts the run may start with (prepare's result)

ASSUME RampAssumption == Parts \in Nat \ {0} /\ Floors \subseteq 1 .. Parts

VARIABLES
    floor, done, admitted, prevAdmitted,    \* fields of rampState
    probed,     \* has a batch been admitted (admittedAt is not zero)?
    warmed, settling, batchReady, unreadyWindows, sampleCount,
    sawBody,    \* workers that have received a body byte
    settled,    \* has settleMin passed since admittedAt?
    stage,      \* worker -> where it is in its life
    limit,      \* scheduler.limit
    work,       \* is a range pending, or large enough to split?
    call        \* worker -> side effect it has decided on and not finished

rampVars == <<floor, done, admitted, prevAdmitted, probed, warmed, settling,
              batchReady, unreadyWindows, sampleCount, settled, sawBody>>
poolVars == <<stage, limit, work>>
vars == <<rampVars, poolVars, call>>

Workers == 0 .. Parts - 1
rampMeasureWindows == 2

\* A flow is granted work; a leaving worker was selected for retirement.
Stages == {"unborn", "born", "flow", "leaving", "gone"}
In(s) == {w \in Workers : stage[w] = s}
Flows == In("flow")

\* Side effects: spawn the ids left of a batch, demote to some flows, or none.
NoCall == [spawn |-> {}, keep |-> 0]
SpawnCall(ids) == [spawn |-> ids, keep |-> 0]
DemoteCall(k) == [spawn |-> {}, keep |-> k]
Decide(w, c) == call' = [call EXCEPT ![w] = c]

\* A worker that reads a body and is not busy with a side effect.
Reading(w) == stage[w] \in {"flow", "leaving"} /\ call[w] = NoCall

-----------------------------------------------------------------------------
(* noteLocked, one disjunct of its switch each: a full window has landed *)

\* Read feeds noteWorkerReady before note, so the reader has been counted.
Window(w) == Reading(w) /\ w \in sawBody /\ ~done

BurnIn(w) ==
    /\ Window(w)
    /\ ~warmed
    /\ warmed' = TRUE
    /\ UNCHANGED <<floor, done, admitted, prevAdmitted, probed, settling,
                   batchReady, unreadyWindows, sampleCount, settled, sawBody, poolVars, call>>

\* A settling window: the batch may have contributed, or run out of windows.
Settle(w) ==
    /\ Window(w)
    /\ warmed /\ settling /\ settled
    /\ \/ /\ batchReady
          /\ settling' = FALSE /\ unreadyWindows' = 0
          /\ UNCHANGED <<done, call>>
       \/ /\ ~batchReady
          /\ unreadyWindows' = unreadyWindows + 1
          /\ IF unreadyWindows + 1 > rampMeasureWindows
               THEN done' = TRUE /\ Decide(w, DemoteCall(prevAdmitted))
               ELSE UNCHANGED <<done, call>>
          /\ UNCHANGED settling
    /\ UNCHANGED <<floor, admitted, prevAdmitted, probed, warmed, batchReady,
                   sampleCount, settled, sawBody, poolVars>>

\* A plausible slip: the batch is not clamped to Parts.
AdmitUnclamped(w) ==
    LET add == admitted IN
      /\ prevAdmitted' = admitted
      /\ admitted' = admitted + add
      /\ Decide(w, SpawnCall(admitted .. admitted + add - 1))
      /\ probed' = TRUE /\ settling' = TRUE /\ settled' = FALSE
      /\ batchReady' = FALSE /\ unreadyWindows' = 0

\* A plausible slip: the count before the batch is recorded after adding it.
AdmitRecordedLate(w) ==
    LET add == Min({admitted, Parts - admitted}) IN
      /\ prevAdmitted' = admitted + add
      /\ admitted' = admitted + add
      /\ Decide(w, SpawnCall(admitted .. admitted + add - 1))
      /\ probed' = TRUE /\ settling' = TRUE /\ settled' = FALSE
      /\ batchReady' = FALSE /\ unreadyWindows' = 0

\* admitLocked: the next batch doubles the flows, clamped to Parts.
Admit(w) ==
    LET add == Min({admitted, Parts - admitted}) IN
      /\ prevAdmitted' = admitted
      /\ admitted' = admitted + add
      /\ Decide(w, SpawnCall(admitted .. admitted + add - 1))
      /\ probed' = TRUE /\ settling' = TRUE /\ settled' = FALSE
      /\ batchReady' = FALSE /\ unreadyWindows' = 0

Probe(w) ==
    /\ Window(w)
    /\ warmed /\ ~settling
    /\ admitted = floor /\ ~probed
    /\ Admit(w)
    /\ UNCHANGED <<floor, done, warmed, sampleCount, sawBody, poolVars>>

\* decideLocked on a full sample: roll back, freeze, or admit again.
Verdict(w) ==
    \/ /\ done' = TRUE
       /\ Decide(w, DemoteCall(prevAdmitted))
       /\ UNCHANGED <<admitted, prevAdmitted, probed, settling, settled,
                      batchReady, unreadyWindows>>
    \/ /\ done' = TRUE
       /\ UNCHANGED <<admitted, prevAdmitted, probed, settling, settled,
                      batchReady, unreadyWindows, call>>
    \/ /\ admitted < Parts
       /\ Admit(w)
       /\ UNCHANGED done

Measure(w) ==
    /\ Window(w)
    /\ warmed /\ ~settling
    /\ ~(admitted = floor /\ ~probed)
    /\ \/ /\ sampleCount + 1 < rampMeasureWindows
          /\ sampleCount' = sampleCount + 1
          /\ UNCHANGED <<done, admitted, prevAdmitted, probed, settling, settled,
                         batchReady, unreadyWindows, call>>
       \/ /\ sampleCount + 1 >= rampMeasureWindows
          /\ sampleCount' = 0
          /\ Verdict(w)
    /\ UNCHANGED <<floor, warmed, sawBody, poolVars>>

SettleMinPasses ==
    /\ probed /\ ~settled
    /\ settled' = TRUE
    /\ UNCHANGED <<floor, done, admitted, prevAdmitted, probed, warmed, settling,
                   batchReady, unreadyWindows, sampleCount, sawBody, poolVars, call>>

-----------------------------------------------------------------------------
(* noteWorkerReady and rejectThrottled *)

\* A plausible slip: any worker's first byte vouches for the batch.
InAnyBatch(w) == probed

InBatch(w) == probed /\ w >= prevAdmitted /\ w < admitted

\* noteWorkerReady: the first body byte of worker w.
WorkerReady(w) ==
    /\ Reading(w)
    /\ w \notin sawBody
    /\ sawBody' = sawBody \cup {w}
    /\ batchReady' = (batchReady \/ InBatch(w))
    /\ UNCHANGED <<floor, done, admitted, prevAdmitted, probed, warmed, settling,
                   unreadyWindows, sampleCount, settled, poolVars, call>>

Stale(w) == w >= admitted \/ admitted <= 1

\* A plausible slip: the walk down ends at the floor.
KeepFloor == Max({prevAdmitted, floor})

\* The flows to keep after a 429 that is not stale.
Keep == IF admitted > floor THEN Max({prevAdmitted, floor}) ELSE 1

\* A plausible slip: the ramp is left running after an overload response.
ThrottledKeepsProbing(w) ==
    /\ Reading(w)
    /\ IF Stale(w) THEN UNCHANGED <<admitted, prevAdmitted, call>>
       ELSE admitted' = Keep /\ prevAdmitted' = floor /\ Decide(w, DemoteCall(Keep))
    /\ UNCHANGED <<floor, done, probed, warmed, settling, batchReady,
                   unreadyWindows, sampleCount, settled, sawBody, poolVars>>

\* rejectThrottled: worker w's ranged request was answered 429.
Throttled(w) ==
    /\ Reading(w)
    /\ done' = TRUE
    /\ IF Stale(w) THEN UNCHANGED <<admitted, prevAdmitted, call>>
       ELSE admitted' = Keep /\ prevAdmitted' = floor /\ Decide(w, DemoteCall(Keep))
    /\ UNCHANGED <<floor, probed, warmed, settling, batchReady,
                   unreadyWindows, sampleCount, settled, sawBody, poolVars>>

-----------------------------------------------------------------------------
(* The side effects, and the pool *)

Spawn(w) ==
    /\ call[w].spawn # {}
    /\ LET id == Min(call[w].spawn) IN
         /\ stage' = [stage EXCEPT ![id] = "born"]
         /\ Decide(w, SpawnCall(call[w].spawn \ {id}))
    /\ UNCHANGED <<rampVars, limit, work>>

\* A plausible slip: the limit is only set when somebody must leave.
LimitIfExcess(keep) ==
    IF Cardinality(Flows) > keep /\ (limit = 0 \/ keep < limit) THEN keep ELSE limit

\* The flow limit is only ever lowered.
LimitAfter(keep) == IF limit = 0 \/ keep < limit THEN keep ELSE limit

\* demote: beyond keep flows, the highest ids are selected for retirement and
\* their ranges become pending.
Victims(keep) == {v \in Flows : Cardinality({u \in Flows : u < v}) >= keep}

Demote(w) ==
    /\ call[w].keep > 0
    /\ LET victims == Victims(call[w].keep) IN
         /\ stage' = [v \in Workers |-> IF v \in victims THEN "leaving" ELSE stage[v]]
         /\ work' = (work \/ victims # {})
    /\ limit' = LimitAfter(call[w].keep)
    /\ Decide(w, NoCall)
    /\ UNCHANGED rampVars

\* A worker's first next call: registered, or turned away by the flow limit or
\* for want of work.
Register(w) ==
    /\ stage[w] = "born"
    /\ stage' = [stage EXCEPT ![w] =
         IF (limit > 0 /\ Cardinality(Flows) + 1 > limit) \/ ~work THEN "gone" ELSE "flow"]
    /\ UNCHANGED <<rampVars, limit, work, call>>

\* A retired worker winds up.
Leave(w) ==
    /\ stage[w] = "leaving"
    /\ call[w] = NoCall
    /\ stage' = [stage EXCEPT ![w] = "gone"]
    /\ UNCHANGED <<rampVars, limit, work, call>>

\* The ranges in flight become too small to split.
RunShort ==
    /\ work
    /\ work' = FALSE
    /\ UNCHANGED <<rampVars, stage, limit, call>>

\* A worker comes back to next and finds no more work.
Drain(w) ==
    /\ stage[w] = "flow"
    /\ ~work
    /\ call[w] = NoCall
    /\ stage' = [stage EXCEPT ![w] = "gone"]
    /\ UNCHANGED <<rampVars, limit, work, call>>

Stop == (\A w \in Workers : stage[w] \in {"unborn", "gone"}) /\ UNCHANGED vars

-----------------------------------------------------------------------------
\* done is set from the start when the work cannot feed Parts connections.
Init ==
    /\ floor \in Floors
    /\ done \in BOOLEAN /\ (floor >= Parts => done)
    /\ admitted = floor /\ prevAdmitted = 0
    /\ probed = FALSE /\ warmed = FALSE /\ settling = FALSE /\ batchReady = FALSE
    /\ unreadyWindows = 0 /\ sampleCount = 0 /\ settled = FALSE /\ sawBody = {}
    /\ stage = [w \in Workers |-> IF w < floor THEN "born" ELSE "unborn"]
    /\ limit = 0 /\ work = TRUE
    /\ call = [w \in Workers |-> NoCall]

Effect(w) == Spawn(w) \/ Demote(w)

Next ==
    \/ \E w \in Workers :
         \/ BurnIn(w) \/ Settle(w) \/ Probe(w) \/ Measure(w)
         \/ WorkerReady(w) \/ Throttled(w)
         \/ Spawn(w) \/ Demote(w) \/ Register(w) \/ Leave(w) \/ Drain(w)
    \/ SettleMinPasses \/ RunShort
    \/ Stop

Spec == Init /\ [][Next]_vars

\* A hostile host: every flow that keeps asking is answered 429 again and
\* again, as long as there is more than one of them.
Hostile(w) == stage[w] = "flow" /\ Cardinality(Flows) > 1 /\ Throttled(w)

HostileSpec ==
    /\ Spec
    /\ \A w \in Workers : /\ WF_vars(Effect(w))
                          /\ WF_vars(Register(w))
                          /\ SF_vars(Hostile(w))

-----------------------------------------------------------------------------
(* Properties *)

\* Every field has its type.
TypeOK ==
    /\ floor \in 1 .. Parts /\ admitted \in 1 .. Parts
    /\ prevAdmitted \in 0 .. Parts /\ limit \in 0 .. Parts
    /\ {done, probed, warmed, settling, batchReady, settled, work} \subseteq BOOLEAN
    /\ unreadyWindows \in 0 .. rampMeasureWindows + 1
    /\ sampleCount \in 0 .. rampMeasureWindows - 1
    /\ sawBody \subseteq Workers
    /\ stage \in [Workers -> Stages]
    /\ call \in [Workers -> [spawn: SUBSET Workers, keep: 0 .. Parts]]

\* No worker id is started twice, although rejectThrottled lowers the count
\* that the next batch's ids would start from.
NoIdTwice ==
    /\ \A w \in Workers : \A id \in call[w].spawn : stage[id] = "unborn"
    /\ \A v, w \in Workers : v = w \/ call[v].spawn \cap call[w].spawn = {}

\* A batch is never credited with, or blamed for, what others did: windows are
\* measured only after one of the batch's own workers has delivered a byte.
JudgedAfterContribution ==
    probed /\ ~settling /\ ~done => \E w \in sawBody : prevAdmitted <= w /\ w < admitted

\* The pool never keeps more flows than the governor has admitted once its
\* demotions have run, in whatever order spawns and demotions came.
FlowsWithinAdmitted ==
    (\A w \in Workers : call[w] = NoCall) => Cardinality(Flows) <= admitted

\* A demotion sheds something and not too much: it keeps fewer flows than are
\* admitted, and never fewer than the floor unless an overload response to a
\* pool at its floor leaves one.
DemotionSheds ==
    [][\A w \in Workers :
          call[w] = NoCall /\ call'[w].keep > 0 =>
            /\ call'[w].keep < admitted
            /\ call'[w].keep >= floor \/ (admitted' = 1 /\ admitted <= floor)]_vars

\* A persistently hostile host is left with one flow at last.  The walk
\* admitted -> floor -> 1 only stops short when every survivor is past the
\* admitted count, so that its 429s are taken for stale: a worker that registers
\* after a demotion finds its limit filled, and the survivors are not the lowest ids.
HostileHostSheds ==
    <>[](Cardinality(Flows) <= 1 \/ \A w \in Flows : w >= admitted)

=============================================================================
