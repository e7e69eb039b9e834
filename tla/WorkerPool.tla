----------------------------- MODULE WorkerPool -----------------------------
(***************************************************************************)
(* A multipart run: the workers of worker.go, the pool, flusher and        *)
(* retirement of runWorkers (download.go), and the resume of multipart,    *)
(* over the scheduler of module Scheduler.  One action is one step of one  *)
(* goroutine between two points where another may act: a scheduler         *)
(* critical section, a file write, an atomic counter, a context check.     *)
(*                                                                         *)
(* The governor's decisions (when to spawn, how many flows to keep) are    *)
(* left open here: any worker reading a body may take any of them.  Module *)
(* Ramp decides.  Slow-node migration and address rotation, which only     *)
(* exist with a node placement, are not modelled.                          *)
(***************************************************************************)
EXTENDS Scheduler

CONSTANTS
    MinParts,   \* Concurrency.MinParts: workers started at once
    BufMax,     \* bytes one read can deliver
    MaxRetries, \* Options.MaxRetries: charged attempts of one chunk
    MaxRuns,    \* bound: downloads of this file, one after the other
    MaxTicks    \* bound: flusher ticks in one run

ASSUME PoolAssumption ==
    /\ MinParts \in 1 .. Parts
    /\ BufMax \in Nat \ {0}
    /\ MaxRetries \in Nat \ {0}
    /\ MaxRuns \in Nat \ {0}
    /\ MaxTicks \in Nat

VARIABLES
    phase,      \* where multipart is
    result,     \* what runWorkers returned
    runs,       \* downloads begun so far
    pc,         \* worker -> its next step
    last,       \* worker -> claim's stop answer for the buffer it is writing
    tries,      \* worker -> charged attempts of its chunk
    heard,      \* worker -> has any byte arrived since its last charge?
    waking,     \* worker -> victims of its demote call it has yet to cancel
    woken,      \* workers whose context carries errWorkerRetired
    failure,    \* firstErr, by kind
    parent,     \* the caller's context is cancelled
    disk,       \* bytes of this object the staging file holds
    snap,       \* {} or {the snapshot the flusher is about to save}
    side,       \* {} or {the sidecar on disk}
    flushed,    \* lastRemaining of the flusher
    ticks       \* flusher ticks in this run

workerVars == <<pc, last, tries, heard>>
ctxVars == <<waking, woken, failure, parent>>
fileVars == <<disk, side>>
flushVars == <<snap, flushed, ticks>>
runVars == <<phase, result, runs>>
vars == <<schedVars, workerVars, ctxVars, fileVars, flushVars, runVars>>

Labels == {"unborn", "top", "next", "fetch", "read", "sleep", "write", "count",
           "finish", "perm", "spent", "noise", "escaped", "failing", "broken", "gone"}

Phases == {"open", "wiped", "prepare", "run", "failed", "over"}

\* Steps of downloadChunk: between a grant and the chunk's completion.
InChunk == {"fetch", "read", "sleep", "write", "count", "finish"}

RunCancelled == parent \/ failure # "none"
CtxDone(w) == w \in woken \/ RunCancelled

\* Worker w is about to take step l; while it is inside retire it takes none.
At(w, l) == phase = "run" /\ pc[w] = l /\ waking[w] = {}
Goto(w, l) == pc' = [pc EXCEPT ![w] = l]

\* The locals of downloadChunk die with it.
ForgetAttempts(w) ==
    /\ last' = [last EXCEPT ![w] = FALSE]
    /\ tries' = [tries EXCEPT ![w] = 0]
    /\ heard' = [heard EXCEPT ![w] = FALSE]

-----------------------------------------------------------------------------
(* worker.run: the loop head and the grant *)

CheckCtx(w) ==
    /\ At(w, "top")
    /\ IF CtxDone(w) THEN Goto(w, "gone") /\ Deregister(w)
                     ELSE Goto(w, "next") /\ UNCHANGED <<live, retiring>>
    /\ UNCHANGED <<chunks, nextID, limit, shown, last, tries, heard,
                   ctxVars, fileVars, flushVars, runVars>>

CallNext(w) ==
    /\ At(w, "next")
    /\ \/ /\ GrantPending(w) \/ GrantSplit(w)
          /\ Goto(w, "fetch")
       \/ /\ TurnAway(w)
          /\ Goto(w, "gone")
    /\ UNCHANGED <<last, tries, heard, ctxVars, fileVars, flushVars, runVars>>

-----------------------------------------------------------------------------
(* worker.downloadChunk and worker.attempt *)

\* attempt begins by looking at the cursor: a drained chunk is a success.
Fetch(w) ==
    /\ At(w, "fetch")
    /\ \E i \in Active :
         /\ Holds(w, i)
         /\ Goto(w, IF Left(chunks[i]) > 0 THEN "read" ELSE "finish")
    /\ UNCHANGED <<schedVars, last, tries, heard, ctxVars, fileVars, flushVars, runVars>>

\* chunkSink: n bytes arrived; claim first, write what was claimed.  Every
\* arrival counts as progress of the whole run.
Read(w, n) ==
    /\ At(w, "read")
    /\ \E i \in Active :
         /\ Holds(w, i)
         /\ Claim(i, n)
         /\ last' = [last EXCEPT ![w] = Left(chunks[i]) <= Claimable(i, n)]
         /\ Goto(w, IF Claimable(i, n) > 0 THEN "write" ELSE "finish")
    /\ heard' = [v \in Workers |-> heard[v] \/ pc[v] \in InChunk]
    /\ UNCHANGED <<tries, ctxVars, fileVars, flushVars, runVars>>

WriteAt(w) ==
    /\ At(w, "write")
    /\ \E i \in Active : Holds(w, i) /\ disk' = disk \cup InFlight(chunks[i])
    /\ Goto(w, "count")
    /\ UNCHANGED <<schedVars, last, tries, heard, ctxVars, side, flushVars, runVars>>

WriteFails(w) ==
    /\ At(w, "write")
    /\ Goto(w, "perm")
    /\ UNCHANGED <<schedVars, last, tries, heard, ctxVars, fileVars, flushVars, runVars>>

\* The bytes are counted and reported; the response may end here because the
\* server capped the range, and a new one is asked for at no charge.
CountBytes(w) ==
    /\ At(w, "count")
    /\ \E i \in Active : Holds(w, i) /\ Count(i)
    /\ IF last[w] THEN Goto(w, "finish") ELSE Goto(w, "read") \/ Goto(w, "fetch")
    /\ last' = [last EXCEPT ![w] = FALSE]
    /\ UNCHANGED <<tries, heard, ctxVars, fileVars, flushVars, runVars>>

Finish(w) ==
    /\ At(w, "finish")
    /\ \E i \in Active : Holds(w, i) /\ Complete(i)
    /\ Goto(w, "top")
    /\ ForgetAttempts(w)
    /\ UNCHANGED <<ctxVars, fileVars, flushVars, runVars>>

\* A failed attempt that is charged to the chunk's budget.
Charge(w) ==
    /\ At(w, "read")
    /\ ~CtxDone(w)
    /\ heard' = [heard EXCEPT ![w] = FALSE]
    /\ IF tries[w] + 1 >= MaxRetries
         THEN Goto(w, "spent") /\ UNCHANGED tries
         ELSE Goto(w, "sleep") /\ tries' = [tries EXCEPT ![w] = @ + 1]
    /\ UNCHANGED <<schedVars, last, ctxVars, fileVars, flushVars, runVars>>

\* A plausible slip: every 429 is waited out for free.
WaitOutEveryThrottle(w) ==
    /\ At(w, "read")
    /\ ~CtxDone(w)
    /\ Goto(w, "sleep")
    /\ UNCHANGED <<schedVars, last, tries, heard, ctxVars, fileVars, flushVars, runVars>>

\* A 429 while somebody progressed is queued work: it costs no retry.
WaitOutThrottle(w) ==
    /\ At(w, "read")
    /\ ~CtxDone(w)
    /\ heard[w]
    /\ heard' = [heard EXCEPT ![w] = FALSE]
    /\ Goto(w, "sleep")
    /\ UNCHANGED <<schedVars, last, tries, ctxVars, fileVars, flushVars, runVars>>

WakeUp(w) ==
    /\ At(w, "sleep")
    /\ Goto(w, "fetch")
    /\ UNCHANGED <<schedVars, last, tries, heard, ctxVars, fileVars, flushVars, runVars>>

\* Cancellation ends a blocked read, a dial or a sleep.
Abort(w) ==
    /\ At(w, "read") \/ At(w, "sleep")
    /\ CtxDone(w)
    /\ Goto(w, "noise")
    /\ UNCHANGED <<schedVars, last, tries, heard, ctxVars, fileVars, flushVars, runVars>>

\* An integrity, protocol or content-change failure.
Permanent(w) ==
    /\ At(w, "read")
    /\ Goto(w, "perm")
    /\ UNCHANGED <<schedVars, last, tries, heard, ctxVars, fileVars, flushVars, runVars>>

-----------------------------------------------------------------------------
(* worker.run: what becomes of an error that escaped downloadChunk *)

Drained(c) == Left(c) <= 0 /\ c.written = Cursor(c) - c.off

\* The retirement net: complete the chunk if demote drained it.
CatchRetired(w) ==
    \E i \in Active :
        /\ Holds(w, i)
        /\ IF Drained(chunks[i])
             THEN Goto(w, "gone") /\ chunks' = Without(i) /\ shown' = Closed(i)
             ELSE Goto(w, "broken") /\ UNCHANGED <<chunks, shown>>

\* run's first look at its context finds no retirement; the second is a step of
\* its own, and a retirement may be carried out in between.
Escape(w) ==
    /\ At(w, "perm") \/ At(w, "spent") \/ At(w, "noise")
    /\ w \notin woken
    /\ Goto(w, "escaped")
    /\ ForgetAttempts(w)
    /\ UNCHANGED <<schedVars, ctxVars, fileVars, flushVars, runVars>>

\* The first look finds a retirement: a genuine failure is returned, the net
\* takes the rest, and the deferred exit deregisters the worker.
Unwind(w) ==
    /\ At(w, "perm") \/ At(w, "spent") \/ At(w, "noise")
    /\ w \in woken
    /\ IF pc[w] = "perm" THEN Goto(w, "failing") /\ UNCHANGED <<chunks, shown>>
                         ELSE CatchRetired(w)
    /\ Deregister(w)
    /\ ForgetAttempts(w)
    /\ UNCHANGED <<nextID, limit, ctxVars, fileVars, flushVars, runVars>>

\* The second look: with the context cancelled by now, for whatever cause, the
\* error is dropped and the chunk stays where it is.
AbsorbNoise(w) ==
    /\ At(w, "escaped")
    /\ Goto(w, IF CtxDone(w) THEN "gone" ELSE "failing")
    /\ Deregister(w)
    /\ UNCHANGED <<chunks, nextID, limit, shown, last, tries, heard,
                   ctxVars, fileVars, flushVars, runVars>>

\* runWorkers' fail: the first error is kept and cancels the run.
Fail(w) ==
    /\ At(w, "failing") \/ At(w, "broken")
    /\ failure' = IF failure # "none" THEN failure
                  ELSE IF pc[w] = "broken" THEN "internal" ELSE "genuine"
    /\ Goto(w, "gone")
    /\ UNCHANGED <<schedVars, last, tries, heard, waking, woken, parent,
                   fileVars, flushVars, runVars>>

-----------------------------------------------------------------------------
(* The governor's side effects, run by a worker in the middle of a read *)

Spawn(g, w) ==
    /\ At(g, "read")
    /\ pc[w] = "unborn"
    /\ Goto(w, "top")
    /\ UNCHANGED <<schedVars, last, tries, heard, ctxVars, fileVars, flushVars, runVars>>

\* retire: demote under the scheduler lock first ...
Retire(g, keep) ==
    /\ At(g, "read")
    /\ Demote(keep)
    /\ waking' = [waking EXCEPT ![g] = Victims(keep)]
    /\ UNCHANGED <<workerVars, woken, failure, parent, fileVars, flushVars, runVars>>

\* ... then cancel the victims that are still there, one by one.
Wake(g) ==
    /\ phase = "run"
    /\ \E v \in waking[g] :
         /\ \A u \in waking[g] : u <= v
         /\ waking' = [waking EXCEPT ![g] = @ \ {v}]
         /\ woken' = IF pc[v] = "gone" \/ RunCancelled THEN woken ELSE woken \cup {v}
    /\ UNCHANGED <<schedVars, workerVars, failure, parent, fileVars, flushVars, runVars>>

ParentCancel ==
    /\ phase = "run"
    /\ ~parent
    /\ parent' = TRUE
    /\ UNCHANGED <<schedVars, workerVars, waking, woken, failure,
                   fileVars, flushVars, runVars>>

-----------------------------------------------------------------------------
(* The sidecar flusher of runWorkers *)

\* A plausible slip: a range that misses one byte is taken for finished.
UnfinishedByOne(S) == {s \in S : s.done < s.end - s.off - 1}

\* The ranges of a sidecar that multipart hands to addPending.
Unfinished(S) == {s \in S : s.done < s.end - s.off}

\* stateFile.remaining
Remaining(S) == MapThenSumSet(LAMBDA s : s.end - s.off - s.done, S)

FlushTick ==
    /\ phase = "run"
    /\ snap = {}
    /\ ticks < MaxTicks
    /\ ticks' = ticks + 1
    /\ IF Remaining(Snapshot) = flushed
         THEN UNCHANGED <<snap, flushed>>
         ELSE snap' = {Snapshot} /\ flushed' = Remaining(Snapshot)
    /\ UNCHANGED <<schedVars, workerVars, ctxVars, fileVars, runVars>>

\* The save replaces the sidecar, or fails and is only logged.
FlushSave ==
    /\ phase = "run"
    /\ snap # {}
    /\ side' = snap \/ side' = side
    /\ snap' = {}
    /\ UNCHANGED <<schedVars, workerVars, ctxVars, disk, flushed, ticks, runVars>>

-----------------------------------------------------------------------------
(* multipart *)

\* The memory of a fresh process, or of a fresh run in the same one.
Forget ==
    /\ pc' = [w \in Workers |-> "unborn"]
    /\ last' = [w \in Workers |-> FALSE]
    /\ tries' = [w \in Workers |-> 0]
    /\ heard' = [w \in Workers |-> FALSE]
    /\ waking' = [w \in Workers |-> {}]
    /\ woken' = {} /\ failure' = "none" /\ parent' = FALSE
    /\ snap' = {} /\ flushed' = -1 /\ ticks' = 0
    /\ chunks' = <<>> /\ nextID' = 0 /\ live' = {} /\ retiring' = {}
    /\ limit' = 0 /\ shown' = <<>>
    /\ phase' = "open" /\ result' = "none" /\ runs' = runs + 1

\* loadState: no range is empty, overdone or overlaps another.
Loadable(S) ==
    /\ \A s \in S : s.off < s.end /\ s.done <= s.end - s.off
    /\ \A s, t \in S : s = t \/ s.end <= t.off \/ t.end <= s.off

\* A loadable sidecar of the object the server still has (usable) seeds the
\* table with its unfinished ranges, in the order the snapshot listed them,
\* which the set of ranges does not keep.
Resume ==
    /\ phase = "open"
    /\ \E S \in side :
         /\ Loadable(S)
         /\ LET U == Unfinished(S) IN
            \E order \in Bijection(0 .. Cardinality(U) - 1, U) : AddPending(order)
    /\ phase' = "prepare"
    /\ UNCHANGED <<workerVars, ctxVars, fileVars, flushVars, result, runs>>

\* A plausible slip: the sidecar is left for the first flush to replace.
InvalidateLater ==
    /\ phase = "open"
    /\ phase' = "wiped"
    /\ UNCHANGED <<schedVars, workerVars, ctxVars, fileVars, flushVars, result, runs>>

\* No usable sidecar (none, or the remote object changed): it is removed
\* first and the staging file is started over only then.
Invalidate ==
    /\ phase = "open"
    /\ side' = {}
    /\ phase' = "wiped"
    /\ UNCHANGED <<schedVars, workerVars, ctxVars, disk, flushVars, result, runs>>

StartOver ==
    /\ phase = "wiped"
    /\ disk' = {}
    /\ AddPending([i \in {0} |-> [off |-> 0, end |-> Total, done |-> 0]])
    /\ phase' = "prepare"
    /\ UNCHANGED <<workerVars, ctxVars, side, flushVars, result, runs>>

Prepare ==
    /\ phase = "prepare"
    /\ PrepareSplit(MinParts)
    /\ UNCHANGED <<workerVars, ctxVars, fileVars, flushVars, runVars>>

Launch ==
    /\ phase = "prepare"
    /\ ~CanPrepare(MinParts)
    /\ pc' = [w \in Workers |-> IF w < Prepared(MinParts) THEN "top" ELSE "unborn"]
    /\ phase' = "run"
    /\ UNCHANGED <<schedVars, last, tries, heard, ctxVars, fileVars, flushVars,
                   result, runs>>

\* wg.Wait, <-flushDone, and the verdict.
Join ==
    /\ phase = "run"
    /\ \A w \in Workers : pc[w] \in {"unborn", "gone"} /\ waking[w] = {}
    /\ snap = {}
    /\ result' = IF RunCancelled THEN "error" ELSE IF Idle THEN "ok" ELSE "stranded"
    /\ phase' = IF ~RunCancelled /\ Idle THEN "over" ELSE "failed"
    /\ UNCHANGED <<schedVars, workerVars, ctxVars, fileVars, flushVars, runs>>

\* On an error multipart saves a last snapshot, or logs that it could not.
SaveOnError ==
    /\ phase = "failed"
    /\ side' = {Snapshot} \/ side' = side
    /\ phase' = "over"
    /\ UNCHANGED <<schedVars, workerVars, ctxVars, disk, flushVars, result, runs>>

\* The next download of the same file, after an error or a process crash;
\* the files survive, the memory does not.
Rerun ==
    /\ phase = "over"
    /\ result # "ok"
    /\ runs < MaxRuns
    /\ Forget
    /\ UNCHANGED fileVars

Crash ==
    /\ phase \notin {"open", "over"}
    /\ runs < MaxRuns
    /\ Forget
    /\ UNCHANGED fileVars

Stop == phase = "over" /\ (result = "ok" \/ runs >= MaxRuns) /\ UNCHANGED vars

-----------------------------------------------------------------------------
Init ==
    /\ chunks = <<>> /\ nextID = 0 /\ live = {} /\ retiring = {} /\ limit = 0
    /\ shown = <<>>
    /\ pc = [w \in Workers |-> "unborn"]
    /\ last = [w \in Workers |-> FALSE]
    /\ tries = [w \in Workers |-> 0]
    /\ heard = [w \in Workers |-> FALSE]
    /\ waking = [w \in Workers |-> {}]
    /\ woken = {} /\ failure = "none" /\ parent = FALSE
    /\ disk = {} /\ side = {}
    /\ snap = {} /\ flushed = -1 /\ ticks = 0
    /\ phase = "open" /\ result = "none" /\ runs = 1

WorkerStep(w) ==
    \/ CheckCtx(w) \/ CallNext(w) \/ Fetch(w) \/ WriteAt(w) \/ WriteFails(w)
    \/ CountBytes(w) \/ Finish(w) \/ Charge(w) \/ WaitOutThrottle(w) \/ WakeUp(w)
    \/ Abort(w) \/ Permanent(w) \/ Escape(w) \/ Unwind(w) \/ AbsorbNoise(w)
    \/ Fail(w) \/ Wake(w)
    \/ \E n \in 1 .. BufMax : Read(w, n)

MainStep ==
    \/ Resume \/ Invalidate \/ StartOver \/ Prepare \/ Launch \/ Join \/ SaveOnError

Next ==
    \/ \E w \in Workers : WorkerStep(w)
    \/ \E g, w \in Workers : Spawn(g, w)
    \/ \E g \in Workers, keep \in 1 .. Parts - 1 : Retire(g, keep)
    \/ ParentCancel
    \/ FlushTick \/ FlushSave
    \/ MainStep
    \/ Rerun \/ Crash
    \/ Stop

Spec == Init /\ [][Next]_vars

WorkerFairness == \A w \in Workers : WF_vars(WorkerStep(w))

\* The goroutines run; a read ends in bytes or, by the stall timer, in an
\* error; a save returns.  Nothing else is fair: no bytes need ever arrive,
\* and the governor, the caller and the flusher's ticker need never act.
FairSpec == Spec /\ WorkerFairness /\ WF_vars(MainStep) /\ WF_vars(FlushSave)

-----------------------------------------------------------------------------
(* Properties *)

RangeType == [off: Nat, end: Nat, done: Nat]

\* Every variable has its type (but for flushed, a sum).
TypeOK ==
    /\ SchedulerTypeOK
    /\ phase \in Phases
    /\ result \in {"none", "ok", "error", "stranded"}
    /\ runs \in Nat /\ ticks \in Nat
    /\ pc \in [Workers -> Labels]
    /\ last \in [Workers -> BOOLEAN]
    /\ tries \in [Workers -> Nat]
    /\ heard \in [Workers -> BOOLEAN]
    /\ waking \in [Workers -> SUBSET Workers]
    /\ woken \subseteq Workers
    /\ failure \in {"none", "genuine", "internal"}
    /\ parent \in BOOLEAN
    /\ disk \subseteq Bytes
    /\ \A S \in snap \cup side : S \subseteq RangeType

\* Every byte is in the file or in the unwritten part of a range of S.
Covers(S) ==
    \A b \in Bytes : b \in disk \/ \E s \in S : s.off + s.done <= b /\ b < s.end

\* Whenever the process stops, in whatever state its workers and its flusher
\* are, a resume from the sidecar on disk skips only bytes the file holds;
\* the same of the snapshot about to be saved (snapshot, st.save, multipart).
SidecarSound == \A S \in side \cup snap : Covers(S)

\* Apart from empty ranges, loadState accepts every sidecar the run writes.
SidecarTiles == \A S \in side \cup snap : Loadable({s \in S : s.off < s.end})

\* "Interrupted downloads resume automatically": loadState accepts whatever
\* sidecar the run leaves.  It does not: demote shortens a victim's chunk to
\* its claim cursor, which leaves an empty range until the victim completes
\* the chunk, snapshot records the range, and loadState refuses the sidecar.
SidecarLoads == \A S \in side : Loadable(S)

\* A run that reports success has every byte in the file (runWorkers' nil).
SuccessMeansWhole == result = "ok" => disk = Bytes

\* A retired worker's chunk is "not stranded incomplete in active" and run's net
\* will "never strand" it, so that "internal: workers exited with work remaining"
\* is never returned.  It is: when a retirement is carried out between run's two
\* looks at its context, the worker drops its error, a genuine one included, and
\* leaves its chunk behind.
NeverStranded == result # "stranded"

\* But that is all a run can strand: refusals and retirements never leave a range
\* without a worker to take it, and what is left in the table is the chunks of
\* workers that were overtaken so, with nothing in them to claim.
OnlyOvertakenStranded ==
    result = "stranded" =>
        /\ Pending = {}
        /\ \A i \in Active : chunks[i].owner \in woken /\ Left(chunks[i]) = 0

\* "internal: retired worker left chunk incomplete" is never raised: wherever
\* the retirement cancel lands, the chunk has been drained to the bytes
\* written (run's retirement net).
RetirementIsClean == failure # "internal"

\* Once demote set a limit, no more flows than that are granted work.
FlowLimit == limit > 0 => Cardinality(NonRetiring) <= limit

\* No worker holds two chunks, so none is lost when a worker leaves.
OneChunkEach ==
    \A i, j \in Active : chunks[i].owner = chunks[j].owner => i = j

\* The Reporter may trust the order of what it is told.  An announced length
\* only shrinks, never below the progress already reported; ChunkDone comes
\* only when the reported progress adds up to the length; and no chunk is
\* announced twice (the ChunkResizer and Reporter contracts).
ReporterContract ==
    [][\A i \in DOMAIN shown \cup DOMAIN shown' :
          runs' = runs =>
            CASE i \notin DOMAIN shown' -> shown[i].got = shown[i].len
              [] i \notin DOMAIN shown -> i \in Pending \/ i >= nextID
              [] OTHER -> /\ shown[i].got <= shown'[i].got
                          /\ shown'[i].got <= shown'[i].len
                          /\ shown'[i].len <= shown[i].len]_vars

\* Every download ends, whatever the governor and the network do: there are
\* MaxRuns of them, and again and again one is over.
Terminates == []<>(phase = "over")

\* Workers selected for retirement leave, so that their flows are really shed:
\* again and again nobody is left that is retiring.
RetireesLeave == []<>(retiring = {})

-----------------------------------------------------------------------------
(* The pool implements the ledger. *)

Todo == IF phase \in {"open", "wiped"} THEN Bytes
        ELSE UNION {Unclaimed(chunks[i]) : i \in Ids}

Held == [w \in Workers |-> UNION {InFlight(chunks[i]) : i \in {j \in Active : Holds(w, j)}}]

\* To the caller, whom runWorkers hands an error, stranded work is a failure.
Verdict == IF result = "stranded" THEN "error" ELSE result

Abstract == INSTANCE Ledger WITH
    todo <- Todo, held <- Held, landed <- disk, verdict <- Verdict

\* Bytes are handed out once, landed while held, forgotten never.
ImplementsLedger == Abstract!Spec

=============================================================================
