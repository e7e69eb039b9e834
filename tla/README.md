# go-download in TLA+

A verification development for `github.com/blacktop/go-download`: a library
(and the `dl` command) that downloads one URL to one file, in parallel ranges
when the server allows it, resumable, throttle-aware and checksummed.

- **modelled and model-checked**: the range scheduler, the worker pool with
  its retirement, cancellation and sidecar flusher, resume across crashes, the
  adaptive-concurrency governor, the staging file / sidecar / destination over
  many downloads, the two locks that guard them, the placement of connections
  on a host's addresses with the culling of slow ones, the race of two dials,
  and one transfer from its election to its last retry;
- **proved** (TLAPS, for every file size, pool size, buffer size, retry budget
  and number of downloads): type correctness of scheduler and pool, soundness
  of the resume sidecar, "success means the whole file", unreachability of the
  retirement net's internal error, what alone a run can leave stranded, and the
  laws of the abstract byte ledger;
- **found**: two code bugs and a place where the code and its own
  documentation disagree, each shown by a run, and some more that reading for
  the models brought up (section "Findings").

## 1. Inventory

### Components

| component | code | state it keeps | operations |
|---|---|---|---|
| Scheduler | `scheduler.go` | `pending` queue, `active` set, `nextID`, `live`, `retiring`, `limit` | `addPending`, `prepare`, `next` (grant or steal), `claim`, `complete`, `demote`, `exit`, `snapshot` |
| Worker | `worker.go` | its chunk, attempt counters, backoff, stall timer, buffer | `run`, `downloadChunk`, `attempt`, `chunkSink`, `singleStream`, `singleAttempt` |
| Pool and flusher | `download.go` `runWorkers` | one context per worker, first error, last flushed size | spawn, retire, fail, flush tick, join |
| Multipart / resume | `download.go` `multipart`, `state.go` | the sidecar `dest.part.json` | load, validate, seed, invalidate, save |
| Governor | `download.go` `rampState` | floor, admitted, previous admitted, measuring phase, samples | `note`, `noteWorkerReady`, `rejectThrottled` |
| Staging and installation | `download.go`, `staging*.go` | `dest.part`, `dest` | open, truncate, verify, link or rename, `Discard` |
| Path lock | `pathlock.go` | per-process registry of reference-counted token channels | acquire, try, unlock, release |
| Staging lock | `lock_flock.go` | a flock on the staging inode | lock, re-check of the name |
| Placement and culling | `nodes.go`, `cull.go` | per-address connection counts, strikes, evidence, parking; per-worker address, byte counter, rotation flag, cancel | reserve, fall back, attribute, begin an attempt, release, remove, sample, judge, cull, restore, refresh, close |
| Dial race | `dial_preferred.go` | two dials and a timer | start, fall back, choose, cancel |
| Election | `download.go` `elect`, `do` | redirects, the approved headers, the initial response | elect, classify, hand over |
| Reporter | `reporter.go`, `cmd/dl/cmd/reporter.go` | per-chunk lengths and progress | `ChunkStart`, `ChunkResize`, `ChunkProgress`, `ChunkDone` |
| Options, names, errors, measurement, CLI | `name.go`, `errors.go`, `measurement.go`, `backoff.go`, `cmd/` | none that decides anything | pure functions, counters, text |

### How they interact

`Get` elects a response, takes the path lock, opens and flocks the staging
file, and either streams it or runs `multipart`. `multipart` seeds the
scheduler from the sidecar, or removes the sidecar and starts the file over,
and calls `runWorkers`. Workers loop: `next` grants a range or steals half of
the largest one in flight; each buffer read from a response is *claimed* under
the scheduler's lock, written with `WriteAt` outside it, and then *counted*
with an atomic. Each read also feeds the governor, which may, in that worker
and after releasing its own lock, spawn more workers or demote the pool:
`demote` marks the highest ids as retiring under the scheduler's lock and
moves their remainders back to `pending`, and the victims' contexts are
cancelled afterwards, one by one. Behind a host with several addresses each
worker has a transport of its own, pinned to an address it has reserved; every
new connection is a race between that address and a fallback, and a sampler
compares the addresses' rates and cancels the attempts on a slow one. Every
second the flusher snapshots the scheduler and saves the sidecar. When all workers have returned the file is
verified and linked or renamed to the destination, and the sidecar is removed.

### What is hard here

- **Claim, write and count are three steps.** A steal, a demotion, a snapshot
  or a crash can fall between any two of them.
- **Retirement is two steps.** A victim can finish, fail, sleep or be granted
  work between `demote` and its cancellation; what it returns must be told
  apart from a genuine failure (the retirement net of `worker.run`), which a
  returning worker does by looking at its context twice.
- **Decisions act late.** The governor's spawns and demotions run after its
  lock is released and may take effect in another order than they were made.
- **Files are names.** Staging file, destination and sidecar are created,
  linked, renamed, truncated and removed one system call at a time; the
  process may die in between, and locks are on inodes.
- **The remote object changes** between election, retries and resumes.
- **Addresses are shared guesses.** Which address a worker is on is changed by
  its reservation, by the dial that wins, by the connection net/http picks, by
  failures, stalls and culls, and by dials that outlive the attempt that
  started them; a cull must find the worker wherever it is between those.
- **Retries are free in four ways** and charged otherwise; together they must
  still end.

`PROJECT.json` lists every such hazard at its line, with the properties that
would catch it going wrong, or the reason why none does yet.

### What makes each component correct

- Scheduler and pool: every byte is handed to one worker at a time; nothing is
  lost by splits, retirements or refusals; no pending range is left without a
  worker; success implies the whole file; no error is invented by retirement,
  and none is lost to it (the last two fail in one interleaving, finding 1).
- Sidecar: whenever the process stops, it vouches only for bytes in the file.
- Governor: no worker is started twice, a batch is judged only on its own
  merits, flows stay within what was admitted, a hostile host sheds flows.
- Staging: the destination is one whole version of the object, an existing
  destination is not replaced without `Overwrite`, a usable sidecar is honest.
- Locks: one writer across processes, one holder per process, nothing leaked.
- Placement: the connection counts that balance the load are those of the
  workers; a cull reaches every worker on the address and never leaves the
  pool without an unstruck one; bytes are credited to the address they come
  from; nothing registers with a closed placement or moves in it.
- Dial race: one dial per address, no connection left open, no dial waiting.
- Transfer: a byte that counts as done is in its place and of one version; a
  single stream that succeeds is one whole version; free rotations are
  bounded; a transfer ends.
- Reporter: lengths only shrink, never below the progress; done comes when the
  progress adds up; no chunk is announced twice.

## 2. Modules

| module | models | composed with |
|---|---|---|
| `Scheduler` | one operator per critical section of `scheduler.go` | extended by `WorkerPool` |
| `WorkerPool` | workers, pool, flusher, multipart, crash and rerun | extends `Scheduler`, implements `Ledger` |
| `Ledger` | abstract specification: who holds which bytes, what landed | refined by `WorkerPool` |
| `PoolInvariant` | the inductive invariants `IInv` and `CInv` | extends `WorkerPool` |
| `Ramp` | the governor with its delayed side effects | an abstract pool of its own |
| `Staging` | staging file, sidecar, destination over many downloads | byte ranges abstracted to sets |
| `Ownership` | path lock and flock, callers in several processes | the file's content abstracted away |
| `DialOutcome` | what a dial race may report, and what the placement parks for it | used by the next three |
| `DialRace` | the race: loop, timer, one goroutine per dial | shows that it reports a `DialOutcome` and nothing else |
| `Placement` | `nodePlacement` under its lock, the workers' attempts, the culler | takes a dial as its `DialOutcome`; a worker's chunk abstracted away |
| `Transfer` | election, one chunk or one stream, the retry ladder, the server | takes a dial as its `DialOutcome`; siblings, culls and addresses from outside |
| `PoolProofs`, `PoolContractProofs` | theorems about the pool, its scheduler and the ledger | the second extends the first |
| `RampProofs`, `StagingProofs`, `OwnershipProofs`, `PlacementProofs`, `DialRaceProofs`, `TransferProofs` | theorems about one module each | |
| `MC*` | instances for TLC | |

Definitions whose comment begins "A plausible slip" (`AdmitUnclamped`,
`CheckNothing`, ...) are mutations of the definition that follows them; no
specification uses them. Each property of each passing run is shown to fail
when one of them takes the place of its original (`mutants` in
`PROJECT.json`), so that no property holds for want of a way to break it.

### Scheduler and WorkerPool

`chunks` is the table of ranges: a record with `off`, `end`, `done` (claimed),
`written` (counted) and `owner`, which is `NoOne` for a pending range.
`s.pending` is appended to with fresh ids and popped at its head, so the queue
is the pending ids in order. `Left`, `Cursor`, `InFlight` and `Missing` are
the intervals of bytes that the code's arithmetic stands for.

`pc[w]` is where worker `w` is in `worker.run` / `downloadChunk` /
`chunkSink`:

    top -> next -> fetch -> read -> write -> count -> (read | fetch | finish) -> top

with `sleep` between a charged or excused attempt and the next, `perm`,
`spent` and `noise` for the three ways out of `downloadChunk`, `failing` for an
error on its way to `runWorkers`' `fail`, and `gone`. `worker.run` then looks at
its context twice, and another goroutine may act in between: `Unwind` is its
return when the first look (`context.Cause`) finds a retirement, `Escape` when
it does not, and `AbsorbNoise` the second look (`ctx.Err`) of a worker that is
`escaped`. `broken` is the internal error of the retirement net; it is proved
unreachable. One action is what a
goroutine does between two points where another can act. `Retire` and `Wake`
are the two halves of `retire`: a worker inside it (`waking[g] # {}`) takes no
other step, as in the code. The governor's *choice* is left open: any worker
reading a body may spawn or demote at any time, so that what is proved of the
pool holds for every governor. `Crash` and `Rerun` clear the memory and keep
the files.

A read delivers 1 to `BufMax` bytes; a response may end early (a capped range)
and be asked for again at no charge; it may fail in a way that is charged to
the retry budget, in a way that is a free wait (429 while anybody progressed),
or permanently. `flushed` keeps the flusher's test on the number of missing
bytes. `side` and `snap` hold at most one sidecar, a set of ranges; the
temporary file and rename of `save` are one step that happens or does not.

Left out here: slow-node migration and address rotation (they decide where a
request goes and whether a failure is charged; `Placement` and `Transfer` have
them), the stall-timeout ladder and backoff delays (a read simply may end in
an error), `Connected`, `ChunkRetry` and measurement events.

### Ledger

`todo`, `held`, `landed`, `verdict`: bytes nobody was handed, bytes in each
worker's hands, bytes in the file, the result. `WorkerPool!Todo` and `Held`
are the refinement mapping: what no range has claimed, and the claimed and
uncounted bytes of a worker's chunk; `Verdict` counts a run that ends with work
remaining as the error it returns. `ImplementsLedger` is the refinement.

### Ramp

`noteLocked`'s switch is one action per branch (`BurnIn`, `Settle`, `Probe`,
`Measure`), `Throttled` is `rejectThrottled`, `WorkerReady` is
`noteWorkerReady`; each sets `call[w]`, the side effect that worker `w` has
decided on, and `Spawn` and `Demote` carry it out later. Rates are abstracted
to the three outcomes of `decideLocked` (roll back, freeze, admit), windows to
their completion, `settleMin` to a flag. The pool is the life of each worker
and the scheduler's limit, including late registration.

### Staging

The three names map to inodes, an inode to a sequence of bytes, a byte to the
version of the remote object it came from (or a hole, or foreign content).
`Begin` is everything from the election to the open of the staging file; then
`multi` or `stream`; `Verify`; `Rename` or `Link` and `Unlink`; `Cleanup`.
`Quit`, an error return or the death of the process, is possible between any
two system calls. `fsync` does nothing here: a crash is the death of the
process, not of the machine. `Policies` says which values of `Overwrite` the
downloads of one destination use: the option belongs to a `Downloader`, so
that mixing takes two downloaders or two processes, and is left to the
observations below. The stream of unknown length and the empty resource are in
`Transfer`. Downloads come one after the other here; that this is so is the
subject of `Ownership`.

### Ownership

`pc[a]` walks a caller through `tryAcquireDestination`,
`acquireDestination`, the check of the destination, `openStaging`,
`lockStaging`, installation or removal, and the deferred calls in their order
(close the file, then give the path lock back). The registry is `locks`
(process to entry), `refs`, `token`; an entry whose last reference goes is
reused under its number, which stands for garbage collection. Callers call for
ever, so there is no bound on how often the entry and the inodes come and go.
The context only matters where it is read; a cancellation after that ends the
download, which `Fail` covers.

### DialOutcome and DialRace

`race` holds the locals of `dialPreferred` and its dials in the order started.
A dial that has a result keeps it until the loop receives it or the race is
cancelled, as on the unbuffered channel. `Receive`, `FallbackDue` and
`RaceCancelled` are the three cases of the select; `GiveUp` is net/http
cancelling the request. `DialOutcomes` and `Abandoned` say what the other
modules may assume of a race, and `RaceSound` that they may.

### Placement

`p` is the struct behind `nodePlacement.mu`: per address the fields of
`nodeAddress`, per worker those of `placedWorker`. The methods are functions
of `p` (`Assigned`, `Won`, `GotConn`, `Attached`, ...), so that an action that
takes the lock twice in a row without anything to be seen in between is one
step, and one that can be overtaken is two. `at[w].pc` is the worker's place
in `attempt`:

    top -> checked -> bound -> dial -> read | away -> top
                   -> attached -> first -> top

`InAttempt` is where its cancel is registered. `slow` are the attempts
cancelled with `errSlowNode` that have not returned; `culler.todo` the cancels
collected under the lock and not yet called. A dial whose attempt was given up
goes on in `stray` and reports later, to a worker that has moved, left, or been
replaced in the registry, or to a closed placement; the history field `late`
marks a registration that such a report has touched. `Close` marks the placement
closed; the culler goes on until `close` has stopped it, which may be after
another judgment, so that its actions do not ask whether the placement is
closed, and nobody relies on when it ends. Half a minute
may pass at any moment in a scenario with `clock`, which ends an address's
parking or the cooldown between culls, and rates are any rates: `Judge` chooses the best of the addresses that
delivered bytes and, for each other one, whether it was healthy, slow, or slow
with only tails left. Stability of a window is asked of the last sampling
interval, where the code asks it of two; that only lets the model judge more.

Not in the model: whether a host gets a placement at all and the order of
addresses by family (`orderNodeAddresses`), idle-connection bookkeeping of
`closeIdleConnections`, and which worker drains a tail.

### Transfer

Bytes are pairs of a version and an index, so that a byte of another version,
or of the wrong place, can be told apart from the right one. `Elected` is
`get`'s switch on the response with the fallback for a capped range that
nothing binds. A multipart worker has one chunk, from byte zero or after what
a sidecar vouches for, to any end; `Answer` lets the server declare any range
and total and send it, ignore the range, throttle, fail or refuse;
`ReadByte`, `BodyEnds` and the cancellations end the attempt in one of the
`Kinds`, and the actions of `downloadChunk` say what that costs. The single
stream restarts from byte zero. `Shrink`, `Sibling`, `Cull` and `Change` are
the others: siblings take the tail and make progress, the culler cancels, the
object is replaced. Cancellation by the caller and retirement are
`WorkerPool`'s subject and left out here.

## 3. Runs

| run | instance | what it shows |
|---|---|---|
| `safety` | 3 workers (1 eager), 3 bytes | types; no stranded range but an overtaken worker's; the retirement net never breaks; the flow limit; one chunk per worker; the Reporter contract |
| `live` | 2 workers, 3 bytes, buffers of 2, 1 flusher tick at any moment | the sidecar is sound, its ranges disjoint; under fairness every download ends and every retiring worker leaves |
| `resume` | 2 workers, 3 bytes, 2 downloads | `PoolInv` (both inductive invariants of the proofs), success means whole, the ledger is implemented |
| `loads` | 2 workers, 3 bytes | finding: an unloadable sidecar |
| `strand` | 2 workers, 3 bytes | finding: a worker overtaken by its retirement strands its chunk and loses its error |
| `ramp` | 4 workers, any floor | no id twice; batches judged after contributing; flows within admitted; demotions shed, step by step; a hostile host is left with one flow |
| `own` | 2 callers in a process, 1 in another | one writer, one holder per process, siblings wait, no leaked entry, no lost token |
| `install` | 2 bytes, 2 versions, 3 inodes, one policy | destination whole, sidecar honest, no clobbering |
| `placement` | 2 workers, 2 addresses; four scenarios, two with the failures of workers and dials, two with the culler | types; counts match; never all struck; a cull reaches its workers; honest attribution; closed is final |
| `restore` | the same, the culler with its verdicts remembered | finding: the best probe is not restored |
| `race` | 3 addresses | one dial per address and a sound outcome; every dial and the race end |
| `transfer` | 2 addresses, versions of 2, 3 and 0 bytes, 2 attempts, 1 cull, 1 replacement | bytes in place and of one version; a stream is whole; rotations bounded; every transfer ends |

**Bounds.** With `MinSize = 1` a range of two bytes can be split, which is the
`2*minSize` boundary and leaves one-byte and empty remainders; three bytes give
splits of splits; `BufMax = 2` makes a buffer cross a stolen boundary.
Three workers are the least for a demotion with a victim, a survivor and a
third party that registers late. `MaxRetries = 1` in the safety runs makes
every charged attempt the last; `transfer` uses 2, so that the budget, its
reset by progress and the free retries around it matter.
One flusher tick at any moment suffices for soundness of what is on disk, since
every reachable state is a moment for it; that a second tick is skipped when
nothing went missing in between is covered by the proof, for any number. Two
downloads are what a resume needs; the proof covers any number. `Ramp` with
four workers is the least in which a batch (2, 4) is larger than one and the
floor can be below, at and above half of it. `Staging` with two bytes
distinguishes short from whole and mixed from pure; two versions and three
inodes are destination, staging file and one in between. In `own` the jobs of
the callers are fixed sets in which each job meets each other one (`Work`).

`Placement` with two workers and two addresses has a worker to cull, one to
compare it with, somewhere to move to, a probe beside a healthy flow, and an
address that is banned, parked, unlisted or struck while the other is not. Its
rarer events are parameters of the initial state (`Scenarios`), and each set of
them is a run of its own: failing dials, stalls and a late dial meet the
election's connection and redirects in one, re-resolutions in the next; the
culler meets attempts in every phase, with the election's connection and
re-resolutions within one cooldown, and over many cooldowns. That all of them
may meet at once is covered by the proofs, for any set of scenarios. One abandoned dial at a time is enough for each of its
orders with the worker's later moves. What a third address would add, a choice
among several fallbacks, `Best` decides as a function of the counts.
`Transfer` with lengths 2, 3 and 0 has a longer, a shorter and an empty
successor, capped ranges of a chunk and a tail that is stolen; two addresses
give two free rotations, a refresh and a charged failure.

**Deadlock** is checked in the runs of the pool, the governor, the locks and
the staging area; those specifications have a `Stop` step only where the
system really is done. A closed placement, a race that has reported and a
transfer that has returned take no further step, so that the four runs of
those modules do not check it; `DialsEnd` and `Ends` say that the last two
stop nowhere else.

**Fairness.** `FairSpec` of `WorkerPool`: every goroutine that can step does
(the Go scheduler), a blocked read ends in bytes or an error (the stall timer
cancels it), file operations return. Nothing obliges bytes to arrive, the
flusher to tick, the governor to act or the caller to cancel. `HostileSpec` of
`Ramp`: side effects that were decided are carried out, spawned workers
register, and a server that throttles every flow does so for ever; the latter
is the premise of the property, not an assumption about servers. `FairSpec` of
`DialRace`: goroutines run, the timer fires, and a dial returns because its
dialer or its context has a deadline; nothing obliges the caller to wait.
`FairSpec` of `Transfer`: the worker runs and a request is answered, fails or
stalls, since the stall timer cancels it. Nothing obliges the server to answer
well, and nothing about siblings, culls or replacements is fair; culls and
siblings' progress are bounded (`MaxCulls`, `MaxProgress`), since both take
bytes of the run: a cull needs a window of its own in which another address
delivered eight megabytes, and a run has finitely many.
`Placement`, `Staging` and `Ownership` are checked for safety only.

## 4. Findings

1. **`strand` (code bug, `worker.go:196`).** A worker that leaves
   `downloadChunk` with an error looks at its context twice: `context.Cause` at
   line 173, whether it was retired, and `ctx.Err` at 196, whether it was
   cancelled at all. When `retire` drains its chunk and cancels it in between,
   the first look misses the retirement and the second takes the error for
   noise. `run` returns nil: a genuine write or protocol error never reaches
   `fail`, against the comment at 174, and the drained chunk is never completed.
   The siblings finish the rest, and `runWorkers` returns "internal: workers
   exited with work remaining". `OnlyOvertakenStranded` shows, and the proofs for
   every instance, that this is the only way a run can end so. If the chunk was
   drained to nothing, the sidecar saved then is that of finding 2.
2. **`loads` (code bug, `scheduler.go:313`).** `demote` cuts a victim's chunk
   to its claim cursor. A victim that has claimed nothing keeps an empty range
   in `active` until it unwinds; a snapshot in between writes it to the
   sidecar, and `loadState` refuses the whole sidecar because of it. If the
   process dies then, all progress is lost. `SidecarTiles` shows that nothing
   else is wrong with such a sidecar.
3. **`restore` (`cull.go:201`).** The comment of `judgeLocked` says that a
   probing address that samples healthy twice is restored. The best address of
   a window is not judged. A culled address whose probe is then the fastest
   keeps its strike for as long as it is: nobody else may reserve it, and as
   `cullLocked` refuses a struck alternative, nothing slower is culled.

Observations that no run checks, made while translating the code:

- `download.go:1538`: the comment says that a 429 from an id at or past
  `admitted` is stale because survivors hold the lowest ids. A worker spawned
  before a demotion and registered after it can be refused while a higher id
  survives; that survivor's 429s are ignored.
- `download.go:1543`: a throughput rollback leaves `rs.admitted` as it was, so
  the first 429 at the floor "rolls back" to the floor once more instead of
  demoting to one flow, as the comment at 1526 says.
- `download.go:1100`: between `Link` and the removal of the staging name,
  destination and staging file are one inode. A process that dies there, or a
  failed removal, of which the code warns in its log, lets a later
  *overwriting* download truncate the installed file in place.
- `download.go:811`: Discard's documentation says that it refuses while
  another process holds the staging lock; if it found no staging file it
  removes the sidecar without asking.
- `nodes.go:297`: "one passive probe, not a batch" holds for reservations; a
  dial's fallback is chosen without reserving it, so that several dials may
  fall back to one probed address.
- `cull.go:224`: the windows of `belowSample` need not be consecutive: it is
  not reset by a window in which the address is the best.
- `cull.go:266`: healthy windows of a connection still open restore a banned
  address as well.
- `nodes.go:399`: a dial that reports after `removeWorker` registers its
  worker again, and its connection stays counted until the placement closes
  (`ConnsMatch` names the exception).
- `nodes.go:351`: if a re-resolution no longer lists the unstruck address, or
  it is parked, a reservation may find none although `NeverAllStruck` holds.

`HostileHostSheds` holds in spite of the first two observations only because it
excepts the survivors of the first; the exception is in its statement.

## 5. Proofs

The assumptions are those of the modules:

- the pool: `Total`, `MinSize`, `Parts`, `BufMax`, `MaxRetries` and `MaxRuns` are
  positive naturals, `MinParts` lies in `1 .. Parts`, `MaxTicks` is a natural;
- `Ramp`: there is at least one part, and the floors lie in `1 .. Parts`;
- `Staging`: the length and the number of versions are positive, and `NoFile` is
  not an inode;
- `Ownership`: the callers are finitely many, each has one process and a set of
  jobs;
- `Placement`: the workers are finitely many, addresses are numbers of which the
  election's is the least, and `None` is not one of them;
- `DialRace`: `None` is not an address;
- `Transfer`: the addresses are finitely many and `None` is not one, the remote
  object has at least one version, the versions' lengths are naturals, at least
  one attempt is allowed, and the other bounds are naturals.

Nothing else is assumed but the hypothesis of `DestinationIsWhole`, explained
below. In particular the bounds of the runs are arbitrary in the proofs, and so
are the scenarios: those of `PlacementProofs` hold with every event possible at
once.

- `PoolProofs`: what each operation of the scheduler does to the chunk table, as
  lemmas (a split chunk ends where the new one begins, demote's remainders have
  fresh ids and begin at the old cursors, ...); `IInv` is inductive, and what
  follows from it: `SidecarAlwaysSound`, `SuccessIsWhole`, `RetirementNetHolds`,
  `NeverTwoChunks`, `PoolTypes`.
- `PoolContractProofs`: `CInv` is preserved under `IInv` (`ContractsHold`), and
  with it `FlowsAreLimited`, `SidecarsTile`, `OnlyOvertakenWorkIsLeft`; the action
  property `ReporterIsToldInOrder`; and the refinement `PoolImplementsLedger`.
- In `PoolContractProofs` too, what the ledger says of the pool by the
  refinement: `PoolLosesNothing` and `PoolHandsOnce`.
- `RampProofs`: the governor's bookkeeping and the pool it steers stay in step
  (`RampInvariant`): `RampTypes`, `IdsAreFresh`, `BatchIsJudgedByItsOwn`,
  `FlowsStayWithin`, and the action property `DemotionIsMeasured`.
- `StagingProofs`: the files are safe over any number of downloads and deaths of
  the process (`StagingInvariant`): `SidecarsAreHonest`, `DestinationIsWhole`,
  and the action property `NothingIsClobbered`.
- `OwnershipProofs`: the path lock and the flock (`OwnershipInvariant`):
  `StagingHasOneWriter`, `DestinationHasOneHolder`, `SiblingsNeverCollide`,
  `RegistryDoesNotLeak`, `TokenIsNeverLost`.
- `PlacementProofs`: what each method of `nodePlacement` keeps (`Touches`,
  `Keeps`), the inductive invariant `Inv`, and the six properties of the
  `placement` run: `PlacementTypes`, `LoadIsReal`, `SomeUnstruck`,
  `CullReaches`, `CreditIsHonest`, `ClosedStays`.
- `DialRaceProofs`: the race's loop counts the dials handed over
  (`RaceInvariant`), and `RaceIsSound`.
- `TransferProofs`: the inductive invariant `Inv` and the four safety properties
  of the `transfer` run: `TransferTypes`, `BytesArePlacedRight`,
  `StreamIsWhole`, `RotationsAreBounded`.

**Why `IInv`.** None of the properties is inductive. That a snapshot taken at
any moment is sound needs `Covered`: a byte that is not in the file is in the
*unwritten* part of some range, at every step of that range's owner. That
needs `CountedIsLanded` (bytes about to be counted have been written),
`UnsettledIsHeld` (claimed bytes are uncounted only while their owner is
writing them, so that a completed chunk takes none with it) and
`FinishedIsFull` (a chunk is completed only when claimed to its end). A resume
preserves coverage because the unfinished ranges of a sound sidecar cover what
is missing; a fresh start because the old sidecar is gone *before* the file is
started over (`QuietStart`: in phase `wiped` there is no sidecar). The
retirement net holds because of `RetiringIsDrained` (a marked worker's chunk
has nothing left and never again gets anything) and `WokenIsRetiring` (nobody
is cancelled for retirement before being marked), with `UnsettledIsHeld` for
"written equals done"; a written buffer of a cancelled worker is always
counted, for nothing between `WriteAt` and the counter looks at the context.

**Why `CInv`.** `OnlyOvertakenStranded` is about the verdict; what makes it true
is `Manned`: while a range is pending in a run that goes on, some worker that is
not retiring has yet to leave. Unless the run is cancelled, a worker that is not
retiring leaves only from `next`, when nothing is pending or the limit refuses
it, and `MustLeave` refuses only when as many
others are counted as the limit allows (`FlowLimit`, with `LiveIsUp`: the
counted are still there). `demote` gives a remainder away only with a survivor
in place. A chunk whose worker has left (`LeftBehind`) is one whose worker was
`escaped` when its retirement came, and `RetiringIsDrained` says that it is
empty. `NeverStranded`, without the exception, is false (finding 1).
`SidecarTiles` is a property of saved sets of ranges and needs
`ChunksApart` of the table, which a split and a surrender keep because both cut
at a cursor. `ReporterContract` compares what was told before and after a step;
`ShownMatches` says that what was told last is how things stand, so that each
event's order follows from the order of the claim, the count and the shrinking.

**The refinement.** Under `todo <- Todo`, `held <- Held`, `landed <- disk`, a
read's claim is the ledger's `Take`, the write `Land`, the count `LetGo`, the
join `Succeed` or `GiveUp` (the latter also when it finds work stranded), a
rerun or a crash `Restart`, a resume `Recall`, a
fresh start `StartOver`; every other step leaves the three alone. `LedgerStep`
proves it from `IInv` and `CInv`, action by action: what is left to show is that
splitting, surrendering and re-granting a range moves no byte between `todo`
and `held`, since both are defined by claim cursors, which nobody but the owner
moves.

**Why `Inv` of `Ramp`.** The counter `admitted` and the pool's flows are changed
under different locks. In between the difference is what decided side effects
will do. `NextBatchUnused`: while the ramp goes on no id at or past `admitted`
was ever started, nor is about to be. `Excess`: flows past `admitted` are kept
out because there are no such ids, by the limit (`LimitHolds`), or by a demotion
that is still to run; a worker never has a spawn and a demotion to carry out at
once (`OneEffect`).
`JudgedAfterContribution` needs `ReadyHasContributed` and `BatchBetween`.

**Why `Inv` of `Ownership`.** The two locks are proved apart. Of the registry
(`PathInv`): an entry's reference count is the number of callers that hold the
entry (`Counted`), an entry in the map is one somebody refers to (`Referenced`,
`Registered`, `Used`), and each entry's token is in the channel or with exactly
one caller (`OneToken`). Of the file (`FileInv`): a caller past its second look
at the name has the inode open that it locked (`OpenInTime`, `LockInTime`),
locks of one inode exclude each other (`Exclusive`), and the owner's inode is
the one with the name (`OwnsName`), since only an owner renames or removes it.
`SiblingsWait` needs both: a caller has its file open only while it holds the
path, so that a lock in its way belongs to another process.

**Why `Inv` of `Staging`.** `SidecarHonest` speaks of files at rest; it survives a
run because of what is known in each phase. While ranges are fetched
(`Fetching`) a sidecar is this run's own, names no byte that is still to be
fetched, and with a validator all others are of its version; while the file is
cleared or streamed there is no sidecar (`SidecarGone`, `OneSidecar`). What goes to be
verified is of one version or has a checksum to answer to (`Fetched`), so what
goes to be installed is one version, whole (`Installable`). All this holds for
any mixture of callers. So does `NoClobber`: a caller that does not overwrite
found no destination when it began, so the file it writes is not the
destination's (`StagedApart`), whatever name the user gives to another file
meanwhile. `DestIsWhole` needs more (`DestApart`): after an interrupted
installation destination and staging file are one inode, and the next writer
must not be a caller that may overwrite. The theorem therefore has the
hypothesis that callers of a destination agree on `Overwrite`
(`BOOLEAN \notin Policies`), as those of one `Downloader` do; the observation at
`download.go:1100` says what happens otherwise.

**Why `Inv` of `DialRace`.** The loop ends when its counter equals the number of
dials started. That this means that every address has failed needs
`FailuresCounted` (what was handed over are failures, counted once each) and
`FallbackFollows` (the loop does not outlive the primary's failure without a
fallback): with them the last failure's `failed` is all that was dialled.

**Why `Inv` of `Placement`.** A method changes the registration of one worker and two
connection counts, which `OnMoves` relates to the sets of workers on the two
addresses; so every composition of methods keeps the counts (`Counted`), and
a step of a worker has to answer only for that worker (`Settled`, `WorkerStep`).
`CulledMoves` is not inductive: a worker hit while its attempt is cancelled
needs its `rotate` flag when that attempt ends by itself, except around the
election's response, which clears the flag and releases the address at its end.
That a worker leaves an attempt only with its cancel out of the culler's list
needs that nobody outside an attempt is on it. `AttributionHonest` needs that
the worker is still on the election's address between `attachInitial` and the
reading of the response. `ClosedIsFinal` needs `Quiet`: a placement closes when
nobody is in an attempt, so that only late dials and the culler are left, and
what either still does leaves the books as they are (`BooksKept`).

**Why `Inv` of `Transfer`.** `PlacedRight` speaks of bytes that are done, and a
chunk's are done one by one while a body is read: `BodyRight` says that the
body being read continues at the cursor and, with a validator, is of the run's
version. The election's response may be that body, long after the object has
changed, so `InitialKnown` keeps what `get` has checked of it; a resumed chunk
begins after a byte that only the sidecar vouches for (`SidecarVouches`). For
`WholeStream`, `BodyRight` also has what an unfinished stream has staged
(`StagedUpTo`): the first bytes of the body's own version and nothing of an
earlier attempt, whose length no longer matters. `RotationsBounded` follows from
`FreeCounted`: each free rotation has used up an address or the refresh.
`TypeOK` bounds the charges and needs `TriesLeft` for it, since only those who
may still try are charged. That versions of any lengths have a longest, so that
`Longest` is a number, is a lemma of its own.

**Only model-checked**: liveness (`Terminates`, `RetireesLeave`,
`HostileHostSheds`, `DialsEnd`, `Ends`).

**Out of the provers' reach**: liveness under fairness, `ENABLED`, induction
over data (so sums such as the flusher's `Remaining` appear in no theorem;
`flushed` is the one variable `TypeOK` leaves out), RECURSIVE operators.

## 6. Not modelled, and why

- Whether a host gets a placement at all (`newNodePlacement`'s conditions on
  proxies, transports and resolution) and the order of addresses by family: a
  decision made once, before any of the modelled state exists.
- Redirects, header approval and content-type rejection during the election:
  a sequential decision over header values.
- Options, destination names, checksum and `Content-Range` parsing: pure
  functions of strings, which `Transfer` takes as any outcome.
- Backoff delays, the timeout ladder: time; a wait or a read may end any time.
- Measurement, errors, redaction, command line: no decision reads them.
- The terminal reporter: it consumes the contract that `ReporterContract`
  checks, and draws.
- Durability across a power failure.

## 7. Plan

Done: `Scheduler`, `WorkerPool`, `Ledger`, `Ramp`, `Staging`, `Ownership`,
`DialRace`, `Placement`, `Transfer`; proofs of every safety and action property
of the passing runs, and of the refinement of the ledger.

Next:

1. The observation about Discard (`download.go:811`) in a module of two
   processes, where the sidecar of one is removed by the other.
2. `Pool = WorkerPool + Ramp`: the governor's decisions drive the pool's
   `Spawn` and `Retire`.
3. `mpbReporter`'s accounting as a consumer of `ReporterContract`.
