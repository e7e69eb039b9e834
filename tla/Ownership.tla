------------------------------ MODULE Ownership ------------------------------
(***************************************************************************)
(* Who may touch the staging file of one destination.  Within a process    *)
(* the path lock (pathlock.go) makes downloads and Discard wait for each   *)
(* other; across processes the flock on the staging file (lock_flock.go)   *)
(* makes them refuse.  The lock is on an inode while the file is a name    *)
(* that is created, renamed and removed under it, and any process may      *)
(* pause, be cancelled or die between two system calls.                    *)
(*                                                                         *)
(* Platforms without flock, where only the path lock remains, are not      *)
(* modelled; nor are destinations whose aliases have different lock keys.  *)
(***************************************************************************)
EXTENDS Integers, FiniteSets, FiniteSetsExt

CONSTANTS
    Calls,      \* callers of Get and Discard, each making one call at a time
    Procs,      \* processes
    home,       \* caller -> its process
    work        \* caller -> the jobs it is used for

ASSUME OwnershipAssumption ==
    /\ IsFiniteSet(Calls)
    /\ home \in [Calls -> Procs]
    /\ work \in [Calls -> SUBSET {"get", "overwrite", "discard"}]

VARIABLES
    pc,         \* caller -> its next step
    job,        \* caller -> what it was called for
    ctx,        \* callers whose context is done
    mine,       \* caller -> the registry entry it references, or None
    locks,      \* process -> its registry's entry for the destination, or None
    refs,       \* entry -> its reference count
    token,      \* entries whose token is in the channel
    fd,         \* caller -> the inode it has open, or None
    locked,     \* callers that hold a flock on it
    part, dest  \* the inode each name has, or None

lockVars == <<mine, locks, refs, token>>
fileVars == <<fd, locked, part, dest>>
vars == <<pc, job, ctx, lockVars, fileVars>>

None == 0
Jobs == {"get", "overwrite", "discard"}

Labels == {"idle", "try", "lost", "again", "wait", "got", "stat", "open", "opened",
           "flock", "check", "own", "unlink", "rmside", "close", "unlock", "drop"}

\* Between the token's arrival and its return.
Holding == {"got", "stat", "open", "opened", "flock", "check", "own", "unlink",
            "rmside", "close", "unlock"}

Goto(a, l) == pc' = [pc EXCEPT ![a] = l]

\* Fresh objects: an entry nobody references, an inode nobody names or has open.
Entries == 1 .. Cardinality(Calls)
Inodes == 1 .. Cardinality(Calls) + 3
FreshEntry == Min({e \in Entries : refs[e] = 0 /\ \A p \in Procs : locks[p] # e})
FreshInode == Min(Inodes \ ({part, dest} \cup {fd[a] : a \in Calls}))

-----------------------------------------------------------------------------
(* The path lock: refDestination, tryAcquireDestination, acquireDestination *)

\* refDestination: the process's entry, made with its token if there is none.
Reference(a) ==
    LET p == home[a]
        e == IF locks[p] = None THEN FreshEntry ELSE locks[p]
    IN  /\ locks' = [locks EXCEPT ![p] = e]
        /\ refs' = [refs EXCEPT ![e] = @ + 1]
        /\ token' = IF locks[p] = None THEN token \cup {e} ELSE token
        /\ mine' = [mine EXCEPT ![a] = e]

\* Get tries the lock first; Discard waits for it.
Begin(a) ==
    /\ pc[a] = "idle"
    /\ \E j \in work[a] :
         /\ job' = [job EXCEPT ![a] = j]
         /\ Goto(a, IF j = "discard" THEN "wait" ELSE "try")
    /\ Reference(a)
    /\ UNCHANGED <<ctx, fileVars>>

Take(a) == mine[a] \in token /\ token' = token \ {mine[a]} /\ Goto(a, "got")

\* A plausible slip: contention is noticed, and ignored.
TryAndProceed(a) ==
    /\ pc[a] = "try"
    /\ \/ Take(a)
       \/ mine[a] \notin token /\ Goto(a, "stat") /\ UNCHANGED token
    /\ UNCHANGED <<job, ctx, mine, locks, refs, fileVars>>

TryLock(a) ==
    /\ pc[a] = "try"
    /\ \/ Take(a)
       \/ mine[a] \notin token /\ Goto(a, "lost") /\ UNCHANGED token
    /\ UNCHANGED <<job, ctx, mine, locks, refs, fileVars>>

\* The loser comes back through acquireDestination.
Again(a) ==
    /\ pc[a] = "again"
    /\ Reference(a)
    /\ Goto(a, "wait")
    /\ UNCHANGED <<job, ctx, fileVars>>

\* acquireDestination's select, which may pick either when both are ready.
Receive(a) ==
    /\ pc[a] = "wait"
    /\ Take(a)
    /\ UNCHANGED <<job, ctx, mine, locks, refs, fileVars>>

GiveUp(a) ==
    /\ pc[a] = "wait"
    /\ a \in ctx
    /\ Goto(a, "drop")
    /\ UNCHANGED <<job, ctx, lockVars, fileVars>>

\* A plausible slip: a token received by a dead context is not given back.
KeepDeadToken(a) ==
    /\ pc[a] = "got"
    /\ Goto(a, IF a \in ctx THEN "drop" ELSE "stat")
    /\ UNCHANGED <<job, ctx, lockVars, fileVars>>

\* The token arrived together with the cancellation: it goes back.
CheckCtx(a) ==
    /\ pc[a] = "got"
    /\ IF a \in ctx THEN Goto(a, "drop") /\ token' = token \cup {mine[a]}
                    ELSE Goto(a, "stat") /\ UNCHANGED token
    /\ UNCHANGED <<job, ctx, mine, locks, refs, fileVars>>

\* unlock: the token first, then the reference.
Unlock(a) ==
    /\ pc[a] = "unlock"
    /\ token' = token \cup {mine[a]}
    /\ Goto(a, "drop")
    /\ UNCHANGED <<job, ctx, mine, locks, refs, fileVars>>

\* A plausible slip: the entry leaves the registry with its first user.
LastRefAlways(e) == TRUE

\* A plausible slip: one reference is taken for none.
LastRefOffByOne(e) == refs[e] = 0

LastRef(e) == refs[e] = 1

\* releaseDestinationRef
Drop(a) ==
    /\ pc[a] \in {"lost", "drop"}
    /\ LET e == mine[a] IN
         /\ refs' = [refs EXCEPT ![e] = @ - 1]
         /\ locks' = IF LastRef(e) /\ locks[home[a]] = e
                       THEN [locks EXCEPT ![home[a]] = None] ELSE locks
         /\ token' = IF refs[e] = 1 THEN token \ {e} ELSE token
    /\ mine' = [mine EXCEPT ![a] = None]
    /\ IF pc[a] = "lost" THEN Goto(a, "again") /\ UNCHANGED ctx
                         ELSE Goto(a, "idle") /\ ctx' = ctx \ {a}
    /\ job' = IF pc[a] = "lost" THEN job ELSE [job EXCEPT ![a] = "get"]
    /\ UNCHANGED fileVars

-----------------------------------------------------------------------------
(* The staging file: openStaging and lockStaging *)

\* Without Overwrite a destination that exists ends the download.
Stat(a) ==
    /\ pc[a] = "stat"
    /\ Goto(a, IF job[a] = "get" /\ dest # None THEN "close" ELSE "open")
    /\ UNCHANGED <<job, ctx, lockVars, fileVars>>

\* Get creates the file; Discard without one only removes the sidecar.
Open(a) ==
    /\ pc[a] = "open"
    /\ IF part = None /\ job[a] = "discard"
         THEN Goto(a, "rmside") /\ UNCHANGED <<fd, part>>
         ELSE /\ part' = IF part = None THEN FreshInode ELSE part
              /\ fd' = [fd EXCEPT ![a] = part']
              /\ Goto(a, "opened")
    /\ UNCHANGED <<job, ctx, lockVars, locked, dest>>

\* openStaging looks at the name again; gone, Discard takes it for never there.
Reopened(a) ==
    /\ pc[a] = "opened"
    /\ Goto(a, CASE part = fd[a] -> "flock"
                 [] part = None /\ job[a] = "discard" -> "rmside"
                 [] OTHER -> "close")
    /\ fd' = IF part = fd[a] THEN fd ELSE [fd EXCEPT ![a] = None]
    /\ UNCHANGED <<job, ctx, lockVars, locked, part, dest>>

Flock(a) ==
    /\ pc[a] = "flock"
    /\ IF \E b \in locked : fd[b] = fd[a]
         THEN Goto(a, "close") /\ UNCHANGED locked
         ELSE Goto(a, "check") /\ locked' = locked \cup {a}
    /\ UNCHANGED <<job, ctx, lockVars, fd, part, dest>>

\* A plausible slip: the lock alone is taken for ownership.
CheckNothing(a) ==
    /\ pc[a] = "check"
    /\ Goto(a, "own")
    /\ UNCHANGED <<job, ctx, lockVars, fileVars>>

\* An opener paused across another's installation locked the wrong inode.
CheckSame(a) ==
    /\ pc[a] = "check"
    /\ Goto(a, IF part = fd[a] THEN "own" ELSE "close")
    /\ UNCHANGED <<job, ctx, lockVars, fileVars>>

-----------------------------------------------------------------------------
(* The owner: staging, installation, Discard *)

\* The run writes its open file, and ends in an error or an installation.
Fail(a) ==
    /\ pc[a] = "own"
    /\ Goto(a, "close")
    /\ UNCHANGED <<job, ctx, lockVars, fileVars>>

\* install with Overwrite; two names of one file stay as they are.
Rename(a) ==
    /\ pc[a] = "own" /\ job[a] = "overwrite"
    /\ part # None
    /\ dest' = part
    /\ part' = IF dest = part THEN part ELSE None
    /\ Goto(a, "rmside")
    /\ UNCHANGED <<job, ctx, lockVars, fd, locked>>

Link(a) ==
    /\ pc[a] = "own" /\ job[a] = "get"
    /\ part # None
    /\ IF dest = None THEN dest' = part /\ Goto(a, "unlink")
                      ELSE Goto(a, "close") /\ UNCHANGED dest
    /\ UNCHANGED <<job, ctx, lockVars, fd, locked, part>>

\* Removing the staging name; after an installation a failure is only logged.
Unlink(a) ==
    /\ \/ pc[a] = "unlink" /\ part' \in {part, None}
       \/ pc[a] = "own" /\ job[a] = "discard" /\ part' = None
    /\ Goto(a, "rmside")
    /\ UNCHANGED <<job, ctx, lockVars, fd, locked, dest>>

\* The sidecar is removed by name; whose it is by then shows in the others'
\* states.
RemoveSide(a) ==
    /\ pc[a] = "rmside"
    /\ Goto(a, "close")
    /\ UNCHANGED <<job, ctx, lockVars, fileVars>>

\* The deferred calls run last first: the file closes, and its lock goes,
\* before the path lock is given back.
Close(a) ==
    /\ pc[a] = "close"
    /\ fd' = [fd EXCEPT ![a] = None]
    /\ locked' = locked \ {a}
    /\ Goto(a, "unlock")
    /\ UNCHANGED <<job, ctx, lockVars, part, dest>>

-----------------------------------------------------------------------------
(* The world *)

\* A cancellation that comes when the context is no longer looked at ends the
\* download, which Fail covers.
Cancel(a) ==
    /\ pc[a] \in {"try", "lost", "again", "wait", "got"}
    /\ a \notin ctx
    /\ ctx' = ctx \cup {a}
    /\ UNCHANGED <<pc, job, lockVars, fileVars>>

\* A process dies: its memory and its descriptors, with their locks, are gone.
Crash(p) ==
    LET dead == {a \in Calls : home[a] = p} IN
      /\ \E a \in dead : pc[a] # "idle"
      /\ pc' = [a \in Calls |-> IF a \in dead THEN "idle" ELSE pc[a]]
      /\ ctx' = ctx \ dead
      /\ mine' = [a \in Calls |-> IF a \in dead THEN None ELSE mine[a]]
      /\ locks' = [locks EXCEPT ![p] = None]
      /\ refs' = [e \in Entries |-> IF \E a \in dead : mine[a] = e THEN 0 ELSE refs[e]]
      /\ fd' = [a \in Calls |-> IF a \in dead THEN None ELSE fd[a]]
      /\ locked' = locked \ dead
      /\ token' = {e \in token : \A a \in dead : mine[a] # e}
      /\ job' = [a \in Calls |-> IF a \in dead THEN "get" ELSE job[a]]
      /\ UNCHANGED <<part, dest>>

UserRemoves ==
    /\ dest # None
    /\ dest' = None
    /\ UNCHANGED <<pc, job, ctx, lockVars, fd, locked, part>>

-----------------------------------------------------------------------------
Init ==
    /\ pc = [a \in Calls |-> "idle"]
    /\ job = [a \in Calls |-> "get"]
    /\ ctx = {}
    /\ mine = [a \in Calls |-> None]
    /\ locks = [p \in Procs |-> None]
    /\ refs = [e \in Entries |-> 0]
    /\ token = {}
    /\ fd = [a \in Calls |-> None]
    /\ locked = {}
    /\ part = None /\ dest = None

\* The steps of a call that has begun, but for the token's arrival.
Proceed(a) ==
    \/ TryLock(a) \/ Again(a) \/ GiveUp(a) \/ CheckCtx(a) \/ Unlock(a) \/ Drop(a)
    \/ Stat(a) \/ Open(a) \/ Reopened(a) \/ Flock(a) \/ CheckSame(a)
    \/ Fail(a) \/ Rename(a) \/ Link(a) \/ Unlink(a) \/ RemoveSide(a) \/ Close(a)

Next ==
    \/ \E a \in Calls : Begin(a) \/ Proceed(a) \/ Receive(a) \/ Cancel(a)
    \/ \E p \in Procs : Crash(p)
    \/ UserRemoves

Spec == Init /\ [][Next]_vars

-----------------------------------------------------------------------------
(* Properties *)

Owners == {a \in Calls : pc[a] \in {"own", "unlink"}}

\* Whoever writes, installs or removes the staging file is alone in doing so,
\* in all processes, and the file it has locked is the one that has the name:
\* nobody writes into a file another process has installed.
OneWriter ==
    \A a \in Owners : a \in locked /\ fd[a] = part /\ \A b \in Owners : a = b

\* Within a process one call holds the destination at a time, although the
\* registry entry is dropped and made anew between calls.
OneHolder ==
    \A a, b \in Calls :
        home[a] = home[b] /\ pc[a] \in Holding /\ pc[b] \in Holding => a = b

\* Calls of one process wait for each other: ErrLocked always means another
\* process, since a call closes the file before it gives the path back.
SiblingsWait ==
    \A a \in Calls :
        pc[a] = "flock" => \A b \in locked : fd[a] = fd[b] => home[a] # home[b]

\* "Entries are reference-counted so arbitrary destination names do not
\* accumulate forever": when nobody uses the destination, the entry is gone.
NoLeak ==
    \A p \in Procs :
        (\A a \in Calls : home[a] = p => pc[a] = "idle") => locks[p] = None

\* The token of an entry is in the channel or with the one call that holds it,
\* however arrivals, cancellations and unlocks meet: were it lost, everybody who
\* waits for the destination would wait forever.
NoTokenLost ==
    \A a \in Calls :
        mine[a] # None /\ mine[a] \notin token =>
            \E b \in Calls : mine[b] = mine[a] /\ pc[b] \in Holding

=============================================================================
