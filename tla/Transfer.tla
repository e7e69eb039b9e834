------------------------------ MODULE Transfer ------------------------------
(***************************************************************************)
(* One download as one worker sees it: the election (download.go elect,    *)
(* get), then either one chunk of a multipart run through the retry ladder *)
(* (worker.go attempt, downloadChunk) with the outcome of a dial race for  *)
(* every new connection, or the single stream.  The server answers as it likes,      *)
(* siblings take the chunk's tail and make progress, the culler cancels    *)
(* attempts, reads stall, and the remote object may be replaced.  Caller   *)
(* cancellation and retirement are WorkerPool's.                           *)
(*                                                                         *)
(* Bytes are (version, index) pairs.  A body is what its headers say it    *)
(* is: byte i of a 206 is byte i of the representation served, a known     *)
(* length is the body's, a clean end of an unknown one is its end.         *)
(***************************************************************************)
EXTENDS Integers, Sequences, FiniteSets, DialOutcome

CONSTANTS
    Addrs,          \* addresses a worker may be placed on
    Len0,           \* version of the remote object -> its length
    MaxRetries,     \* Options.MaxRetries
    MaxCulls,       \* bound on culls that hit this worker
    MaxProgress,    \* bound on siblings' reads between two charged attempts
    MaxChanges      \* bound on replacements of the remote object

Versions == DOMAIN Len0
Longest == CHOOSE n \in {Len0[v] : v \in Versions} : \A v \in Versions : Len0[v] <= n
Places == 0 .. Longest - 1

ASSUME TransferAssumption ==
    /\ IsFiniteSet(Addrs) /\ None \notin Addrs
    /\ Len0 \in Seq(Nat) /\ Len0 # <<>>
    /\ MaxRetries \in Nat \ {0}
    /\ {MaxCulls, MaxProgress, MaxChanges} \subseteq Nat

VARIABLES
    pc,
    remote,     \* the server: the version it has, whether it names validators, and bounds
    r,          \* what the run knows: mode, total, the version its validator names
    initial,    \* the election's response while nobody has taken or closed it
    part,       \* the staging file, and the version a sidecar vouches for, 0 without one
    w,          \* the worker: chunk, connection, what the retry ladder keeps; ask is the
                \* chunk's end when the attempt began
    body        \* the response being read

vars == <<pc, remote, r, initial, part, w, body>>

NoByte == [v |-> 0, i |-> 0]
Empty == [k \in Places |-> NoByte]
NoBody == [v |-> 0, at |-> 0, lim |-> 0, capped |-> FALSE, whole |-> FALSE]
NoError == [kind |-> "none", addrs |-> {}, permanent |-> FALSE]

\* takeInitial leaves none.
NoInitial == [open |-> FALSE, status |-> 0, e |-> 0, v |-> 0]

-----------------------------------------------------------------------------
(* Election *)

\* get: what the run makes of the response, with or without a configured checksum.
Elected(status, e, total) ==
    LET ranged == status = 206 /\ total > 0
        usable == status # 206 \/ ranged
    IN  \E checksum \in BOOLEAN :
        LET bound == remote.validator \/ checksum
            kept == usable /\ (ranged /\ e < total - 1 => bound)
        IN  /\ r' = [mode |-> IF ranged /\ bound THEN "multi" ELSE "single",
                     total |-> IF kept THEN total ELSE -1,
                     v |-> IF remote.validator THEN remote.ver ELSE 0]
            /\ initial' = IF kept
                 THEN [open |-> TRUE, status |-> status, e |-> e, v |-> remote.ver]
                 ELSE NoInitial
            /\ w' = [w EXCEPT !.tries = 0]
            /\ pc' = "lock"

\* A full response, with or without a length; a range from zero; one that makes
\* no sense; the range error of an empty resource.
ElectGood ==
    /\ pc = "elect"
    /\ LET n == Len0[remote.ver]
       IN  \/ \E total \in {n, -1} : Elected(200, 0, total)
           \/ n > 0 /\ \E e \in 0 .. n - 1 : Elected(206, e, n)
           \/ Elected(206, 0, -1)
           \/ n = 0 /\ Elected(416, 0, 0)
    /\ UNCHANGED <<remote, part, body>>

\* A transport error or a retryable status: three attempts in all.
ElectBad ==
    /\ pc = "elect"
    /\ w' = [w EXCEPT !.tries = IF @ + 1 < 3 THEN @ + 1 ELSE 0]
    /\ pc' = IF w.tries + 1 < 3 THEN "elect" ELSE "failed"
    /\ UNCHANGED <<remote, r, initial, part, body>>

ElectRefused ==
    /\ pc = "elect"
    /\ w' = [w EXCEPT !.tries = 0]
    /\ pc' = "failed"
    /\ UNCHANGED <<remote, r, initial, part, body>>

\* The destination's lock: free, or held by another download, for which the
\* response does not wait.
Lock ==
    /\ pc = "lock"
    /\ initial' \in {initial, NoInitial}
    /\ pc' = "begin"
    /\ UNCHANGED <<remote, r, part, w, body>>

\* multipart: a sidecar of this version resumes after the byte it vouches for and
\* closes the response; without one only the file's length is set.  The worker is
\* granted a chunk that ends anywhere.
BeginMulti ==
    /\ pc = "begin" /\ r.mode = "multi"
    /\ LET resumed == part.sidecar # 0 /\ part.sidecar = r.v
           from == IF resumed THEN 1 ELSE 0
       IN  /\ initial' = IF resumed THEN NoInitial ELSE initial
           /\ part' = IF resumed THEN part ELSE
                [bytes |-> [k \in Places |->
                               IF k < r.total THEN part.bytes[k] ELSE NoByte],
                 sidecar |-> 0]
           /\ IF from = r.total
              THEN w' = [w EXCEPT !.cursor = from, !.end = from] /\ pc' = "ok"
              ELSE /\ \E end \in from + 1 .. r.total :
                        w' = [w EXCEPT !.cursor = from, !.end = end]
                   /\ pc' = "attempt"
    /\ UNCHANGED <<remote, r, body>>

BeginSingle ==
    /\ pc = "begin" /\ r.mode = "single"
    /\ pc' = "stream"
    /\ UNCHANGED <<remote, r, initial, part, w, body>>

-----------------------------------------------------------------------------
(* One attempt at the chunk *)

\* How an attempt ended: what downloadChunk asks about its error.
Fails(kind, addrs, permanent) ==
    /\ w' = [w EXCEPT !.err = [kind |-> kind, addrs |-> addrs, permanent |-> permanent],
                      !.conn = IF kind \in {"slow", "stall", "rotation"} THEN None ELSE @,
                      !.ask = 0]
    /\ pc' = "decide"
    /\ body' = NoBody

\* A plausible slip: the range the server declares need not start at the cursor.
AcceptsShifted(c, requested, s, e, total) ==
    s <= c /\ e >= s /\ e < requested /\ total \in {-1, r.total}

\* readPartialResponse's test of the Content-Range.
Accepts(c, requested, s, e, total) ==
    s = c /\ e >= s /\ e < requested /\ total \in {-1, r.total}

\* readPartialResponse: what the response and the chunk have in common is read.
ReadRange(v, s, e, total, requested, end) ==
    IF Accepts(w.cursor, requested, s, e, total)
    THEN LET lim == IF e + 1 < end THEN e + 1 ELSE end
         IN  /\ body' = [v |-> v, at |-> s, lim |-> lim, capped |-> lim < end,
                         whole |-> FALSE]
             /\ pc' = "body"
    ELSE pc' = "failed" /\ body' = NoBody

\* initialRangeAttempt: the chunk at byte zero reads the election's response.
UseInitial ==
    /\ pc = "attempt"
    /\ w.cursor = 0 /\ initial.open
    /\ initial' = NoInitial
    /\ ReadRange(initial.v, 0, initial.e, r.total, r.total, w.end)
    /\ UNCHANGED <<remote, r, part, w>>

NeedsRequest == pc = "attempt" /\ ~(w.cursor = 0 /\ initial.open)

\* ensureClient finds no address to dial.
NoAddress ==
    /\ NeedsRequest /\ w.conn = None
    /\ Fails("rotation", {}, FALSE)
    /\ UNCHANGED <<remote, r, initial, part>>

\* The transport dials the address reserved against a fallback.  The race has no
\* winner, or one whose handshake may fail.
Dial ==
    /\ NeedsRequest /\ w.conn = None
    /\ \E p \in Addrs : \E f \in (Addrs \ {p}) \cup {None} : \E o \in DialOutcomes(p, f) :
         IF o.winner = None THEN Fails("rotation", o.failed, FALSE)
         ELSE \/ /\ w' = [w EXCEPT !.conn = o.winner, !.ask = w.end]
                 /\ pc' = "sent" /\ body' = body
              \/ \E certificate \in BOOLEAN : Fails("rotation", {o.winner}, certificate)
    /\ UNCHANGED <<remote, r, initial, part>>

Reuse ==
    /\ NeedsRequest /\ w.conn # None
    /\ w' = [w EXCEPT !.ask = w.end]
    /\ pc' = "sent"
    /\ UNCHANGED <<remote, r, initial, part, body>>

\* The server's answer to a range request.  With If-Range it sends a range of
\* the version the run knows or the whole of another; its Content-Range may be any.
Answer ==
    /\ pc = "sent"
    /\ \/ /\ remote.validator => r.v = remote.ver
          /\ \E s \in Places, e \in Places, total \in {-1, r.total, r.total + 1} :
               ReadRange(remote.ver, s, e, total, w.ask, w.ask)
          /\ w' = w
       \/ IF r.v # 0 THEN pc' = "failed" /\ UNCHANGED <<w, body>>
          ELSE Fails("ignored", {}, FALSE)
       \/ Fails("throttled", {}, FALSE)
       \/ Fails("status", {}, FALSE)
       \/ pc' = "failed" /\ UNCHANGED <<w, body>>
    /\ UNCHANGED <<remote, r, initial, part>>

\* chunkSink: a byte is written at the claimed cursor, and the attempt is done
\* with the last one the chunk still has.
ReadByte ==
    /\ pc = "body" /\ ~body.whole
    /\ body.at < body.lim
    /\ part' = [part EXCEPT !.bytes[w.cursor] = [v |-> body.v, i |-> body.at]]
    /\ w' = [w EXCEPT !.cursor = @ + 1, !.moved = TRUE]
    /\ pc' = IF w.cursor + 1 >= w.end THEN "ok" ELSE "body"
    /\ body' = [body EXCEPT !.at = @ + 1]
    /\ UNCHANGED <<remote, r, initial>>

\* A plausible slip: a response the server cut short counts as a capped range
\* however little of it came.
BodyEndsFree ==
    /\ pc = "body" /\ ~body.whole
    /\ Fails(IF body.capped THEN "capped" ELSE "short", {}, FALSE)
    /\ UNCHANGED <<remote, r, initial, part>>

\* The body ends, at the limit or before: a range the server capped and delivered
\* in full advances the chunk, anything else was too short.
BodyEnds ==
    /\ pc = "body" /\ ~body.whole
    /\ Fails(IF body.capped /\ w.cursor >= body.lim THEN "capped" ELSE "short", {}, FALSE)
    /\ UNCHANGED <<remote, r, initial, part>>

\* The stall timer or a cull cancels the attempt, in its dial too.
Aborted(kind) ==
    /\ r.mode = "multi"
    /\ \/ pc \in {"sent", "body"}
       \/ NeedsRequest /\ w.conn = None
    /\ Fails(kind, {}, FALSE)
    /\ UNCHANGED <<r, initial, part>>

Stall == Aborted("stall") /\ UNCHANGED remote
Cull == Aborted("slow") /\ remote.culls > 0 /\ remote' = [remote EXCEPT !.culls = @ - 1]

-----------------------------------------------------------------------------
(* downloadChunk: what an attempt's error costs *)

\* A plausible slip: the budget does not remember which addresses have failed.
AdmitsAgain(b, addrs) == addrs # {} \/ ~b.refreshed

\* rotationBudget.admit: one free attempt for every address not yet tried, and
\* one for a fresh resolution.
Admits(b, addrs) == ~(addrs \subseteq b.tried) \/ ~b.refreshed

Again(u) == [u EXCEPT !.err = NoError]

FreeRetry ==
    /\ pc = "decide"
    /\ w.err.kind \in {"capped", "slow"}
    /\ w' = Again(w)
    /\ pc' = "attempt"
    /\ UNCHANGED <<remote, r, initial, part, body>>

Rotates(b) ==
    [tried |-> b.tried \cup w.err.addrs,
     refreshed |-> b.refreshed \/ w.err.addrs \subseteq b.tried,
     permanent |-> b.permanent \/ w.err.permanent]

Rotate ==
    /\ pc = "decide" /\ w.err.kind = "rotation"
    /\ Admits(w.budget, w.err.addrs)
    /\ w' = Again([w EXCEPT !.budget = Rotates(@), !.free = @ + 1])
    /\ pc' = "attempt"
    /\ UNCHANGED <<remote, r, initial, part, body>>

\* Once every rotation is spent a bad certificate is final.
RotateNoMore ==
    /\ pc = "decide" /\ w.err.kind = "rotation"
    /\ ~Admits(w.budget, w.err.addrs)
    /\ w.budget.permanent \/ w.err.permanent
    /\ pc' = "failed"
    /\ UNCHANGED <<remote, r, initial, part, w, body>>

\* While siblings progress a 429 is waited out.
WaitOut ==
    /\ pc = "decide" /\ w.err.kind = "throttled"
    /\ w.moved
    /\ w' = Again([w EXCEPT !.moved = FALSE])
    /\ pc' = "attempt"
    /\ UNCHANGED <<remote, r, initial, part, body>>

\* What is charged: all that is left.
Charged ==
    \/ w.err.kind \in {"stall", "short", "ignored", "status"}
    \/ w.err.kind = "throttled" /\ ~w.moved
    \/ /\ w.err.kind = "rotation" /\ ~Admits(w.budget, w.err.addrs)
       /\ ~w.budget.permanent /\ ~w.err.permanent

\* A plausible slip: the attempts are counted from zero and compared as if from one.
ChargeLate ==
    /\ pc = "decide" /\ Charged
    /\ w' = Again([w EXCEPT !.tries = @ + 1, !.moved = FALSE])
    /\ pc' = IF w.tries + 1 > MaxRetries THEN "failed" ELSE "attempt"
    /\ UNCHANGED <<remote, r, initial, part, body>>

Charge ==
    /\ pc = "decide" /\ Charged
    /\ w' = Again([w EXCEPT !.tries = @ + 1, !.moved = FALSE])
    /\ pc' = IF w.tries + 1 >= MaxRetries THEN "failed" ELSE "attempt"
    /\ UNCHANGED <<remote, r, initial, part, body>>

-----------------------------------------------------------------------------
(* The single stream *)

\* singleAttempt's failures: all are charged but the permanent ones.
StreamFails ==
    /\ w' = [w EXCEPT !.tries = @ + 1]
    /\ pc' = IF w.tries + 1 >= MaxRetries THEN "failed" ELSE "stream"
    /\ body' = NoBody

\* A plausible slip: a retry still expects the length the election declared.
StageStale(v, total, length) ==
    /\ r' = r
    /\ part' = [bytes |-> Empty, sidecar |-> 0]
    /\ body' = [v |-> v, at |-> 0, lim |-> IF r.total >= 0 THEN r.total ELSE length,
                capped |-> FALSE, whole |-> TRUE]
    /\ pc' = "body"

\* A usable response: the sidecar goes and the file is truncated.  total is what the
\* run expects, -1 if nothing, length what this response declares.
Stage(v, total, length) ==
    /\ r' = [r EXCEPT !.total = total]
    /\ part' = [bytes |-> Empty, sidecar |-> 0]
    /\ body' = [v |-> v, at |-> 0, lim |-> IF total >= 0 THEN total ELSE length,
                capped |-> FALSE, whole |-> TRUE]
    /\ pc' = "body"

\* The election's response: checkSingleStatus asks a 206 to be the whole,
\* of which get has made sure.
StreamInitial ==
    /\ pc = "stream" /\ initial.open
    /\ initial' = NoInitial
    /\ CASE initial.status = 416 ->
              /\ part' = [bytes |-> Empty, sidecar |-> 0]
              /\ body' = [NoBody EXCEPT !.v = initial.v, !.whole = TRUE]
              /\ pc' = "ok" /\ r' = r
         [] initial.status = 206 /\ initial.e # r.total - 1 ->
              pc' = "failed" /\ UNCHANGED <<r, part, body>>
         [] OTHER -> Stage(initial.v, r.total, -1)
    /\ UNCHANGED <<remote, w>>

\* A new request, for the whole: only a 200 of the version known will do.
StreamAgain ==
    /\ pc = "stream" /\ ~initial.open
    /\ \/ /\ remote.validator => r.v = remote.ver
          /\ \E length \in {Len0[remote.ver], -1} : Stage(remote.ver, -1, length)
          /\ w' = w
       \/ /\ remote.validator /\ r.v # remote.ver
          /\ pc' = "failed" /\ UNCHANGED <<r, part, w, body>>
       \/ pc' = "failed" /\ UNCHANGED <<r, part, w, body>>
       \/ StreamFails /\ UNCHANGED <<r, part>>
    /\ UNCHANGED <<remote, initial>>

\* singleSink
StreamByte ==
    /\ pc = "body" /\ body.whole
    /\ body.at < Len0[body.v] /\ (body.lim >= 0 => body.at < body.lim)
    /\ part' = [part EXCEPT !.bytes[body.at] = [v |-> body.v, i |-> body.at]]
    /\ body' = [body EXCEPT !.at = @ + 1]
    /\ UNCHANGED <<pc, remote, r, initial, w>>

\* The declared length is reached or, without one, the body ends cleanly.
StreamEnds ==
    /\ pc = "body" /\ body.whole
    /\ body.at = IF body.lim >= 0 THEN body.lim ELSE Len0[body.v]
    /\ r' = [r EXCEPT !.total = body.at]
    /\ pc' = "ok"
    /\ UNCHANGED <<remote, initial, part, w, body>>

\* It ends too early, breaks off or stalls.
StreamBreaks ==
    /\ pc = "body" /\ body.whole
    /\ StreamFails
    /\ UNCHANGED <<remote, r, initial, part>>

-----------------------------------------------------------------------------
(* What others do *)

\* A sibling steals the chunk's tail; the byte at the cursor stays.
Shrink ==
    /\ r.mode = "multi" /\ pc \in {"attempt", "sent", "body", "decide"}
    /\ w.end > w.cursor + 1
    /\ w' = [w EXCEPT !.end = @ - 1]
    /\ UNCHANGED <<pc, remote, r, initial, part, body>>

\* Another worker reads: this one looks when it is throttled.
Sibling ==
    /\ pc = "decide" /\ w.err.kind = "throttled" /\ ~w.moved
    /\ remote.progress > 0
    /\ w' = [w EXCEPT !.moved = TRUE]
    /\ remote' = [remote EXCEPT !.progress = @ - 1]
    /\ UNCHANGED <<pc, r, initial, part, body>>

Change ==
    /\ pc \notin {"ok", "failed"}
    /\ remote.changes > 0
    /\ \E v \in Versions \ {remote.ver} :
         remote' = [remote EXCEPT !.ver = v, !.changes = @ - 1]
    /\ UNCHANGED <<pc, r, initial, part, w, body>>

-----------------------------------------------------------------------------

\* The staging file is empty or holds the first byte of some version, for which
\* a sidecar vouches.
Init ==
    /\ pc = "elect"
    /\ remote \in [ver : Versions, validator : BOOLEAN, changes : {MaxChanges},
                   culls : {MaxCulls}, progress : {MaxProgress}]
    /\ r = [mode |-> "none", total |-> -1, v |-> 0]
    /\ initial = NoInitial
    /\ \E v \in {0} \cup {u \in Versions : Len0[u] > 0} :
         part = [bytes |-> [Empty EXCEPT ![0].v = v], sidecar |-> v]
    /\ w = [cursor |-> 0, end |-> 0, ask |-> 0, conn |-> None, tries |-> 0,
            moved |-> FALSE,
            budget |-> [tried |-> {}, refreshed |-> FALSE, permanent |-> FALSE],
            free |-> 0,
            err |-> NoError]
    /\ body = NoBody

Run ==
    \/ ElectGood \/ ElectBad \/ ElectRefused \/ Lock \/ BeginMulti \/ BeginSingle
    \/ UseInitial \/ NoAddress \/ Dial \/ Reuse \/ Answer
    \/ ReadByte \/ BodyEnds \/ Stall
    \/ FreeRetry \/ Rotate \/ RotateNoMore \/ WaitOut \/ Charge
    \/ StreamInitial \/ StreamAgain \/ StreamByte \/ StreamEnds \/ StreamBreaks

Next == Run \/ Cull \/ Shrink \/ Sibling \/ Change

Spec == Init /\ [][Next]_vars
FairSpec == Spec /\ WF_vars(Run)

-----------------------------------------------------------------------------

Kinds == {"none", "rotation", "ignored", "throttled", "status", "capped", "short",
          "stall", "slow"}
Bytes == [v : {0} \cup Versions, i : {0} \cup Places]
Bound == -1 .. Longest

\* Every variable has its type (the fields of run, worker and rotationBudget), and
\* no more attempts are charged than elect and downloadChunk allow.
TypeOK ==
    /\ pc \in {"elect", "lock", "begin", "attempt", "sent", "body", "decide", "stream",
               "ok", "failed"}
    /\ remote \in [ver : Versions, validator : BOOLEAN, changes : 0 .. MaxChanges,
                   culls : 0 .. MaxCulls, progress : 0 .. MaxProgress]
    /\ r \in [mode : {"none", "multi", "single"}, total : Bound, v : {0} \cup Versions]
    /\ initial \in [open : BOOLEAN, status : {0, 200, 206, 416},
                    e : {0} \cup Places, v : {0} \cup Versions]
    /\ part \in [bytes : [Places -> Bytes], sidecar : {0} \cup Versions]
    /\ w \in [cursor : 0 .. Longest, end : 0 .. Longest, ask : 0 .. Longest,
              conn : Addrs \cup {None}, tries : Nat, moved : BOOLEAN,
              budget : [tried : SUBSET Addrs, refreshed : BOOLEAN, permanent : BOOLEAN],
              free : Nat,
              err : [kind : Kinds, addrs : SUBSET Addrs, permanent : BOOLEAN]]
    /\ w.tries <= IF pc = "elect" THEN 2 ELSE MaxRetries
    /\ body \in [v : {0} \cup Versions, at : 0 .. Longest, lim : Bound, capped : BOOLEAN,
                 whole : BOOLEAN]

\* Bytes 0 .. n - 1 of the file are those bytes of a representation, and of the
\* version the run's validator names if it names one.
PlacedUpTo(n) ==
    \A k \in 0 .. n - 1 :
        /\ part.bytes[k].v # 0 /\ part.bytes[k].i = k
        /\ r.v # 0 => part.bytes[k].v = r.v

\* Whatever ranges the server declares, delivers and cuts short, whatever siblings
\* take and whenever the object is replaced, what a chunk counts as done is in its
\* place and, with a validator, of the version elected; so a chunk that succeeds
\* is covered to its end (readPartialResponse, chunkSink).
PlacedRight ==
    r.mode = "multi" /\ pc \notin {"lock", "begin"} =>
        PlacedUpTo(w.cursor) /\ (pc = "ok" => w.cursor = w.end)

\* "stopping it at the election total installs a truncated prefix" (worker.go:
\* 902-908): a single stream that succeeds has staged the whole of one version and nothing
\* else, though an earlier attempt read from another.
WholeStream ==
    r.mode = "single" /\ pc = "ok" =>
        \E v \in Versions :
            /\ r.total = Len0[v]
            /\ \A k \in Places :
                  part.bytes[k] = IF k < r.total THEN [v |-> v, i |-> k] ELSE NoByte

\* A chunk costs one free attempt for every address and one for a refresh, and no
\* more (rotationBudget's comment).
RotationsBounded == w.free <= Cardinality(Addrs) + 1

\* However servers, addresses and siblings behave, a transfer ends: every retry
\* is charged, free only while something advances, or one of finitely many.
Ends == <>(pc \in {"ok", "failed"})

=============================================================================
