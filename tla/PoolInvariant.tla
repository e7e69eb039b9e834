--------------------------- MODULE PoolInvariant ---------------------------
(***************************************************************************)
(* The inductive invariant of WorkerPool.  SidecarSound, SuccessMeansWhole *)
(* and RetirementIsClean are not inductive: what makes them true is which  *)
(* bytes each chunk stands for at every step of the worker that owns it.   *)
(* CInv adds what the other properties of the pool rest on.                *)
(***************************************************************************)
EXTENDS WorkerPool

\* Labels of a worker that has no chunk.
Free == {"unborn", "top", "next"}

\* Labels of a worker that has left, or is on its way out with an error.
Out == {"failing", "broken", "gone"}

\* Labels between a claim and the count of the claimed bytes, and what an
\* error in between leads to.
Unsettled == {"write", "count", "perm", "escaped", "failing", "gone"}

\* Nothing lies past the end of the file.
InsideFile ==
    /\ \A i \in Ids : chunks[i].end <= Total
    /\ \A S \in side \cup snap : IsFiniteSet(S) /\ \A s \in S : s.end <= Total

\* A chunk in hand is in the hands of a worker that is past its grant.
FreeHandsEmpty == \A i \in Active : pc[chunks[i].owner] \notin Free

\* Claimed bytes are uncounted only while their worker writes them.
UnsettledIsHeld ==
    \A i \in Ids : chunks[i].written # chunks[i].done =>
        i \in Active /\ pc[chunks[i].owner] \in Unsettled

\* Bytes about to be counted are in the file.
CountedIsLanded ==
    \A i \in Active : pc[chunks[i].owner] = "count" => InFlight(chunks[i]) \subseteq disk

\* A chunk about to be completed is claimed to its end, and stays so.
FinishedIsFull ==
    \A i \in Active :
        \/ pc[chunks[i].owner] = "finish"
        \/ pc[chunks[i].owner] \in {"write", "count"} /\ last[chunks[i].owner]
        => Left(chunks[i]) = 0

\* Bytes that are not in the file are in the unwritten part of some chunk.
Covered ==
    phase \notin {"open", "wiped"} =>
        \A b \in Bytes : b \in disk \/ \E i \in Ids : b \in Missing(chunks[i])

\* Before the workers start nothing is in flight, and the file is only started
\* over when no sidecar vouches for it.
QuietStart ==
    /\ phase \in {"open", "wiped", "prepare"} =>
         /\ Active = {} /\ snap = {} /\ result = "none" /\ woken = {}
         /\ \A w \in Workers : pc[w] = "unborn" /\ waking[w] = {}
    /\ phase = "wiped" => side = {}
    /\ result = "ok" => phase = "over"

\* The retirement mark empties a worker's chunk for good, a worker is only
\* cancelled for retirement after it was marked, and so the net never breaks.
RetiringIsDrained == \A i \in Active : chunks[i].owner \in retiring => Left(chunks[i]) = 0

WokenIsRetiring ==
    /\ \A w \in woken : w \in retiring \/ pc[w] \in Out
    /\ \A g \in Workers : \A w \in waking[g] : w \in retiring \/ pc[w] \in Out
    /\ \A w \in Workers : pc[w] # "broken"

IInv ==
    /\ TypeOK
    /\ OneChunkEach
    /\ InsideFile
    /\ FreeHandsEmpty
    /\ UnsettledIsHeld
    /\ CountedIsLanded
    /\ FinishedIsFull
    /\ Covered
    /\ QuietStart
    /\ RetiringIsDrained
    /\ WokenIsRetiring
    /\ SidecarSound
    /\ SuccessMeansWhole
    /\ RetirementIsClean

-----------------------------------------------------------------------------
(* What FlowLimit, SidecarTiles, OnlyOvertakenStranded, ReporterContract    *)
(* and the refinement of Ledger rest on besides IInv.                       *)

\* No byte belongs to two chunks, whatever was split off or surrendered.
ChunksApart ==
    \A i, j \in Ids : i # j => chunks[i].end <= chunks[j].off \/ chunks[j].end <= chunks[i].off

\* What the Reporter was told last is how things stand.
ShownMatches ==
    /\ DOMAIN shown = Active
    /\ \A i \in Active : /\ shown[i].len = chunks[i].end - chunks[i].off
                         /\ shown[i].got = chunks[i].written

\* Whoever is registered has yet to leave.
LiveIsUp == \A w \in live : pc[w] # "unborn" /\ pc[w] \notin Out

\* In a run that goes on a worker leaves only a drained chunk behind, and only if
\* its retirement overtook it.
LeftBehind ==
    \A i \in Active : LET w == chunks[i].owner IN
        pc[w] = "gone" => RunCancelled \/ (w \in woken /\ Left(chunks[i]) = 0)

\* While there is work to grant, somebody who may be granted it is around.
Manned ==
    phase = "run" /\ ~RunCancelled /\ Pending # {} =>
        \E w \in Workers : pc[w] \notin {"unborn", "gone"} /\ w \notin retiring

\* The verdict is the last thing a run gives.
ResultLate == phase = "run" => result = "none"

CInv ==
    /\ FlowLimit
    /\ ChunksApart
    /\ SidecarTiles
    /\ ShownMatches
    /\ LiveIsUp
    /\ LeftBehind
    /\ Manned
    /\ ResultLate
    /\ OnlyOvertakenStranded

\* Both together are inductive; the other invariants of the pool follow.
PoolInv == IInv /\ CInv

=============================================================================
