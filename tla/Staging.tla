------------------------------ MODULE Staging ------------------------------
(***************************************************************************)
(* The files of one destination over many downloads: the staging file      *)
(* dest.part, its sidecar dest.part.json and the destination, as names for *)
(* inodes, through multipart and single-stream staging, verification,      *)
(* installation and Discard (download.go, worker.go, state.go).  A process *)
(* may die between any two system calls; the remote object may change at   *)
(* any time, and the user may create or remove the destination.            *)
(*                                                                         *)
(* A byte of a file is the version of the remote object it came from.  The *)
(* ranges of a multipart run are module WorkerPool's: here a run fetches   *)
(* its missing bytes in any order, and its sidecar names the bytes that    *)
(* the file holds.  One download runs at a time (the path lock and the     *)
(* staging lock are not modelled here).                                    *)
(***************************************************************************)
EXTENDS Integers, Sequences, FiniteSets

CONSTANTS
    Total,      \* bytes of every version of the remote object
    Versions,   \* bound: the remote object is version 1, then 2, ... Versions
    Inodes,     \* inodes of the file system
    Policies    \* sets of values of Options.Overwrite that the downloads of
                \* one destination use

NoFile == 0

ASSUME StagingAssumption ==
    /\ Total \in Nat \ {0}
    /\ Versions \in Nat \ {0}
    /\ NoFile \notin Inodes
    /\ Policies \subseteq SUBSET BOOLEAN

VARIABLES
    remote,     \* version the server has
    data,       \* inode -> its bytes
    part, dest, \* the inode each name has, or NoFile
    side,       \* {} or {the sidecar}: its validator and the bytes it vouches for
    phase,      \* what the process is about to do
    run,        \* the download in progress
    policy      \* the callers' choice, which no step changes

vars == <<remote, data, part, dest, side, phase, run, policy>>

Hole == 0
Foreign == -1
Bytes == 1 .. Total
Version == 1 .. Versions

Whole(v) == [b \in Bytes |-> v]
NoRun == [over |-> FALSE, etag |-> 0, sum |-> 0, todo |-> {}, src |-> 0]

Phases == {"idle", "open", "invalidated", "multi", "truncate", "stream",
           "verify", "install", "unlink", "cleanup", "discard"}

\* The next steps of the process; the open descriptor is part's inode.
Goto(p) == phase' = p
Finish == phase' = "idle" /\ run' = NoRun
Content == data[part]
Write(bytes) == data' = [data EXCEPT ![part] = bytes]

-----------------------------------------------------------------------------
(* Do: the election, the destination check, the staging file *)

\* A plausible slip: ranges are trusted without validator or checksum.
AlwaysMultipart(r) == TRUE

\* The response named its version; only then is a sidecar worth writing.
Resumable(r) == r.etag # 0

\* Without a validator only a checksum can bind ranges to one version.
MayMultipart(r) == Resumable(r) \/ r.sum # 0

\* etag 0 stands for a response without validator, sum 0 for no checksum.
Begin ==
    /\ phase = "idle"
    /\ \E over \in policy, etag \in {0, remote}, sum \in {0} \cup Version :
         /\ over \/ dest = NoFile
         /\ run' = [over |-> over, etag |-> etag, sum |-> sum, todo |-> {}, src |-> 0]
    /\ IF part = NoFile
         THEN \E i \in Inodes \ {dest} : part' = i /\ data' = [data EXCEPT ![i] = <<>>]
         ELSE UNCHANGED <<part, data>>
    /\ Goto("open")
    /\ UNCHANGED <<remote, dest, side, policy>>

-----------------------------------------------------------------------------
(* multipart *)

\* loadState and usable: same validator, and the preallocation is intact.
Usable(s) == s.etag = run.etag /\ Len(Content) = Total

Resume ==
    /\ phase = "open" /\ MayMultipart(run)
    /\ \E s \in side : Usable(s) /\ run' = [run EXCEPT !.todo = Bytes \ s.have]
    /\ Goto("multi")
    /\ UNCHANGED <<remote, data, part, dest, side, policy>>

\* A plausible slip: the old sidecar survives a fresh start.
InvalidateNothing ==
    /\ phase = "open" /\ MayMultipart(run)
    /\ ~\E s \in side : Usable(s)
    /\ Goto("invalidated")
    /\ UNCHANGED <<remote, data, part, dest, side, run, policy>>

\* invalidateState comes before the first write.
Invalidate ==
    /\ phase = "open" /\ MayMultipart(run)
    /\ ~\E s \in side : Usable(s)
    /\ side' = {}
    /\ Goto("invalidated")
    /\ UNCHANGED <<remote, data, part, dest, run, policy>>

\* Truncate(total) cuts or pads; it clears nothing.
Preallocate ==
    /\ phase = "invalidated"
    /\ Write([b \in Bytes |-> IF b <= Len(Content) THEN Content[b] ELSE Hole])
    /\ run' = [run EXCEPT !.todo = Bytes]
    /\ Goto("multi")
    /\ UNCHANGED <<remote, part, dest, side, policy>>

\* A byte of a ranged response, which may have begun before the object changed;
\* If-Range makes the server refuse a range of another version.
Fetch(b) ==
    /\ phase = "multi"
    /\ b \in run.todo
    /\ \E v \in 1 .. remote :
         /\ run.etag \in {0, v}
         /\ Write([Content EXCEPT ![b] = v])
    /\ run' = [run EXCEPT !.todo = @ \ {b}]
    /\ UNCHANGED <<remote, part, dest, side, phase, policy>>

\* The flusher's tick, or the save after a failed run, when resumable.
SaveSidecar ==
    /\ phase = "multi"
    /\ Resumable(run)
    /\ side' = {[etag |-> run.etag, have |-> Bytes \ run.todo]}
    /\ UNCHANGED <<remote, data, part, dest, phase, run, policy>>

Complete ==
    /\ phase = "multi"
    /\ run.todo = {}
    /\ Goto("verify")
    /\ UNCHANGED <<remote, data, part, dest, side, run, policy>>

-----------------------------------------------------------------------------
(* single: every attempt starts the file over *)

\* A response arrived: its version is fixed for the whole stream, and it must
\* have the election's validator if there was one.  The first may be the
\* election's own, from before the object changed.
StreamBegins ==
    /\ phase \in {"open", "stream"}
    /\ \E v \in IF phase = "open" THEN 1 .. remote ELSE {remote} :
         /\ run.etag \in {0, v}
         /\ run' = [run EXCEPT !.src = v]
    /\ side' = {}
    /\ Goto("truncate")
    /\ UNCHANGED <<remote, data, part, dest, policy>>

TruncateAll ==
    /\ phase = "truncate"
    /\ Write(<<>>)
    /\ Goto("stream")
    /\ UNCHANGED <<remote, part, dest, side, run, policy>>

StreamByte ==
    /\ phase = "stream"
    /\ Len(Content) < Total
    /\ Write(Append(Content, run.src))
    /\ UNCHANGED <<remote, part, dest, side, phase, run, policy>>

StreamEnds ==
    /\ phase = "stream"
    /\ Len(Content) = Total
    /\ Goto("verify")
    /\ UNCHANGED <<remote, data, part, dest, side, run, policy>>

-----------------------------------------------------------------------------
(* verifyAndFinalize and install *)

Verified == run.sum = 0 \/ Content = Whole(run.sum)

\* A checksum mismatch leaves a complete sidecar behind a multipart run, unless
\* saving it fails.
Verify ==
    /\ phase = "verify"
    /\ Len(Content) = Total
    /\ IF Verified
         THEN Goto("install") /\ UNCHANGED <<side, run>>
         ELSE /\ Finish
              /\ \/ UNCHANGED side
                 \/ /\ run.src = 0 /\ Resumable(run)
                    /\ side' = {[etag |-> run.etag, have |-> Bytes]}
    /\ UNCHANGED <<remote, data, part, dest, policy>>

\* A plausible slip: install renames over whatever is there.
RenameOver ==
    /\ phase = "install"
    /\ dest' = part /\ part' = NoFile
    /\ Goto("cleanup")
    /\ UNCHANGED <<remote, data, side, run, policy>>

\* rename(2) of two names of one file does nothing and succeeds.
Rename ==
    /\ phase = "install" /\ run.over
    /\ IF dest = part THEN UNCHANGED <<dest, part>>
                      ELSE dest' = part /\ part' = NoFile
    /\ Goto("cleanup")
    /\ UNCHANGED <<remote, data, side, run, policy>>

\* link(2) refuses an existing destination (ErrDestExists).
Link ==
    /\ phase = "install" /\ ~run.over
    /\ IF dest = NoFile THEN dest' = part /\ Goto("unlink") /\ UNCHANGED run
                        ELSE Finish /\ UNCHANGED dest
    /\ UNCHANGED <<remote, data, part, side, policy>>

\* Removing the staging name; a failure is only logged.
Unlink ==
    /\ phase = "unlink"
    /\ part' \in {part, NoFile}
    /\ Goto("cleanup")
    /\ UNCHANGED <<remote, data, dest, side, run, policy>>

\* Removing the sidecar; a failure is only logged.
Cleanup ==
    /\ phase = "cleanup"
    /\ side' \in {side, {}}
    /\ Finish
    /\ UNCHANGED <<remote, data, part, dest, policy>>

-----------------------------------------------------------------------------
(* Failures, Discard, and the world outside *)

\* An error return, or the death of the process: the files stay as they are.
Quit ==
    /\ phase # "idle"
    /\ Finish
    /\ UNCHANGED <<remote, data, part, dest, side, policy>>

\* Discard removes the staging file first, the sidecar second.
DiscardPart ==
    /\ phase = "idle"
    /\ part' = NoFile
    /\ Goto("discard")
    /\ UNCHANGED <<remote, data, dest, side, run, policy>>

DiscardSide ==
    /\ phase = "discard"
    /\ side' = {}
    /\ Goto("idle")
    /\ UNCHANGED <<remote, data, part, dest, run, policy>>

RemoteChanges ==
    /\ remote < Versions
    /\ remote' = remote + 1
    /\ UNCHANGED <<data, part, dest, side, phase, run, policy>>

UserRemoves ==
    /\ dest # NoFile
    /\ dest' = NoFile
    /\ UNCHANGED <<remote, data, part, side, phase, run, policy>>

UserCreates ==
    /\ dest = NoFile
    /\ \E i \in Inodes \ {part} : dest' = i /\ data' = [data EXCEPT ![i] = Whole(Foreign)]
    /\ UNCHANGED <<remote, part, side, phase, run, policy>>

-----------------------------------------------------------------------------
Init ==
    /\ remote = 1
    /\ data = [i \in Inodes |-> <<>>]
    /\ part = NoFile /\ dest = NoFile
    /\ side = {}
    /\ phase = "idle" /\ run = NoRun
    /\ policy \in Policies

Next ==
    \/ Begin \/ Resume \/ Invalidate \/ Preallocate \/ SaveSidecar \/ Complete
    \/ \E b \in Bytes : Fetch(b)
    \/ StreamBegins \/ TruncateAll \/ StreamByte \/ StreamEnds
    \/ Verify \/ Rename \/ Link \/ Unlink \/ Cleanup
    \/ Quit \/ DiscardPart \/ DiscardSide
    \/ RemoteChanges \/ UserRemoves \/ UserCreates

Spec == Init /\ [][Next]_vars

-----------------------------------------------------------------------------
(* Properties *)

\* Whatever was interrupted, a sidecar that the next download would accept
\* vouches only for bytes that the staging file holds, of the sidecar's version.
SidecarHonest ==
    \A s \in side :
        part # NoFile /\ Len(Content) = Total =>
            \A b \in s.have : Content[b] = s.etag

\* "The destination never holds a partial file": it is one version, whole.
DestIsWhole ==
    dest # NoFile => \E v \in Version \cup {Foreign} : data[dest] = Whole(v)

\* Without Overwrite nothing replaces or alters an existing destination.
NoClobber ==
    [][dest # NoFile /\ ~run.over /\ dest' # NoFile
          => dest' = dest /\ data'[dest] = data[dest]]_vars

=============================================================================
